---------------------------- MODULE KernelProofs ----------------------------
(***************************************************************************)
(* Proof that the WorkScheduler and the SimdCluster implement KernelExec:   *)
(* every step of theirs is one of its steps, or changes nothing it knows of.*)
(***************************************************************************)
EXTENDS RequestProofs

(* The scheduler emits a work-group before it looks at the dimensions, so   *)
(* that a kernel without threads would execute one.                         *)
KernelsHaveThreads == \A k \in Works : k.dims[1] > 0 /\ k.dims[2] > 0

-----------------------------------------------------------------------------
(* The inductive invariant                                                  *)

Enumerating == ws_state \in {"LOAD_KERNEL", "ENUM_WGS"}

(* g was put into the fifo before <<x, y>>                                  *)
Precedes(g, x, y) == g[2] < y \/ (g[2] = y /\ g[1] < x)

(* The next work-group is one of the grid, those in the fifo precede it, and *)
(* none is there twice.                                                     *)
EnumerationInv ==
  /\ Enumerating => /\ <<ws_x, ws_y>> \in Grid(work)
                    /\ \A i \in 1 .. Len(wg_fifo) : Precedes(wg_fifo[i], ws_x, ws_y)
  /\ \A i, j \in 1 .. Len(wg_fifo) : wg_fifo[i] = wg_fifo[j] => i = j
  /\ ws_state \in {"IDLE", "LOAD_KERNEL"} => wg_fifo = <<>>
  /\ ws_blocked => ws_state = "ENUM_WGS"

(* end_prg outlives its kernel by a cycle, and exec_fini, which is derived   *)
(* from it, by another; when the scheduler looks at them they are true.     *)
FinishInv ==
  /\ end_prg => ws_state \in {"IDLE", "WAIT_FINI"}
  /\ exec_fini /\ phase # "cluster" =>
       /\ end_prg
       /\ wg_fifo = <<>>
       /\ \A s \in Slots : wg_state[s] = "NONE"

KernelInv == EnumerationInv /\ FinishInv

-----------------------------------------------------------------------------
(* The grid of a kernel                                                     *)

(* multiples of m are at least m apart                                      *)
LEMMA Multiples ==
  ASSUME NEW m \in Nat \ {0}, NEW i \in Nat, NEW j \in Nat
  PROVE  /\ m * i \in Nat /\ m * (i + 1) = m * i + m
         /\ i <= m * i
         /\ i < j => m * i + m <= m * j
         /\ m * i < m * j => i < j
<1>1. m * i \in Nat /\ m * (i + 1) = m * i + m
  BY SMT
<1>2. i <= m * i
  BY SMT
<1>3. ASSUME NEW a \in Nat, NEW b \in Nat, a < b PROVE m * a + m <= m * b
  <2>1. m * (b - a - 1) >= 0
    BY <1>3, SMT
  <2>2. m * b - m * a - m = m * (b - a - 1)
    BY <1>3, SMT
  <2>3. m * a \in Int /\ m * b \in Int
    BY <1>3, SMT
  <2> QED
    BY <2>1, <2>2, <2>3, SMT
<1>4. m * i < m * j => i < j
  <2>1. ~(i < j) => i = j \/ j < i
    BY SMT
  <2>2. j < i => m * j + m <= m * i
    BY <1>3
  <2>3. m * i \in Int /\ m * j \in Int
    BY SMT
  <2> QED
    BY <2>1, <2>2, <2>3
<1> QED
  BY <1>1, <1>2, <1>3, <1>4

LEMMA KernelShape ==
  ASSUME NEW k \in Works
  PROVE  /\ k.width \in Nat \ {0} /\ Height(k) \in Nat \ {0}
         /\ k.dims[1] \in Nat /\ k.dims[2] \in Nat
<1>1. /\ k.dims \in Nat \X Nat /\ k.width \in 1 .. Units /\ Units \in Nat \ {0}
  BY SlotAssumption DEF IsWork
<1>2. \A u, w \in Nat : w >= 1 /\ w <= u => u \div w \in Nat /\ u \div w >= 1
  OBVIOUS
<1>3. Units \div k.width \in Nat /\ Units \div k.width >= 1
  BY <1>1, <1>2
<1> QED
  BY <1>1, <1>3 DEF Height

(* Work-groups are at multiples of the width and the height.                *)
LEMMA GridMeans ==
  ASSUME NEW k \in Works
  PROVE  \A g : g \in Grid(k) <=>
           \E i, j \in Nat : /\ g = <<k.width * i, Height(k) * j>>
                             /\ 32 * (k.width * i) < k.dims[1]
                             /\ Height(k) * j < k.dims[2]
<1> DEFINE w == k.width
           h == Height(k)
<1>1. /\ w \in Nat \ {0} /\ h \in Nat \ {0}
      /\ k.dims[1] \in Nat /\ k.dims[2] \in Nat
  BY KernelShape
<1>2. ASSUME NEW i \in Nat
      PROVE  /\ 32 * w * i = 32 * (w * i)
             /\ 32 * (w * i) < k.dims[1] => i \in 0 .. k.dims[1]
             /\ h * i < k.dims[2] => i \in 0 .. k.dims[2]
  <2>1. i <= w * i /\ i <= h * i /\ w * i \in Nat /\ h * i \in Nat
    BY <1>1, Multiples
  <2>2. 32 * w * i = 32 * (w * i)
    BY <1>1, SMT
  <2> HIDE DEF w, h
  <2> QED
    BY <1>1, <2>1, <2>2
<1> HIDE DEF w, h
<1>3. Grid(k) = {<<w * i, h * j>> :
                   i \in {n \in 0 .. k.dims[1] : 32 * w * n < k.dims[1]},
                   j \in {n \in 0 .. k.dims[2] : h * n < k.dims[2]}}
  BY DEF Grid, w, h
<1>4. ASSUME NEW g \in Grid(k)
      PROVE  \E i, j \in Nat : /\ g = <<w * i, h * j>>
                               /\ 32 * (w * i) < k.dims[1]
                               /\ h * j < k.dims[2]
  <2>1. PICK i \in {n \in 0 .. k.dims[1] : 32 * w * n < k.dims[1]},
             j \in {n \in 0 .. k.dims[2] : h * n < k.dims[2]} : g = <<w * i, h * j>>
    BY <1>3
  <2>2. i \in Nat /\ j \in Nat /\ 32 * w * i < k.dims[1] /\ h * j < k.dims[2]
    BY <1>1
  <2>3. 32 * (w * i) < k.dims[1]
    BY <1>2, <2>2
  <2> QED
    BY <2>1, <2>2, <2>3
<1>5. ASSUME NEW i \in Nat, NEW j \in Nat, 32 * (w * i) < k.dims[1], h * j < k.dims[2]
      PROVE  <<w * i, h * j>> \in Grid(k)
  <2>1. /\ i \in {n \in 0 .. k.dims[1] : 32 * w * n < k.dims[1]}
        /\ j \in {n \in 0 .. k.dims[2] : h * n < k.dims[2]}
    BY <1>2, <1>5
  <2> QED
    BY <1>3, <2>1
<1>6. \A g : g \in Grid(k) <=>
        \E i, j \in Nat : /\ g = <<w * i, h * j>>
                          /\ 32 * (w * i) < k.dims[1]
                          /\ h * j < k.dims[2]
  BY <1>4, <1>5
<1> QED
  BY <1>6 DEF w, h

LEMMA FirstWorkGroup ==
  ASSUME KernelsHaveThreads, NEW k \in Works
  PROVE  /\ <<0, 0>> \in Grid(k)
         /\ \A g \in Grid(k) : g \in Nat \X Nat
<1>1. /\ k.width \in Nat \ {0} /\ Height(k) \in Nat \ {0}
      /\ k.dims[1] \in Nat \ {0} /\ k.dims[2] \in Nat \ {0}
  BY KernelShape DEF KernelsHaveThreads
<1>2. k.width * 0 = 0 /\ Height(k) * 0 = 0
  BY <1>1, SMT
<1>3. <<0, 0>> \in Grid(k)
  BY <1>1, <1>2, GridMeans
<1>4. ASSUME NEW g \in Grid(k) PROVE g \in Nat \X Nat
  <2>1. PICK i \in Nat, j \in Nat : g = <<k.width * i, Height(k) * j>>
    BY GridMeans
  <2>2. k.width * i \in Nat /\ Height(k) * j \in Nat
    BY <1>1, Multiples
  <2> QED
    BY <2>1, <2>2
<1> QED
  BY <1>3, <1>4

(* the work-groups of a kernel from <<x, y>> on                             *)
From(k, x, y) == {g \in Grid(k) : g[2] > y \/ (g[2] = y /\ g[1] >= x)}

(* what Emit does to x and y, and when it finds that it is done              *)
Wraps(k, x) == 32 * (x + k.width) >= k.dims[1]
NextX(k, x) == IF Wraps(k, x) THEN 0 ELSE x + k.width
NextY(k, x, y) == IF Wraps(k, x) THEN y + Height(k) ELSE y
IsLast(k, x, y) == NextY(k, x, y) >= k.dims[2]

(* It moves on to the next work-group, or there is none.                    *)
LEMMA NextWorkGroup ==
  ASSUME NEW k \in Works, NEW x \in Nat, NEW y \in Nat, <<x, y>> \in Grid(k)
  PROVE  /\ IsLast(k, x, y) => From(k, x, y) = {<<x, y>>}
         /\ ~IsLast(k, x, y) =>
              /\ From(k, x, y) = {<<x, y>>} \cup From(k, NextX(k, x), NextY(k, x, y))
              /\ <<NextX(k, x), NextY(k, x, y)>> \in Grid(k)
         /\ \A g \in Nat \X Nat :
              Precedes(g, x, y) => Precedes(g, NextX(k, x), NextY(k, x, y))
         /\ Precedes(<<x, y>>, NextX(k, x), NextY(k, x, y))
<1> DEFINE right == x + k.width
           wrap == Wraps(k, x)
           ny == NextY(k, x, y)
           nx == NextX(k, x)
           last == IsLast(k, x, y)
<1> DEFINE w == k.width
           h == Height(k)
           d == k.dims[1]
           e == k.dims[2]
<1>1. w \in Nat \ {0} /\ h \in Nat \ {0} /\ d \in Nat /\ e \in Nat
  BY KernelShape
<1>2. \A g : g \in Grid(k) <=>
        \E i, j \in Nat : /\ g = <<w * i, h * j>>
                          /\ 32 * (w * i) < d /\ h * j < e
  BY GridMeans
<1>3. PICK ix \in Nat, iy \in Nat : <<x, y>> = <<w * ix, h * iy>>
                                    /\ 32 * (w * ix) < d /\ h * iy < e
  BY <1>2
<1>4. x = w * ix /\ y = h * iy
  BY <1>3
<1>5. x + w = w * (ix + 1) /\ y + h = h * (iy + 1)
  BY <1>1, <1>4, Multiples
<1> HIDE DEF w, h, d, e, right, wrap, ny, nx, last
<1>6. /\ wrap <=> 32 * right >= d
      /\ ny = IF wrap THEN y + h ELSE y
      /\ nx = IF wrap THEN 0 ELSE right
      /\ last <=> ny >= e
      /\ right = x + w
  BY DEF w, h, d, e, right, wrap, ny, nx, last, Wraps, NextX, NextY, IsLast
<1>7. nx \in Nat /\ ny \in Nat
  BY <1>1, <1>6
<1>8. ASSUME NEW i \in Nat, NEW j \in Nat, 32 * (w * i) < d, h * j < e
      PROVE  LET a == w * i
                 b == h * j
             IN  /\ b > y \/ (b = y /\ a >= x) =>
                      \/ a = x /\ b = y
                      \/ ~last /\ (b > ny \/ (b = ny /\ a >= nx))
                 /\ b > ny \/ (b = ny /\ a >= nx) =>
                      b > y \/ (b = y /\ a >= x)
  <2> DEFINE a == w * i
             b == h * j
  <2>1. /\ a \in Nat /\ b \in Nat
        /\ a > x => a >= x + w
        /\ b > y => b >= y + h
    <3>1. a \in Nat /\ b \in Nat
      BY <1>1, Multiples
    <3>2. a > x => a >= x + w
      <4>1. w * ix < w * i => ix < i
        BY <1>1, Multiples
      <4>2. ix < i => w * ix + w <= w * i
        BY <1>1, Multiples
      <4> QED
        BY <1>1, <1>4, <3>1, <4>1, <4>2
    <3>3. b > y => b >= y + h
      <4>1. h * iy < h * j => iy < j
        BY <1>1, Multiples
      <4>2. iy < j => h * iy + h <= h * j
        BY <1>1, Multiples
      <4> QED
        BY <1>1, <1>4, <3>1, <4>1, <4>2
    <3> QED
      BY <3>1, <3>2, <3>3
  <2>2. 32 * a < d /\ b < e
    BY <1>8
  <2>3. h * iy < e /\ 32 * x < d
    BY <1>3, <1>4
  <2> HIDE DEF a, b
  <2>4. /\ b > y \/ (b = y /\ a >= x) =>
             \/ a = x /\ b = y
             \/ ~last /\ (b > ny \/ (b = ny /\ a >= nx))
        /\ b > ny \/ (b = ny /\ a >= nx) => b > y \/ (b = y /\ a >= x)
    <3>1. CASE wrap
      BY <1>1, <1>6, <2>1, <2>2, <3>1
    <3>2. CASE ~wrap
      BY <1>1, <1>4, <1>6, <2>1, <2>2, <2>3, <3>2
    <3> QED
      BY <3>1, <3>2
  <2> QED
    BY <2>4 DEF a, b
<1>9. ASSUME NEW g \in Grid(k)
      PROVE  /\ g[2] > y \/ (g[2] = y /\ g[1] >= x) =>
                  \/ g = <<x, y>>
                  \/ ~last /\ (g[2] > ny \/ (g[2] = ny /\ g[1] >= nx))
             /\ g[2] > ny \/ (g[2] = ny /\ g[1] >= nx) =>
                  g[2] > y \/ (g[2] = y /\ g[1] >= x)
  <2>1. PICK i \in Nat, j \in Nat : /\ g = <<w * i, h * j>>
                                    /\ 32 * (w * i) < d /\ h * j < e
    BY <1>2
  <2>2. g[1] = w * i /\ g[2] = h * j
    BY <2>1
  <2> QED
    BY <1>8, <2>1, <2>2
<1>10. ~last => <<nx, ny>> \in Grid(k)
  <2> SUFFICES ASSUME ~last PROVE <<nx, ny>> \in Grid(k)
    OBVIOUS
  <2>1. CASE wrap
    <3>1. w * 0 = 0 /\ 0 < d
      BY <1>1, <1>3, Multiples, SMT
    <3>2. nx = w * 0 /\ ny = h * (iy + 1) /\ iy + 1 \in Nat
      BY <1>5, <1>6, <2>1, <3>1
    <3>3. 32 * (w * 0) < d /\ h * (iy + 1) < e
      BY <1>1, <1>6, <1>7, <3>1, <3>2
    <3> QED
      BY <1>2, <3>2, <3>3
  <2>2. CASE ~wrap
    <3>1. nx = w * (ix + 1) /\ ny = h * iy /\ ix + 1 \in Nat
      BY <1>4, <1>5, <1>6, <2>2
    <3>2. 32 * (w * (ix + 1)) < d /\ h * iy < e
      BY <1>1, <1>3, <1>5, <1>6, <2>2
    <3> QED
      BY <1>2, <3>1, <3>2
  <2> QED
    BY <2>1, <2>2
<1>11. <<x, y>> \in From(k, x, y)
  BY DEF From
<1>12. last => From(k, x, y) = {<<x, y>>}
  BY <1>9, <1>11 DEF From
<1>13. ~last => From(k, x, y) = {<<x, y>>} \cup From(k, nx, ny)
  BY <1>9, <1>11 DEF From
<1>14. /\ \A g \in Nat \X Nat : Precedes(g, x, y) => Precedes(g, nx, ny)
       /\ Precedes(<<x, y>>, nx, ny)
  BY <1>1, <1>6 DEF Precedes
<1> QED
  BY <1>10, <1>12, <1>13, <1>14 DEF nx, ny, last

-----------------------------------------------------------------------------
(* The steps of the WorkScheduler                                           *)

LEMMA EnumeratedFrom ==
  ToEnumerate = IF Enumerating THEN From(work, ws_x, ws_y) ELSE {}
BY DEF ToEnumerate, Enumerating, From

(* Emit moves a work-group from what is left to enumerate to the fifo.      *)
LEMMA EmitMoves ==
  ASSUME KernelsHaveThreads, TypeOK, EnumerationInv, Enumerating, Emit
  PROVE  /\ (ToEnumerate \cup InFifo)' = ToEnumerate \cup InFifo
         /\ Enumerating' =>
              /\ (<<ws_x, ws_y>> \in Grid(work))'
              /\ \A i \in 1 .. Len(wg_fifo') : Precedes(wg_fifo'[i], ws_x', ws_y')
         /\ \A i, j \in 1 .. Len(wg_fifo') : wg_fifo'[i] = wg_fifo'[j] => i = j
<1> DEFINE nx   == NextX(work, ws_x)
           down == NextY(work, ws_x, ws_y)
           last == IsLast(work, ws_x, ws_y)
           g    == <<ws_x, ws_y>>
           n    == Len(wg_fifo)
<1>1. /\ work \in Works /\ ws_x \in Nat /\ ws_y \in Nat
      /\ wg_fifo \in Seq(Nat \X Nat) /\ g \in Nat \X Nat
  BY DEF TypeOK, SignalsTypeOK, WsTypeOK
<1>2. /\ g \in Grid(work)
      /\ \A i \in 1 .. n : Precedes(wg_fifo[i], ws_x, ws_y)
      /\ \A i, j \in 1 .. n : wg_fifo[i] = wg_fifo[j] => i = j
  BY DEF EnumerationInv
<1>3. /\ wg_fifo' = Append(wg_fifo, g)
      /\ ws_x' = nx /\ ws_y' = down /\ work' = work
      /\ ws_state' = IF last THEN "WAIT_FINI" ELSE "ENUM_WGS"
  BY DEF Emit, NextX, NextY, IsLast, Wraps
<1>4. /\ last => From(work, ws_x, ws_y) = {g}
      /\ ~last => /\ From(work, ws_x, ws_y) = {g} \cup From(work, nx, down)
                  /\ <<nx, down>> \in Grid(work)
      /\ \A f \in Nat \X Nat : Precedes(f, ws_x, ws_y) => Precedes(f, nx, down)
      /\ Precedes(g, nx, down)
  BY <1>1, <1>2, NextWorkGroup
<1> HIDE DEF down, last, nx, g
<1>5. /\ Len(wg_fifo') = n + 1 /\ n \in Nat
      /\ \A i \in 1 .. n : wg_fifo'[i] = wg_fifo[i]
      /\ wg_fifo'[n + 1] = g
  BY <1>1, <1>3, AppendElements
<1>6. \A i \in 1 .. Len(wg_fifo') : i \in 1 .. n \/ i = n + 1
  BY <1>5
<1>7. /\ DOMAIN wg_fifo = 1 .. n /\ DOMAIN wg_fifo' = 1 .. n + 1
      /\ 1 .. n \subseteq 1 .. n + 1 /\ n + 1 \in 1 .. n + 1
  <2>1. wg_fifo' \in Seq(Nat \X Nat)
    BY <1>1, <1>3, AppendElements
  <2> QED
    BY <1>1, <1>5, <2>1
<1>7a. \A i \in 1 .. n : wg_fifo[i] \in Nat \X Nat
  BY <1>1
<1> HIDE DEF n
<1>8. InFifo' = InFifo \cup {g}
  BY <1>5, <1>6, <1>7 DEF InFifo
<1>9. /\ Enumerating' <=> ~last
      /\ ToEnumerate = From(work, ws_x, ws_y)
      /\ ToEnumerate' = IF last THEN {} ELSE From(work, nx, down)
  BY <1>3, EnumeratedFrom DEF Enumerating, ToEnumerate, From
<1>10. (ToEnumerate \cup InFifo)' = ToEnumerate \cup InFifo
  BY <1>4, <1>8, <1>9
<1>11. ASSUME NEW i \in 1 .. n
       PROVE  wg_fifo[i] # g /\ Precedes(wg_fifo[i], nx, down)
  <2>1. wg_fifo[i] \in Nat \X Nat
    BY <1>7a
  <2>2. ~Precedes(g, ws_x, ws_y)
    BY <1>1 DEF Precedes, g
  <2> QED
    BY <1>2, <1>4, <2>1, <2>2
<1>12. \A i, j \in 1 .. Len(wg_fifo') : wg_fifo'[i] = wg_fifo'[j] => i = j
  BY <1>2, <1>5, <1>6, <1>11
<1>13. \A i \in 1 .. Len(wg_fifo') : Precedes(wg_fifo'[i], nx, down)
  BY <1>4, <1>5, <1>6, <1>11
<1>14. ~last => (<<ws_x, ws_y>> \in Grid(work))'
  <2>1. Grid(work)' = Grid(work)
    BY <1>3 DEF Grid, Height
  <2> QED
    BY <1>3, <1>4, <2>1
<1> QED
  BY <1>3, <1>9, <1>10, <1>12, <1>13, <1>14

Todo == ToEnumerate \cup InFifo
Running == [s \in Slots |-> IF wg_state[s] = "NONE" THEN <<>> ELSE wg_off[s]]

(* what a step of the WorkScheduler has to do                               *)
SchedulerStep ==
  /\ EnumerationInv'
  /\ end_prg' => ws_state' \in {"IDLE", "WAIT_FINI"}

LEMMA EnumerateStep ==
  ASSUME KernelsHaveThreads, TypeOK, KernelInv, Enumerating, ~ws_blocked',
         Emit
  PROVE  /\ SchedulerStep
         /\ ws_state' # "IDLE" /\ Todo' = Todo
<1>1. /\ ws_state' \in {"WAIT_FINI", "ENUM_WGS"}
      /\ end_prg' => ws_state' = "WAIT_FINI"
  BY DEF Emit, KernelInv, FinishInv, Enumerating
<1>2. /\ Todo' = Todo
      /\ Enumerating' => /\ (<<ws_x, ws_y>> \in Grid(work))'
                         /\ \A i \in 1 .. Len(wg_fifo') : Precedes(wg_fifo'[i], ws_x', ws_y')
      /\ \A i, j \in 1 .. Len(wg_fifo') : wg_fifo'[i] = wg_fifo'[j] => i = j
  BY EmitMoves DEF KernelInv, Todo
<1>3. EnumerationInv'
  BY <1>1, <1>2 DEF EnumerationInv, Precedes
<1> QED
  BY <1>1, <1>2, <1>3 DEF SchedulerStep

(* nothing but the program load or the wait for room in the fifo changes    *)
LEMMA WaitStep ==
  ASSUME KernelInv, Enumerating,
         UNCHANGED <<work, ws_x, ws_y, wg_fifo, end_prg>>,
         ws_state' = ws_state \/ ws_state' = "ENUM_WGS",
         ws_blocked' => ws_state' = "ENUM_WGS"
  PROVE  /\ SchedulerStep
         /\ ws_state' # "IDLE" /\ Todo' = Todo
<1>1. Enumerating' /\ Grid(work)' = Grid(work)
  BY DEF Enumerating, Grid, Height
<1>2. Todo' = Todo
  BY <1>1 DEF Todo, ToEnumerate, Enumerating, InFifo
<1>3. EnumerationInv'
  <2>1. EnumerationInv
    BY DEF KernelInv
  <2>2. (Enumerating => /\ <<ws_x, ws_y>> \in Grid(work)
                        /\ \A i \in 1 .. Len(wg_fifo) : Precedes(wg_fifo[i], ws_x, ws_y))'
    BY <1>1, <2>1 DEF EnumerationInv, Precedes
  <2>3. (ws_state \in {"IDLE", "LOAD_KERNEL"} => wg_fifo = <<>>)'
    BY <2>1 DEF EnumerationInv, Enumerating
  <2> QED
    BY <2>1, <2>2, <2>3 DEF EnumerationInv
<1>4. ~end_prg'
  BY DEF KernelInv, FinishInv, Enumerating
<1> QED
  BY <1>1, <1>2, <1>3, <1>4 DEF SchedulerStep, Enumerating

LEMMA EnumWgStep ==
  ASSUME KernelsHaveThreads, TypeOK, KernelInv, Enumerating, ~ws_blocked, EnumWg
  PROVE  /\ SchedulerStep
         /\ ws_state' # "IDLE" /\ Todo' = Todo
<1>1. CASE Emit /\ UNCHANGED ws_blocked
  BY <1>1, EnumerateStep
<1>2. CASE ~(Emit /\ UNCHANGED ws_blocked)
  <2>1. /\ ws_blocked' = TRUE /\ ws_state' = "ENUM_WGS"
        /\ UNCHANGED <<work, ws_x, ws_y, wg_fifo, end_prg>>
    BY <1>2 DEF EnumWg
  <2> QED
    BY <2>1, WaitStep
<1> QED
  BY <1>1, <1>2

LEMMA EdgeStep ==
  ASSUME KernelsHaveThreads, TypeOK, KernelInv, Edge
  PROVE  KernelInv' /\ (Kernel!Next \/ UNCHANGED Kernel!kvars)
<1>1. /\ UNCHANGED <<exec_fini, wg_state, wg_off>>
      /\ phase = "edge" /\ phase' = "cluster" /\ WsTick
  BY DEF Edge, EdgeWith, heldAtEdge, scVars
<1>2. Running' = Running
  BY <1>1 DEF Running
<1>3. ASSUME SchedulerStep, ws_state' # "IDLE" <=> ws_state # "IDLE", Todo' = Todo
      PROVE  KernelInv' /\ (Kernel!Next \/ UNCHANGED Kernel!kvars)
  <2>1. KernelInv'
    BY <1>1, <1>3 DEF KernelInv, FinishInv, SchedulerStep
  <2>2. UNCHANGED Kernel!kvars
    BY <1>2, <1>3 DEF Kernel!kvars, Todo, Running
  <2> QED
    BY <2>1, <2>2
<1>4. CASE WsIdle
  <2>0. /\ ws_state = "IDLE" /\ ~end_prg' /\ wg_fifo' = wg_fifo /\ wg_fifo = <<>>
    BY <1>4 DEF WsIdle, KernelInv, EnumerationInv
  <2>1. CASE UNCHANGED wsVars
    <3>1. Todo' = Todo
      BY <2>0, <2>1 DEF wsVars, Todo, ToEnumerate, InFifo
    <3>2. SchedulerStep
      BY <2>0, <2>1 DEF wsVars, SchedulerStep, KernelInv, EnumerationInv, Enumerating
    <3> QED
      BY <1>3, <2>0, <2>1, <3>1, <3>2 DEF wsVars
  <2>2. ASSUME NEW k \in Works, work' = k, ws_x' = 0, ws_y' = 0,
               ws_state' = "LOAD_KERNEL", UNCHANGED ws_blocked
        PROVE  KernelInv' /\ (Kernel!Next \/ UNCHANGED Kernel!kvars)
    <3>1. InFifo = {} /\ InFifo' = {} /\ Len(wg_fifo') = 0
      BY <2>0 DEF InFifo
    <3>2. ToEnumerate' = Grid(k)
      <4>1. Grid(work)' = Grid(k)
        BY <2>2 DEF Grid, Height
      <4>2. \A g \in Grid(k) : g[2] > 0 \/ (g[2] = 0 /\ g[1] >= 0)
        BY FirstWorkGroup
      <4> QED
        BY <2>2, <4>1, <4>2 DEF ToEnumerate
    <3>3. ToEnumerate = {}
      BY <2>0 DEF ToEnumerate
    <3>4. EnumerationInv'
      <4>1. (<<ws_x, ws_y>> \in Grid(work))'
        BY <2>2, FirstWorkGroup DEF Grid, Height
      <4> QED
        BY <2>0, <2>2, <3>1, <4>1 DEF KernelInv, EnumerationInv, Enumerating
    <3>5. KernelInv'
      BY <1>1, <2>0, <3>4 DEF KernelInv, FinishInv
    <3>6. Kernel!Kick
      BY <1>2, <2>0, <2>2, <3>1, <3>2, <3>3 DEF Kernel!Kick, Running
    <3> QED
      BY <3>5, <3>6 DEF Kernel!Next
  <2> QED
    BY <1>4, <2>1, <2>2 DEF WsIdle
<1>5. CASE WsLoad
  <2>1. Enumerating /\ ~ws_blocked /\ ws_state # "IDLE" /\ ws_state = "LOAD_KERNEL"
    BY <1>5 DEF WsLoad, Enumerating, KernelInv, EnumerationInv
  <2>2. CASE EnumWg
    BY <1>3, <2>1, <2>2, EnumWgStep
  <2>3. CASE UNCHANGED <<ws_state, work, ws_x, ws_y, ws_blocked, wg_fifo, end_prg>>
    <3>1. SchedulerStep /\ Todo' = Todo
      BY <2>1, <2>3, WaitStep
    <3> QED
      BY <1>3, <2>3, <3>1
  <2> QED
    BY <1>5, <2>2, <2>3 DEF WsLoad
<1>6. CASE WsEnum
  BY <1>3, <1>6, EnumWgStep DEF WsEnum, Enumerating
<1>7. CASE WsSleep
  <2>1. Enumerating /\ ws_state # "IDLE" /\ ws_state = "ENUM_WGS"
    BY <1>7 DEF WsSleep, Enumerating, KernelInv, EnumerationInv
  <2>2. UNCHANGED <<ws_state, work, ws_x, ws_y, ws_blocked, wg_fifo, end_prg>>
    BY <1>7 DEF WsSleep, wsVars
  <2>3. SchedulerStep /\ Todo' = Todo
    BY <2>1, <2>2, WaitStep
  <2> QED
    BY <1>3, <2>2, <2>3
<1>8. CASE WsWaitFini
  <2>1. /\ ws_state = "WAIT_FINI" /\ ws_state' = IF exec_fini THEN "IDLE" ELSE "WAIT_FINI"
        /\ UNCHANGED <<work, ws_x, ws_y, ws_blocked, wg_fifo, end_prg>>
    BY <1>8 DEF WsWaitFini
  <2>2. ToEnumerate = {} /\ ToEnumerate' = {} /\ InFifo' = InFifo
    BY <2>1 DEF ToEnumerate, InFifo
  <2>3. exec_fini => wg_fifo = <<>> /\ \A s \in Slots : wg_state[s] = "NONE"
    BY <1>1 DEF KernelInv, FinishInv
  <2>4. SchedulerStep
    BY <2>1, <2>3 DEF SchedulerStep, KernelInv, EnumerationInv, Enumerating
  <2>5. CASE ~exec_fini
    BY <1>3, <2>1, <2>2, <2>4, <2>5 DEF Todo
  <2>6. CASE exec_fini
    <3>1. InFifo = {}
      BY <2>3, <2>6 DEF InFifo
    <3>2. Kernel!Finish
      BY <1>2, <2>1, <2>2, <2>3, <2>6, <3>1 DEF Kernel!Finish, Running
    <3>3. KernelInv'
      BY <1>1, <2>4 DEF KernelInv, FinishInv, SchedulerStep
    <3> QED
      BY <3>2, <3>3 DEF Kernel!Next
  <2> QED
    BY <2>5, <2>6
<1> QED
  BY <1>1, <1>4, <1>5, <1>6, <1>7, <1>8 DEF WsTick

LEMMA ResumeStep ==
  ASSUME KernelsHaveThreads, TypeOK, KernelInv, Resume
  PROVE  KernelInv' /\ UNCHANGED Kernel!kvars
<1>1. /\ UNCHANGED <<exec_fini, wg_state, wg_off>>
      /\ phase = "resume" /\ Emit /\ ~ws_blocked' /\ ws_state = "ENUM_WGS"
  BY DEF Resume, WsResume, heldAtEdge, scVars, KernelInv, EnumerationInv
<1>2. SchedulerStep /\ ws_state' # "IDLE" /\ Todo' = Todo
  BY <1>1, EnumerateStep DEF Enumerating
<1>3. ~exec_fini
  BY <1>1 DEF KernelInv, FinishInv
<1>4. KernelInv'
  BY <1>1, <1>2, <1>3 DEF KernelInv, FinishInv, SchedulerStep
<1>5. UNCHANGED Kernel!kvars
  BY <1>1, <1>2 DEF Kernel!kvars, Todo
<1> QED
  BY <1>4, <1>5

-----------------------------------------------------------------------------
(* The steps of the SimdCluster                                             *)

(* the work-groups that are left in the fifo when the first one is taken    *)
LEMMA TakeFirst ==
  ASSUME TypeOK, EnumerationInv, wg_fifo # <<>>,
         wg_fifo' = Tail(wg_fifo), UNCHANGED <<ws_state, work, ws_x, ws_y, ws_blocked>>
  PROVE  /\ EnumerationInv'
         /\ Head(wg_fifo) \in Todo /\ Head(wg_fifo) \in Nat \X Nat
         /\ Todo' = Todo \ {Head(wg_fifo)}
<1> DEFINE n == Len(wg_fifo)
           g == Head(wg_fifo)
<1>1. /\ g \in Nat \X Nat /\ g = wg_fifo[1]
      /\ n \in Nat \ {0} /\ Len(wg_fifo') = n - 1
      /\ \A i \in 1 .. Len(wg_fifo') : wg_fifo'[i] = wg_fifo[i + 1]
      /\ DOMAIN wg_fifo = 1 .. n /\ DOMAIN wg_fifo' = 1 .. Len(wg_fifo')
  <2>1. wg_fifo \in Seq(Nat \X Nat)
    BY DEF TypeOK, SignalsTypeOK
  <2> QED
    BY <2>1, TailElements
<1>2. ws_x \in Nat /\ ws_y \in Nat
  BY DEF TypeOK, WsTypeOK
<1> HIDE DEF n, g
<1>3. /\ 1 \in 1 .. n
      /\ \A i \in 1 .. Len(wg_fifo') : i + 1 \in 1 .. n /\ i + 1 # 1
      /\ \A i \in 1 .. n : i = 1 \/ (i - 1 \in 1 .. Len(wg_fifo') /\ (i - 1) + 1 = i)
  BY <1>1
<1>4. /\ Enumerating => \A i \in 1 .. n : Precedes(wg_fifo[i], ws_x, ws_y)
      /\ \A i, j \in 1 .. n : wg_fifo[i] = wg_fifo[j] => i = j
      /\ ws_state \notin {"IDLE", "LOAD_KERNEL"}
  BY DEF EnumerationInv, n
<1>5. InFifo = {wg_fifo[i] : i \in 1 .. n} /\ InFifo' = {wg_fifo'[i] : i \in 1 .. Len(wg_fifo')}
  BY <1>1 DEF InFifo
<1>6. g \in InFifo /\ InFifo' = InFifo \ {g}
  <2>1. g \in InFifo
    BY <1>1, <1>3, <1>5
  <2>2. ASSUME NEW f \in InFifo' PROVE f \in InFifo \ {g}
    <3>1. PICK i \in 1 .. Len(wg_fifo') : f = wg_fifo'[i]
      BY <1>5
    <3>2. f = wg_fifo[i + 1] /\ i + 1 \in 1 .. n /\ i + 1 # 1
      BY <1>1, <1>3, <3>1
    <3> QED
      BY <1>1, <1>3, <1>4, <1>5, <3>2
  <2>3. ASSUME NEW f \in InFifo, f # g PROVE f \in InFifo'
    <3>1. PICK i \in 1 .. n : f = wg_fifo[i]
      BY <1>5
    <3>2. i - 1 \in 1 .. Len(wg_fifo') /\ wg_fifo'[i - 1] = f
      BY <1>1, <1>3, <2>3, <3>1
    <3> QED
      BY <1>5, <3>2
  <2> QED
    BY <2>1, <2>2, <2>3
<1>7. Grid(work)' = Grid(work) /\ ToEnumerate' = ToEnumerate /\ Enumerating' = Enumerating
  BY DEF Grid, Height, ToEnumerate, Enumerating
<1>8. g \notin ToEnumerate
  <2>1. CASE Enumerating
    <3>1. Precedes(g, ws_x, ws_y)
      BY <1>1, <1>3, <1>4, <2>1
    <3>2. ~(g[2] > ws_y \/ (g[2] = ws_y /\ g[1] >= ws_x))
      BY <1>1, <1>2, <3>1 DEF Precedes
    <3> QED
      BY <3>2, EnumeratedFrom DEF From
  <2>2. CASE ~Enumerating
    BY <2>2, EnumeratedFrom
  <2> QED
    BY <2>1, <2>2
<1>9. EnumerationInv'
  <2>1. ASSUME Enumerating' PROVE (<<ws_x, ws_y>> \in Grid(work))'
    BY <1>7, <2>1 DEF EnumerationInv
  <2>2. ASSUME Enumerating', NEW i \in 1 .. Len(wg_fifo')
        PROVE  Precedes(wg_fifo'[i], ws_x', ws_y')
    BY <1>1, <1>3, <1>4, <1>7, <2>2
  <2>3. ASSUME NEW i \in 1 .. Len(wg_fifo'), NEW j \in 1 .. Len(wg_fifo'),
               wg_fifo'[i] = wg_fifo'[j]
        PROVE  i = j
    <3>1. i + 1 = j + 1
      BY <1>1, <1>3, <1>4, <2>3
    <3> QED
      BY <3>1
  <2> QED
    BY <1>4, <2>1, <2>2, <2>3 DEF EnumerationInv
<1> QED
  BY <1>1, <1>6, <1>7, <1>8, <1>9 DEF Todo, g

LEMMA ClusterStep ==
  ASSUME Inv, Inv', KernelInv, Cluster
  PROVE  KernelInv' /\ Kernel!Next
<1>1. /\ phase = "cluster" /\ phase' # "cluster" /\ ClusterTick
      /\ UNCHANGED <<ws_state, work, ws_x, ws_y, ws_blocked, end_prg>>
      /\ exec_fini' = (end_prg /\ AllEmpty)
  BY DEF Cluster, ClusterTick, wsVars
<1>2. /\ TypeOK /\ EnumerationInv
      /\ wg_off \in [Slots -> Nat \X Nat]
      /\ \A g \in Nat \X Nat : g # <<>>
  BY DEF Inv, TypeOK, ScTypeOK, KernelInv
<1> DEFINE done == {s \in Slots : wg_state[s] # "NONE" /\ Settled[s] = "NONE"}
           left == [s \in Slots |-> IF s \in done THEN <<>> ELSE Running[s]]
<1>3. /\ done \in SUBSET {s \in Slots : Running[s] # <<>>}
      /\ \A s \in Slots : left[s] = IF Settled[s] = "NONE" THEN <<>> ELSE wg_off[s]
  <2>1. ASSUME NEW s \in Slots, Settled[s] # "NONE" PROVE wg_state[s] # "NONE"
    BY <1>1, <2>1, SettledCases DEF DramBlocked
  <2> QED
    BY <1>2, <2>1 DEF Running
<1> HIDE DEF done, left
<1>4. left = [s \in Slots |-> IF s \in done THEN <<>> ELSE Running[s]]
  BY DEF left
<1>5. ASSUME EnumerationInv',
             \/ Running' = left /\ Todo' = Todo
             \/ \E s \in Slots, g \in Todo : /\ left[s] = <<>>
                                             /\ Running' = [left EXCEPT ![s] = g]
                                             /\ Todo' = Todo \ {g},
             AllEmpty => wg_fifo' = <<>>
      PROVE  KernelInv' /\ Kernel!Next
  <2>1. Kernel!Cycle
    <3> DEFINE L(D) == [s \in Slots |-> IF s \in D THEN <<>> ELSE Running[s]]
               P(D) == \/ Running' = L(D) /\ Todo' = Todo
                       \/ \E s \in Slots, g \in Todo : /\ L(D)[s] = <<>>
                                                       /\ Running' = [L(D) EXCEPT ![s] = g]
                                                       /\ Todo' = Todo \ {g}
    <3>1. P(done)
      BY <1>4, <1>5
    <3>2. UNCHANGED (ws_state # "IDLE")
      BY <1>1
    <3> HIDE DEF P
    <3>3. \E D \in SUBSET {s \in Slots : Running[s] # <<>>} : P(D)
      BY <1>3, <3>1
    <3> QED
      BY <3>2, <3>3, Zenon DEF Kernel!Cycle, Running, Todo, P, L
  <2>2. KernelInv'
    BY <1>1, <1>5 DEF KernelInv, FinishInv, AllEmpty
  <2> QED
    BY <2>1, <2>2 DEF Kernel!Next
<1>6. CASE ObtainNothing /\ (wg_fifo = <<>> \/ Taker = {})
  <2>1. wg_state' = Settled /\ UNCHANGED <<wg_off, wg_fifo>> /\ accept' = Accepting
    BY <1>6 DEF ObtainNothing
  <2>2. Running' = left
    BY <1>3, <1>4, <2>1 DEF Running
  <2>3. Todo' = Todo /\ EnumerationInv'
    BY <1>1, <1>2, <2>1 DEF Todo, ToEnumerate, InFifo, EnumerationInv, Enumerating, Grid,
                            Height, Precedes
  <2>4. ASSUME AllEmpty, Taker = {} PROVE FALSE
    <3>1. \A s \in Slots : Settled[s] = "NONE"
      BY <2>1, <2>4 DEF AllEmpty
    <3>2. \A s \in Slots : ~Accepting[s]
      BY <2>4, <3>1 DEF Taker, Wants, Slots
    <3>3. \E s \in Slots : Holding(s)'
      BY <2>1, <3>2 DEF Inv, AcceptInv
    <3> QED
      BY <2>1, <3>1, <3>3 DEF Holding
  <2>5. AllEmpty => wg_fifo' = <<>>
    BY <1>6, <2>1, <2>4
  <2> QED
    BY <1>5, <2>2, <2>3, <2>5
<1>7. ASSUME NEW s \in Taker, Obtain(s), wg_fifo # <<>>
      PROVE  KernelInv' /\ Kernel!Next
  <2>1. /\ s \in Slots /\ Settled[s] = "NONE"
        /\ wg_state' = [Settled EXCEPT ![s] = "RUN"]
        /\ wg_off' = [wg_off EXCEPT ![s] = Head(wg_fifo)]
        /\ wg_fifo' = Tail(wg_fifo)
    BY <1>7 DEF Taker, Wants, Obtain, Slots
  <2>2. /\ EnumerationInv'
        /\ Head(wg_fifo) \in Todo /\ Head(wg_fifo) \in Nat \X Nat
        /\ Todo' = Todo \ {Head(wg_fifo)}
    BY <1>1, <1>2, <1>7, <2>1, TakeFirst
  <2>3. DOMAIN Settled = Slots
    BY DEF Settled
  <2>4. /\ wg_state'[s] = "RUN" /\ wg_off'[s] = Head(wg_fifo)
        /\ \A t \in Slots \ {s} : wg_state'[t] = Settled[t] /\ wg_off'[t] = wg_off[t]
    BY <1>2, <2>1, <2>3
  <2>5. Running' = [left EXCEPT ![s] = Head(wg_fifo)]
    <3>1. Running' = [t \in Slots |-> IF wg_state'[t] = "NONE" THEN <<>> ELSE wg_off'[t]]
      BY DEF Running
    <3>2. [left EXCEPT ![s] = Head(wg_fifo)]
            = [t \in Slots |-> IF t = s THEN Head(wg_fifo) ELSE left[t]]
      BY <1>4
    <3>3. \A t \in Slots : (IF wg_state'[t] = "NONE" THEN <<>> ELSE wg_off'[t])
                             = IF t = s THEN Head(wg_fifo) ELSE left[t]
      BY <1>3, <2>4
    <3> QED
      BY <3>1, <3>2, <3>3
  <2>6. left[s] = <<>> /\ ~AllEmpty
    BY <1>3, <2>1, <2>4 DEF AllEmpty
  <2> QED
    BY <1>5, <2>1, <2>2, <2>5, <2>6
<1> QED
  BY <1>1, <1>6, <1>7 DEF ClusterTick

-----------------------------------------------------------------------------
(* The theorem                                                              *)

LEMMA InitKernel ==
  ASSUME Init
  PROVE  KernelInv /\ Kernel!Init
<1>1. /\ ws_state = "IDLE" /\ wg_fifo = <<>> /\ ~ws_blocked /\ ~end_prg /\ ~exec_fini
      /\ \A s \in Slots : wg_state[s] = "NONE"
  BY DEF Init, SignalsInit, WsInit
<1>2. KernelInv
  BY <1>1 DEF KernelInv, EnumerationInv, FinishInv, Enumerating
<1>3. ToEnumerate = {} /\ InFifo = {}
  BY <1>1 DEF ToEnumerate, InFifo
<1> QED
  BY <1>1, <1>2, <1>3 DEF Kernel!Init

(* the front-ends do not touch what KernelExec knows of                     *)
LEMMA FrontEndStutters ==
  ASSUME KernelInv, FrontEnd \/ UNCHANGED vars
  PROVE  KernelInv' /\ UNCHANGED Kernel!kvars
<1>1. /\ UNCHANGED <<wg_fifo, end_prg, exec_fini, wg_state, wg_off, phase>>
      /\ UNCHANGED <<ws_state, work, ws_x, ws_y, ws_blocked>>
  BY DEF FrontEnd, OnDramClock, FeStep, DramStep, SpStep, DramFetch, DramStart,
         DramLastBurst, DramComplete, DramAck, SpFetch, SpStart, SpLastBurst, SpComplete,
         dramOnly, spOnly, scVars, wsVars, vars, signals
<1>2. UNCHANGED Kernel!kvars
  BY <1>1 DEF Kernel!kvars, ToEnumerate, InFifo, Grid, Height
<1>3. KernelInv'
  BY <1>1 DEF KernelInv, EnumerationInv, FinishInv, Enumerating, Precedes, Grid, Height
<1> QED
  BY <1>2, <1>3

(* Every work-group of the grid is started exactly once, and the kernel is   *)
(* reported finished only when all of them are done, although the scheduler *)
(* and the cluster know of each other only what was true a cycle earlier.   *)
THEOREM KernelIsExecuted ==
  KernelsHaveThreads /\ "ldst" \notin Shadow /\ Spec => ImplementsKernelExec
<1> SUFFICES ASSUME KernelsHaveThreads, "ldst" \notin Shadow
             PROVE  Spec => Kernel!Spec
  BY DEF ImplementsKernelExec
<1>1. Init => KernelInv /\ Kernel!Init
  BY InitKernel
<1>2. Inv /\ Inv' /\ KernelInv /\ [Next]_vars =>
        KernelInv' /\ [Kernel!Next]_(Kernel!kvars)
  <2> SUFFICES ASSUME Inv, Inv', KernelInv, [Next]_vars
               PROVE  KernelInv' /\ [Kernel!Next]_(Kernel!kvars)
    OBVIOUS
  <2>0. TypeOK
    BY DEF Inv
  <2>1. CASE Edge
    BY <2>0, <2>1, EdgeStep
  <2>2. CASE Cluster
    BY <2>2, ClusterStep
  <2>3. CASE Resume
    BY <2>0, <2>3, ResumeStep
  <2>4. CASE FrontEnd \/ UNCHANGED vars
    BY <2>4, FrontEndStutters
  <2> QED
    BY <2>1, <2>2, <2>3, <2>4 DEF Next
<1> QED
  BY <1>1, <1>2, Invariance, PTL DEF Spec, Kernel!Spec

=============================================================================
