-------------------------- MODULE MCDramController --------------------------
(* Buffers for model checking DramController                                *)
EXTENDS DramController

(* Strides stay away from the last bank pair of the last row, which          *)
(* Translate takes an address for that is none.                             *)
BelowTop == {a \in Addrs : ~SamePlace(a, Translate(NoAddr))}

Apart(pol) == IF pol = "LINEAR" THEN BelowTop ELSE Addrs

(* index iterations keep to the last bank pair                              *)
LastPair(pol) == IF pol = "LINEAR" THEN BelowTop
                                   ELSE {a \in Addrs : Pair(a.bank) = Pairs - 1}

=============================================================================
