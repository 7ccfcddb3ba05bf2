--------------------------- MODULE MCProductCache ---------------------------
(***************************************************************************)
(* A shirt and a hat on one page.  Two calls, in two processes, want the   *)
(* last piece of the red shirt; of the blue hat there is none.             *)
(***************************************************************************)
EXTENDS ProductCache, TLC

CONSTANTS shirt, hat, red, blue, page, m1, m2, q1, q2, q3, s1, s2

MCProductOf == (red :> shirt) @@ (blue :> hat)
MCShownOn == page :> {shirt, hat}
MCStock == (red :> 1) @@ (blue :> 0)
MCOptionOf == (m1 :> red) @@ (m2 :> red)
MCBy == (m1 :> -1) @@ (m2 :> -1)
MCServerOf == [a \in Movements \cup Requests |-> IF a \in {m1, q1, q2} THEN s1 ELSE s2]
=============================================================================
