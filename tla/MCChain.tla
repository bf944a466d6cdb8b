------------------------------ MODULE MCChain ------------------------------
(***************************************************************************)
(* Two roles whose chains overlap: the builder, with a timeout, and the    *)
(* scout, without one, which begins with the builder's fallback.           *)
(***************************************************************************)
EXTENDS ChainProperties

CONSTANTS P1, P2, P3, Builder, Scout

ThreeProviders == {P1, P2, P3}
TwoRoles == {Builder, Scout}
Overlapping ==
    [r \in {Builder, Scout} |-> IF r = Builder THEN <<P1, P2>> ELSE <<P2, P3>>]
=============================================================================
