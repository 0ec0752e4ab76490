--------------------------- MODULE MCChainQueries ---------------------------
(* Two endpoints over heights 1..2.  The primary sees fork fa; the         *)
(* fallback sees fork fb at height 1, with as many deposits, and a block   *)
(* at height 2 with more deposit events than an Eth1Block holds.           *)
EXTENDS ChainQueries, TLC

CONSTANTS rd, ot, u1, u2, fa, fb

MCOriginal == <<u1, u2>>
MCView == <<[n \in 1 .. 2 |-> fa], [n \in 1 .. 2 |-> fb]>>
MCDepositCount == (<<fa, 1>> :> 1 @@ <<fa, 2>> :> 0 @@ <<fb, 1>> :> 1 @@ <<fb, 2>> :> 2)

=============================================================================
