---------------------------- MODULE MCMarketDetail --------------------------
(***************************************************************************)
(* MarketDetail with the contract's own pricing function, at a SCALE_FACTOR   *)
(* of 100 and with its values tabulated.                                   *)
(***************************************************************************)
EXTENDS MarketDetail, Sequences, TLC

Pricing == INSTANCE Lmsr WITH SCALE_FACTOR <- 100, LN2_SCALED <- 69

\* Appending the empty sequence makes TLC build the table once, not at every use.
CostRow(q_yes, b) == [n \in 1 .. MaxSold + 1 |-> Pricing!cost(q_yes, n - 1, b)] \o << >>

CostTable ==
    [b \in {x \in LiquidityArgs : x > 0} |->
        [n \in 1 .. MaxSold + 1 |-> CostRow(n - 1, b)] \o << >>] @@ (0 :> << >>)

MCcost(q_yes, q_no, b) == CostTable[b][q_yes + 1][q_no + 1]

MCinitial_liquidity(b) == Pricing!initial_liquidity(b)
=============================================================================
