-------------------------- MODULE MCMarketFactory --------------------------
(***************************************************************************)
(* MarketFactory with two code hashes, two tokens and three addresses; the *)
(* liquidity a market requires is that of Lmsr at a SCALE_FACTOR of 100.   *)
(***************************************************************************)
EXTENDS MarketFactory, TLC

Pricing == INSTANCE Lmsr WITH SCALE_FACTOR <- 100, LN2_SCALED <- 69

MCinitial_liquidity(b) == Pricing!initial_liquidity(b)

Symmetry == Permutations(Accounts) \cup Permutations(Salts) \cup Permutations(Tokens)
=============================================================================
