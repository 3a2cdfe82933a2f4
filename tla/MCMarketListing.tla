-------------------------- MODULE MCMarketListing --------------------------
(***************************************************************************)
(* MarketListing with the liquidity requirement of Lmsr at a SCALE_FACTOR  *)
(* of 100.                                                                 *)
(***************************************************************************)
EXTENDS MarketListing

Pricing == INSTANCE Lmsr WITH SCALE_FACTOR <- 100, LN2_SCALED <- 69

MCinitial_liquidity(b) == Pricing!initial_liquidity(b)
=============================================================================
