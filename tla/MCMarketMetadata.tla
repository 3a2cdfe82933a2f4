-------------------------- MODULE MCMarketMetadata --------------------------
(***************************************************************************)
(* MarketMetadata for TLC.                                                 *)
(***************************************************************************)
EXTENDS MarketMetadata, SequencesExt

MCWarmOrder == SetToSeq(Hashes)
=============================================================================
