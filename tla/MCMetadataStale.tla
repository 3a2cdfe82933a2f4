-------------------------- MODULE MCMetadataStale --------------------------
(***************************************************************************)
(* MarketMetadata for TLC, with what NewClient of internal/ipfs/client.go  *)
(* says of reloads that fail. MarketMetadata takes the code's side.        *)
(***************************************************************************)
EXTENDS MCMarketMetadata

VARIABLE since_failure      \* history: how long ago a reload of an entry failed

StaleInit == Init /\ since_failure = [h \in Hashes |-> TTL]

ReloadFails(h) ==
    \/ RequestFails(Reload, h)
    \/ RateLimited(Reload, h) /\ ~may_retry(fetch[Reload][h].attempt)

\* A long time ago is TTL.
StaleNext ==
    /\ Next
    /\ since_failure' = [h \in Hashes |->
          IF is_found(h) /\ ReloadFails(h) THEN 0
          ELSE IF Tick THEN min(since_failure[h] + 1, TTL)
          ELSE since_failure[h]]

StaleSpec == StaleInit /\ [][StaleNext]_<<vars, since_failure>>

(***************************************************************************)
(* Stale data is preserved when its revalidation fails, as the comment on  *)
(* the cache of NewClient says: an entry that was reloaded in vain is      *)
(* served for another TTL. Less would preserve nothing, since its old life *)
(* is left to it whatever the policy.                                      *)
(***************************************************************************)
StaleDataPreserved ==
    \A h \in Hashes : since_failure[h] < TTL => is_found(h)
=============================================================================
