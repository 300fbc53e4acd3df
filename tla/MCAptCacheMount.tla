--------------------------- MODULE MCAptCacheMount ---------------------------
(* Three builds sharing the apt cache volume, two index files, three       *)
(* archive generations.                                                    *)
EXTENDS AptCacheMount

MCBuilds == {"b1", "b2", "b3"}

=============================================================================
