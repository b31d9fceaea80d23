--------------------------- MODULE MCCacheBootstrap ---------------------------
(* Instances of CacheBootstrap: one or two processes.                        *)
EXTENDS CacheBootstrap, TLC

CONSTANTS p1, p2

=============================================================================
