----------------------------- MODULE MCCacheIndex -----------------------------
(* The index with four positions.  The keys 3 and 7 share the last bucket, *)
(* so that probes go across the end of the table, and a key inserted twice *)
(* has two entries.                                                        *)
EXTENDS CacheIndex
=============================================================================
