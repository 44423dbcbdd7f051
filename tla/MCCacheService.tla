-------------------------- MODULE MCCacheService --------------------------
(***************************************************************************)
(* Small instances of CacheService.  The ttls hold one the code refuses    *)
(* (it shows up as no step at all), and the clock runs for four hours of a *)
(* two-hour sweep, so that entries expire between two sweeps, during a     *)
(* sweep and inside a Get.                                                 *)
(***************************************************************************)
EXTENDS CacheService

MCTTLs == {-1, 0, 1, 2}
=============================================================================
