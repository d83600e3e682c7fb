-------------------------- MODULE MCTierRetention --------------------------
(* An instance of TierRetention for TLC.                                   *)
EXTENDS TierRetention

(* All versions for 2 ticks, one every 3 ticks up to 7 ticks, none beyond. *)
MCTiers == <<[maxAge |-> 2, keepEvery |-> 0], [maxAge |-> 7, keepEvery |-> 3]>>
=============================================================================
