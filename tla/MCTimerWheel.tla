------------------------------ MODULE MCTimerWheel ------------------------------
(***************************************************************************)
(* TimerWheel for TLC: three levels of four buckets.                       *)
(***************************************************************************)
EXTENDS TimerWheel, TLC

FourBuckets == <<4, 4, 4>>
=================================================================================
