---------------------------- MODULE MCAsyncBounded -----------------------------
(***************************************************************************)
(* SR2PAsync for TLC, with a bound on how often a timer finds that nothing *)
(* came.  No datagram is lost: what a safety property sees of a lost one,  *)
(* it sees of one that stays in the channel.  Every constant gets its      *)
(* value in the configurations.                                            *)
(***************************************************************************)
EXTENDS SR2PAsync, TLC

CONSTANT MaxTimeouts   \* bound of BoundedSpec: timers that find nothing came

VARIABLE timeouts

BoundedInit == Init /\ timeouts = 0

BoundedNext ==
  \/ /\ TimesOut /\ UNCHANGED serverVars
     /\ timeouts < MaxTimeouts
     /\ timeouts' = timeouts + 1
  \/ Proceeds /\ UNCHANGED <<serverVars, timeouts>>
  \/ SubReactorNext /\ UNCHANGED <<clientVars, timeouts>>

BoundedSpec == BoundedInit /\ [][BoundedNext]_<<vars, timeouts>>
================================================================================
