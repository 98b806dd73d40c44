--------------------------------- MODULE MCSR2P ---------------------------------
(***************************************************************************)
(* SR2P for TLC.  Every constant gets its value in the configurations.     *)
(***************************************************************************)
EXTENDS SR2P, TLC
================================================================================
