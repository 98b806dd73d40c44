------------------------------ MODULE MCThreadPool ------------------------------
(***************************************************************************)
(* ThreadPool for TLC.  Every constant gets its value in the               *)
(* configurations.                                                         *)
(***************************************************************************)
EXTENDS ThreadPool, TLC
================================================================================
