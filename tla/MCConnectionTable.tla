--------------------------- MODULE MCConnectionTable ---------------------------
(***************************************************************************)
(* ConnectionTable for TLC, with names for its peers and descriptors.      *)
(***************************************************************************)
EXTENDS ConnectionTable, TLC

CONSTANTS p1, p2, p3, f1, f2
================================================================================
