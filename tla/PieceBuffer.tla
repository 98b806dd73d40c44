------------------------------ MODULE PieceBuffer ------------------------------
(***************************************************************************)
(* The piece bookkeeping that both ends of an SR2P transfer share.  A      *)
(* message of n pieces is received as the set "got" of the piece orders    *)
(* stored so far: the vector<bool> piece_state of Request and of           *)
(* ResponseData, of which got is the set of the TRUE indices.              *)
(***************************************************************************)
EXTENDS Integers

\* Orders of the pieces of a message of n pieces (indices of piece_state).
Orders(n) == 0 .. n - 1

\* Mutant of getAckNumber: the order after the last one stored, holes or not.
AckOfLast(got, n) ==
  IF got = {} THEN 0 ELSE 1 + (CHOOSE k \in got : \A j \in got : j <= k)

\* getAckNumber: the first order that is not stored, n when none is missing.
getAckNumber(got, n) ==
  CHOOSE k \in 0 .. n : /\ k = n \/ k \notin got
                        /\ \A j \in 0 .. k - 1 : j \in got

\* getSendCount: how many pieces one round of a sender puts on the wire.
getSendCount(n) ==
  CASE n <= 3    -> 1
    [] n > 3  /\ n <= 10   -> 3
    [] n > 10 /\ n <= 1024 -> 5
    [] n > 1024            -> 7

\* Mutant of Larger: the last one heard, of whatever age.
Latest(a, b) == b

Larger(a, b) == IF a > b THEN a ELSE b
================================================================================
