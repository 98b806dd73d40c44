----------------------------- MODULE SR2PInvariants -----------------------------
(***************************************************************************)
(* The inductive invariants behind the safety properties of SR2P.  Each    *)
(* one says of everything that is in flight or pending what the property   *)
(* says of the two ends.                                                   *)
(***************************************************************************)
EXTENDS SR2P, SubReactorInvariants

\* Behind AcknowledgedIsStored and ExecutedWhole: what the client believes
\* acknowledged is stored.
AcceptCoversStored ==
  phase # "idle" => 0 .. ack_accept - 1 \subseteq piece_state[message_id]

RequestInv ==
  NothingForgotten =>
    AcksCoverStored /\ OnlyExecuted /\ ExecutedIsWhole /\ AcceptCoversStored
--------------------------------------------------------------------------------
\* Behind DeliveredIsReceived: the acknowledgements of the client cover stored
\* pieces only, wherever they are on their way.
ResponseInv ==
  /\ \A m \in toServer \cup mainBuffer : m.type = "ReceiverACK" =>
       0 .. m.order - 1 \subseteq Stored(piece_data, m.id)
  /\ DeliveredIsReceived
--------------------------------------------------------------------------------
\* Behind ResponseFromOneExecution: what the client stored comes from the first
\* execution, and a call that returned OK misses no piece.
FirstReceived ==
  \A i \in Calls : \A k \in Orders(RespPieces) :
    /\ piece_data[i][k] \in {NoData, 1}
    /\ piece_data[i][k] # NoData => executions[i] > 0
    /\ outcome[i] = "OK" => piece_data[i][k] # NoData

FirstExecutionInv ==
  NothingForgotten /\ reuses = 0 => FirstInFlight /\ FirstReceived
--------------------------------------------------------------------------------
\* Behind ImplementsRpcCall, with FirstExecutionInv.

\* Calls are made in turn, and only the one under way has not returned.
CallsInTurn ==
  \A i \in Calls :
    outcome[i] = "none" <=> message_id < i \/ (message_id = i /\ phase # "idle")

\* The server hears of calls that were made.
HeardOfMade == \A m \in toServer \cup mainBuffer : m.id <= message_id
================================================================================
