------------------------------- MODULE AsyncCalls -------------------------------
(***************************************************************************)
(* What the callers of the Transmitter are promised, and what client and   *)
(* server know of each other, whichever loop the Transmitter's handlers    *)
(* are composed with: properties of SR2PAsync and of SR2PLink.             *)
(***************************************************************************)
EXTENDS Transmitter, SubReactor

\* What the client believes acknowledged, the server has, also after a response
\* piece moved ack_accept in place of the acknowledgement: unless the server
\* forgot something, no piece below ack_accept is missing there.
AcknowledgedIsStored ==
  expiries = 0 /\ restarts = 0 =>
    \A i \in Calls : 0 .. ack_accept[i] - 1 \subseteq piece_state[i]

\* The request phase is never left without a clock: a message that is being sent
\* has a timer for the acknowledgement it waits for, or the next pass sends and
\* sets one.  A timer for another acknowledgement would do nothing when due.
RequestKeepsTimer ==
  \A i \in Calls :
    message[i] = "active" /\ phase[i] = "Request" /\ ~triggered[i] =>
      \/ requestTimers[i][ack_accept[i]] > 0
      \/ Acknowledged(i) /\ timeout_time[i] < try_time

\* The server never takes a response piece for delivered that the client does
\* not have, though the client drops a piece that overtakes the acknowledgement.
DeliveredIsReceived ==
  \A i \in Calls : 0 .. response_ack[i] - 1 \subseteq Stored(piece_data, i)
--------------------------------------------------------------------------------
\* The calls as RpcCall sees them.  Success with data that were not decoded is no
\* result.
AbstractCalls ==
  [i \in Calls |->
     CASE outcome[i] = "OK"                       -> "OK"
       [] outcome[i] \in {"undecoded", "failed"}  -> "failed"
       [] outcome[i] = "none" -> IF message[i] = "new" THEN "new" ELSE "pending"]

\* The execution whose result the callback of i was given.
ResultOf(i) ==
  IF outcome[i] # "OK" THEN 0
  ELSE IF \A k \in Orders(RespPieces) : piece_data[i][k] = piece_data[i][0]
    THEN piece_data[i][0]
    ELSE Overwritten

RPC == INSTANCE RpcCall WITH
         Ids <- Calls,
         Concurrent <- TRUE,
         calls <- AbstractCalls,
         runs <- executions,
         result <- [i \in Calls |-> ResultOf(i)]

\* Every step is a step of RpcCall or invisible to it.
ImplementsRpcCall == RPC!Spec
================================================================================
