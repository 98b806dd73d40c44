----------------------------- MODULE AsyncInvariants -----------------------------
(***************************************************************************)
(* The inductive invariants behind the safety properties of AsyncCalls,    *)
(* which relate the asynchronous client and the server.                    *)
(***************************************************************************)
EXTENDS AsyncCalls, SubReactorInvariants

\* Behind AcknowledgedIsStored: what the client believes acknowledged is stored.
AcceptCoversStored ==
  \A i \in Calls : 0 .. ack_accept[i] - 1 \subseteq piece_state[i]

RequestInv ==
  StoredInv /\ (NothingForgotten => AcceptCoversStored)

\* What the datagrams of the server in D tell the client about its requests is
\* true: D holds those on their way, or those that wait for the loop.
ShowStored(D) ==
  \A m \in D :
    /\ m.phase = "Request" /\ m.type = "ReceiverACK" =>
         0 .. m.order - 1 \subseteq piece_state[m.id]
    /\ m.phase = "Response" => executions[m.id] > 0
--------------------------------------------------------------------------------
\* Behind DeliveredIsReceived: the acknowledgements of the client cover stored
\* pieces only, wherever they are on their way.
ResponseInv ==
  /\ \A m \in toServer \cup mainBuffer : m.type = "ReceiverACK" =>
       0 .. m.order - 1 \subseteq Stored(piece_data, m.id)
  /\ DeliveredIsReceived
--------------------------------------------------------------------------------
\* Behind RequestKeepsTimer: the clock of message i in the request phase.  The
\* window sent last ends within a window of what is acknowledged, so an
\* acknowledgement that moves ack_accept makes the next pass send; the phase ends
\* with the last acknowledgement, so no timer of the window being waited for is
\* stale; and response timers, which count timeout_time up without sending, belong
\* to the response phase.
Clocked(i) ==
  /\ message[i] = "active" /\ phase[i] = "Request" /\ ~triggered[i] =>
       \/ requestTimers[i][ack_accept[i]] > 0
       \/ Acknowledged(i) /\ timeout_time[i] < try_time
  /\ ack_expect[i] <= ack_accept[i] + getSendCount(ReqPieces)
  /\ phase[i] = "Request" => ack_accept[i] < ReqPieces
  /\ responseTimers[i] > 0 => phase[i] = "Response"

ClockInv == \A i \in Calls : Clocked(i)
--------------------------------------------------------------------------------
\* A callback that is under way belongs to a message that is triggered, only a
\* finished one has a delete_message timer, and what is erased was finished.
CallbackInv ==
  /\ \A i \in Calls : callback[i] # "none" => triggered[i]
  /\ \A i \in Calls : callback[i] \in {"called", "done"} => outcome[i] # "none"
  /\ \A i \in erasing : callback[i] = "done"
  /\ \A i \in Calls : message[i] = "erased" => callback[i] = "done"
--------------------------------------------------------------------------------
\* Behind ImplementsRpcCall.

\* What the client stored comes from the first execution, and a message that was
\* a success misses no piece.
FirstReceived ==
  \A i \in Calls : \A k \in Orders(RespPieces) :
    /\ piece_data[i][k] \in {NoData, 1}
    /\ piece_data[i][k] # NoData => executions[i] > 0
    /\ isSuccess[i] \/ outcome[i] = "OK" => piece_data[i][k] # NoData

FirstExecutionInv ==
  NothingForgotten /\ reuses = 0 => FirstInFlight /\ FirstReceived

\* The pieces of a response in D come from the first execution too.
ShowFirst(D) == \A m \in D : m.phase = "Response" => m.data = 1

\* A message has an outcome when its callback was called, and is sent, answered
\* and called back only after the caller handed it over.
SentFirst ==
  /\ \A i \in Calls : outcome[i] # "none" <=> callback[i] \in {"called", "done"}
  /\ \A i \in Calls : triggered[i] => message[i] # "new"
  /\ \A m \in toServer \cup mainBuffer : message[m.id] # "new"
================================================================================
