---------------------------------- MODULE SR2P ----------------------------------
(***************************************************************************)
(* One Invoker and one server joined by the network: the composition of    *)
(* Invoker and SubReactor over the channels of SR2PMessages, with the      *)
(* properties of the protocol as a whole.                                  *)
(***************************************************************************)
EXTENDS Invoker, SubReactor, FiniteSets

vars == <<clientVars, serverVars, netVars>>

Init ==
  /\ NetInit
  /\ InvokerInit
  /\ SubReactorInit

\* The caller makes no more calls and the last one has returned.
Finished ==
  /\ phase = "idle"
  /\ message_id = MaxCalls
  /\ UNCHANGED vars

Next ==
  \/ InvokerNext /\ UNCHANGED serverVars
  \/ SubReactorNext /\ UNCHANGED clientVars
  \/ Lose /\ UNCHANGED <<clientVars, serverVars>>
  \/ Finished

Spec == Init /\ [][Next]_vars

\* The client thread runs until its call returns and its receive timeout always
\* expires.  A socket hands out its datagrams in turn, so each one that is not
\* lost is handled, and with it every datagram that is sent again and again.
\* The server's workers run their tasks and its 5 ms timer fires.  Nothing is
\* assumed of the inactivity timers, of restarts and of losses.
Fairness ==
  /\ WF_vars(Request /\ UNCHANGED serverVars)
  /\ WF_vars((GiveUp \/ Round \/ EnterPhase2) /\ UNCHANGED serverVars)
  /\ WF_vars((TimeoutInPhase1 \/ TimeoutInPhase2) /\ UNCHANGED serverVars)
  /\ \A m \in FromServer({1}) : WF_vars(ClientReceive(m) /\ UNCHANGED serverVars)
  /\ \A m \in FromClient : WF_vars(ServerReceive(m) /\ UNCHANGED clientVars)
  /\ WF_vars((\E t \in tasks : FinishTask(t)) /\ UNCHANGED clientVars)
  /\ WF_vars((\E t \in results : StoreResponse(t)) /\ UNCHANGED clientVars)

FairSpec == Spec /\ Fairness
--------------------------------------------------------------------------------
\* Every variable has its type, and a call under way has a try left.
TypeOK == NetTypeOK /\ InvokerTypeOK /\ SubReactorTypeOK

\* What the client believes acknowledged, the server has: as long as the server
\* forgot nothing, the pieces below ack_accept are all stored, so the client
\* never leaves phase 1 with a hole in its request (Invoker::request trusts the
\* largest acknowledgement it ever saw, of whatever age).
AcknowledgedIsStored ==
  expiries = 0 /\ restarts = 0 /\ phase # "idle" =>
    0 .. ack_accept - 1 \subseteq piece_state[message_id]

\* However the datagrams are duplicated, reordered and handled on the two paths,
\* a call is executed at most once more than the server forgot its request
\* (trigger is guarded by is_trigger, which dies with the Request).
ExecutionsBounded ==
  \A i \in Calls : executions[i] <= 1 + expiries + restarts

\* A pending execution has all of its request: whatever the order the pieces
\* arrived in, the pool is never handed a buffer with a hole.
ExecutedWhole ==
  expiries = 0 /\ restarts = 0 =>
    \A i \in Calls : executions[i] > 0 => piece_state[i] = AllRequestPieces

\* The server never takes a response piece for delivered that the client does
\* not have: response_ack only moves on acknowledgements of stored pieces, so
\* NextPiece never skips a piece the client still waits for.
DeliveredIsReceived ==
  \A i \in Calls : 0 .. response_ack[i] - 1 \subseteq Stored(piece_data, i)

\* A response the client returns as OK is whole and all its pieces come from
\* one and the same execution of this call.
ResponseFromOneExecution ==
  \A i \in Calls : outcome[i] = "OK" =>
    \E n \in 1 .. executions[i] :
      \A k \in Orders(RespPieces) : piece_data[i][k] = n
--------------------------------------------------------------------------------
KeepsWhatItLearned ==
  /\ message_id' = message_id => ack_accept' >= ack_accept
  /\ \A i \in Calls : \A k \in Orders(RespPieces) :
       piece_data[i][k] # NoData => piece_data'[i][k] = piece_data[i][k]

\* A step never takes back what the client knows of its request, nor a piece of
\* the response it stored, while the same call goes on.
NothingUnlearned == [][KeepsWhatItLearned]_vars

\* Every call returns, OK or with a reason: "after several tries without an
\* answer" the call is reported as timed out (invoker.cpp:153, invoker.cpp:226).
EveryCallReturns == []<>(phase = "idle")
--------------------------------------------------------------------------------
\* The calls as RpcCall sees them.
AbstractCalls ==
  [i \in Calls |->
     CASE outcome[i] = "OK"       -> "OK"
       [] outcome[i] \in Reasons  -> "failed"
       [] outcome[i] = "none"     -> IF i <= message_id THEN "pending" ELSE "new"]

\* The execution whose result call i returned; a mixture of several is no result
\* of RpcCall.
ResultOf(i) ==
  IF outcome[i] # "OK" THEN 0
  ELSE IF \A k \in Orders(RespPieces) : piece_data[i][k] = piece_data[i][0]
    THEN piece_data[i][0]
    ELSE Overwritten

RPC == INSTANCE RpcCall WITH
         Ids <- Calls,
         Concurrent <- FALSE,
         calls <- AbstractCalls,
         runs <- executions,
         result <- [i \in Calls |-> ResultOf(i)]

\* Every step of the protocol is a step of RpcCall or invisible to it.
ImplementsRpcCall == RPC!Spec
================================================================================
