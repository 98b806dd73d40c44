-------------------------------- MODULE SR2PAsync --------------------------------
(***************************************************************************)
(* One Transmitter and one server joined by the network: the composition   *)
(* of Transmitter and SubReactor over the channels of SR2PMessages, with   *)
(* several calls in flight at once.                                        *)
(***************************************************************************)
EXTENDS AsyncCalls, FiniteSets

vars == <<clientVars, serverVars, netVars>>

Init ==
  /\ NetInit
  /\ TransmitterInit
  /\ SubReactorInit

Next ==
  \/ TransmitterNext /\ UNCHANGED serverVars
  \/ SubReactorNext /\ UNCHANGED clientVars
  \/ Lose /\ UNCHANGED <<clientVars, serverVars>>

Spec == Init /\ [][Next]_vars

\* The loop's thread runs, and leaves the receive loop when the socket is silent.
\* It comes back to the socket and to its timers again and again, and both hand
\* out what they hold in turn, hence strong fairness.  Workers run their tasks,
\* and stop polls the map.  Nothing is assumed of the callers and of losses.
Fairness ==
  /\ WF_vars((Sleep \/ EndLoop \/ SendPass \/ NoTimer) /\ UNCHANGED serverVars)
  /\ \A m \in FromServer({1}) : SF_vars(TransmitterReceive(m) /\ UNCHANGED serverVars)
  /\ \A i \in Calls :
       /\ \A a \in Orders(ReqPieces) : SF_vars(timeout_event(i, a) /\ UNCHANGED serverVars)
       /\ SF_vars(response_timeout_event(i) /\ UNCHANGED serverVars)
       /\ SF_vars(delete_message(i) /\ UNCHANGED serverVars)
       /\ WF_vars((Decode(i) \/ CallBack(i) \/ Dismiss(i)) /\ UNCHANGED serverVars)
  /\ WF_vars(stop /\ UNCHANGED serverVars)
  /\ \A m \in FromClient : WF_vars(ServerReceive(m) /\ UNCHANGED clientVars)
  /\ WF_vars((\E t \in tasks : FinishTask(t)) /\ UNCHANGED clientVars)
  /\ WF_vars((\E t \in results : StoreResponse(t)) /\ UNCHANGED clientVars)

FairSpec == Spec /\ Fairness

\* The part of it that the request phase needs.
RequestFairness ==
  /\ WF_vars((SendPass \/ NoTimer) /\ UNCHANGED serverVars)
  /\ \A i \in Calls :
       /\ SF_vars(TransmitterReceive(ACK(i, ReqPieces)) /\ UNCHANGED serverVars)
       /\ SF_vars(TransmitterReceive(Reset(i)) /\ UNCHANGED serverVars)
       /\ \A a \in Orders(ReqPieces) : SF_vars(timeout_event(i, a) /\ UNCHANGED serverVars)
       /\ \A m \in {RequestPiece(i, k) : k \in Orders(ReqPieces)} \cup {RequestACK(i)} :
            WF_vars(ServerReceive(m) /\ UNCHANGED clientVars)
--------------------------------------------------------------------------------
\* Every variable has its type.
TypeOK == NetTypeOK /\ TransmitterTypeOK /\ SubReactorTypeOK

\* stop returns only when the callback of every message that was sent has run,
\* so that the caller may destroy what the callbacks use (README.md:270).
StopWaitsForCallbacks ==
  ~run_state =>
    \A i \in Calls : message[i] # "new" => outcome[i] # "none"
--------------------------------------------------------------------------------
\* However timers, acknowledgements and pieces race, a callback is called once,
\* and what it was told stays true.
CalledBackOnce ==
  [][\A i \in Calls : callback[i] \in {"called", "done"} =>
       /\ callback'[i] \in {"called", "done"}
       /\ outcome'[i] = outcome[i]]_vars

\* Whatever is lost, a request of one piece gets through or times out.  (Of a
\* longer one a piece after the first that is lost is never sent again, and the
\* answers to RequestACK keep timeout_time at 0.)
RequestPhaseEnds ==
  ReqPieces = 1 =>
    \A i \in Calls :
      message[i] = "active" /\ phase[i] = "Request"
        ~> phase[i] = "Response" \/ triggered[i] \/ loopPc = "stuck"

\* The callback of every message the loop took up is run: one registers a
\* callback to handle the result, and a call without an answer has
\* NetworkTimeout (README.md:209, README.md:226).
EveryCallbackRuns ==
  \A i \in Calls : message[i] = "active" ~> outcome[i] # "none"
================================================================================
