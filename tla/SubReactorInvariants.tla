-------------------------- MODULE SubReactorInvariants --------------------------
(***************************************************************************)
(* The parts of the inductive invariants that speak of the server and of   *)
(* the datagrams it sent: they hold whichever client it is composed with.  *)
(***************************************************************************)
EXTENDS SubReactor

\* The server lost nothing it stored.
NothingForgotten == expiries = 0 /\ restarts = 0
--------------------------------------------------------------------------------
\* A request that is not triggered has used up one execution less.
TriggeredOnce ==
  \A i \in Calls :
    executions[i] <= (IF is_trigger[i] THEN 1 ELSE 0) + expiries + restarts
--------------------------------------------------------------------------------
\* An acknowledgement in flight covers stored pieces only.
AcksCoverStored ==
  \A m \in toClient : m.phase = "Request" /\ m.type = "ReceiverACK" =>
    0 .. m.order - 1 \subseteq piece_state[m.id]

\* What shows that a request was executed belongs to a request that was.
OnlyExecuted ==
  /\ \A m \in toClient : m.phase = "Response" => executions[m.id] > 0
  /\ \A t \in tasks \cup results : executions[t[1]] > 0
  /\ \A i \in Calls : response[i] # NoData => executions[i] > 0

\* A request that was executed is whole.
ExecutedIsWhole ==
  \A i \in Calls : executions[i] > 0 => piece_state[i] = AllRequestPieces

\* All three, while nothing was forgotten.
StoredInv == NothingForgotten => AcksCoverStored /\ OnlyExecuted /\ ExecutedIsWhole
--------------------------------------------------------------------------------
\* All the response data on its way comes from the first execution of its call.
FirstInFlight ==
  /\ \A m \in toClient : m.phase = "Response" => m.data = 1
  /\ \A t \in tasks \cup results : t[2] = 1
  /\ \A i \in Calls : response[i] \in {NoData, 1}
================================================================================
