--------------------------------- MODULE SR2PLink ---------------------------------
(***************************************************************************)
(* A server that calls another one: the composition of LinkReactor and of  *)
(* the called server's SubReactor over the channels of SR2PMessages.       *)
(***************************************************************************)
EXTENDS LinkReactor, AsyncCalls

vars == <<clientVars, linkVars, serverVars, netVars>>

Init ==
  /\ NetInit
  /\ TransmitterInit
  /\ LinkInit
  /\ SubReactorInit

Next ==
  \/ LinkNext /\ UNCHANGED serverVars
  \/ SubReactorNext /\ UNCHANGED <<clientVars, linkVars>>
  \/ Lose /\ UNCHANGED <<clientVars, linkVars, serverVars>>

Spec == Init /\ [][Next]_vars
--------------------------------------------------------------------------------
\* Every variable has its type.
TypeOK == NetTypeOK /\ TransmitterTypeOK /\ LinkTypeOK /\ SubReactorTypeOK

\* The main reactor can tell the answers of every call that waits for some: the
\* timer that takes a call out of active_queue neither runs early nor hits a
\* later call, though it runs in another thread than the one that set it.
AnswersAreClaimed ==
  \A i \in Present : ~triggered[i] => i \in active_queue

\* Only a datagram that comes too late, after the callback of its call was given
\* the result, catches the loop (transmitter_link_reactor.cpp:85).
OnlyLateAnswersSpin ==
  spinning => outcome[Head(newData).id] # "none"

\* Only an answer that is late, or a refusal, which has no id, makes the main
\* reactor take the called server for a client of its own.
OnlyLateAnswersCapture ==
  [][\A m \in toClient : Capture(m) => m = Exhausted \/ triggered[m.id]]_vars
================================================================================
