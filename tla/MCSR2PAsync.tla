------------------------------- MODULE MCSR2PAsync -------------------------------
(***************************************************************************)
(* SR2PAsync for TLC, with as many timeouts as there may be.  Every        *)
(* constant gets its value in the configurations.                          *)
(***************************************************************************)
EXTENDS SR2PAsync, TLC

\* The request phase of a message has ended, for good: a StateReset that comes in
\* the response phase does not change the phase.
RequestEnded(i) == phase[i] = "Response" \/ triggered[i] \/ loopPc = "stuck"

\* SR2PAsync under RequestFairness up to the end of the request phase, behind which
\* RequestPhaseEnds says nothing: a behaviour in which the phase of the one call
\* never ends keeps all its steps.
RequestPhaseSpec ==
  /\ Init
  /\ [][Next /\ \E i \in Calls : ~RequestEnded(i)]_vars
  /\ RequestFairness
================================================================================
