-------------------------------- MODULE MCSR2PLink --------------------------------
(***************************************************************************)
(* SR2PLink for TLC, with bounds that leave one event after the other to   *)
(* the caller, few datagrams in flight each way, no datagram in the called *)
(* server's main socket while that opens the connection, and few timers    *)
(* that find nothing came.  No datagram is lost: what a safety property    *)
(* sees of a lost one, it sees of one that stays in the channel.  Every    *)
(* constant gets its value in the configurations.                          *)
(***************************************************************************)
EXTENDS SR2PLink, FiniteSets, TLC

CONSTANTS
  MaxTimeouts,  \* bound of BoundedSpec: timers that find nothing came
  MaxInFlight   \* bound of BoundedSpec: datagrams in flight each way

VARIABLE timeouts

BoundedInit == Init /\ timeouts = 0

\* An event is sent when the callback of the one before it has been called.
OneAfterTheOther ==
  \A i \in Calls \ {1} : outcome'[i - 1] = "none" => i \notin active_queue'

LittleInFlight ==
  /\ mainBuffer' = {}
  /\ Cardinality(toServer') <= MaxInFlight
  /\ Cardinality(toClient') <= MaxInFlight

BoundedNext ==
  \/ /\ \E i \in Calls : TimeOut(i)
     /\ LittleInFlight
     /\ timeouts < MaxTimeouts
     /\ timeouts' = timeouts + 1
     /\ UNCHANGED serverVars
  \/ LinkProceeds /\ LittleInFlight /\ OneAfterTheOther /\ UNCHANGED <<serverVars, timeouts>>
  \/ SubReactorNext /\ LittleInFlight /\ UNCHANGED <<clientVars, linkVars, timeouts>>

BoundedSpec == BoundedInit /\ [][BoundedNext]_<<vars, timeouts>>
================================================================================
