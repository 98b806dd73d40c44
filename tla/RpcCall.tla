-------------------------------- MODULE RpcCall --------------------------------
(***************************************************************************)
(* What a caller is promised: a call that returns OK returns the result of *)
(* one execution of its request, started after the call was made; a call   *)
(* may fail whether or not its request was executed.                       *)
(***************************************************************************)
EXTENDS Integers

CONSTANTS
  Ids,         \* the calls, numbered in the order they are made
  Concurrent   \* whether a call may be made while earlier ones are pending

VARIABLES
  calls,    \* "new", "pending", "OK" or "failed" per call
  runs,     \* executions started so far per call
  result    \* the execution whose result the call returned, 0 while none

vars == <<calls, runs, result>>

Init ==
  /\ calls = [i \in Ids |-> "new"]
  /\ runs = [i \in Ids |-> 0]
  /\ result = [i \in Ids |-> 0]

\* A call is made once every earlier one has returned, or been made.
Call(i) ==
  /\ calls[i] = "new"
  /\ \A j \in Ids : j < i =>
       calls[j] \in IF Concurrent THEN {"pending", "OK", "failed"} ELSE {"OK", "failed"}
  /\ calls' = [calls EXCEPT ![i] = "pending"]
  /\ UNCHANGED <<runs, result>>

Execute(i) ==
  /\ calls[i] # "new"
  /\ runs' = [runs EXCEPT ![i] = @ + 1]
  /\ UNCHANGED <<calls, result>>

ReturnOK(i) ==
  /\ calls[i] = "pending"
  /\ calls' = [calls EXCEPT ![i] = "OK"]
  /\ \E n \in 1 .. runs[i] : result' = [result EXCEPT ![i] = n]
  /\ UNCHANGED runs

Fail(i) ==
  /\ calls[i] = "pending"
  /\ calls' = [calls EXCEPT ![i] = "failed"]
  /\ UNCHANGED <<runs, result>>

Next == \E i \in Ids : Call(i) \/ Execute(i) \/ ReturnOK(i) \/ Fail(i)

Spec == Init /\ [][Next]_vars
================================================================================
