----------------------------- MODULE SR2PAsyncProofs -----------------------------
(***************************************************************************)
(* Proofs about the asynchronous client joined with the server, for every  *)
(* number of calls, pieces, tries and timers: the types, the callbacks,    *)
(* stop, the timers of the request phase, and what the client and the      *)
(* server know of each other.                                              *)
(***************************************************************************)
EXTENDS SR2PAsync, TransmitterProofs

--------------------------------------------------------------------------------
\* Every reachable state satisfies TypeOK: no handler, timer or worker of the
\* asynchronous client leaves a counter, an order or an acknowledgement outside of
\* its range, and its datagrams are ones the server reads.
THEOREM AsyncTyped == Spec => []TypeOK
<1>1. Init => TypeOK
  <2>1. NetInit => NetTypeOK
    BY NetworkAssumption DEF NetInit, NetTypeOK
  <2> QED
    BY <2>1, TransmitterInitType, SubReactorInitType DEF Init, TypeOK
<1>2. TypeOK /\ [Next]_vars => TypeOK'
  <2> SUFFICES ASSUME TypeOK, [Next]_vars PROVE TypeOK'
    OBVIOUS
  <2>1. UNCHANGED clientVars => TransmitterTypeOK'
    BY DEF TypeOK, TransmitterTypeOK, clientVars, loopVars, taskVars, timerVars, triggerVars
  <2> QED
    BY <2>1, StillTyped, TransmitterTypeStep, SubReactorTypeStep DEF TypeOK, Next, vars
<1> QED
  BY <1>1, <1>2, PTL DEF Spec

\* A step of the composition is one of the client or of the server, and the client
\* handles what is on its way.
LEMMA AsyncStep ==
  ASSUME TypeOK, [Next]_vars
  PROVE  EndsTyped /\ toClient \subseteq FromServer(Data \ {NoData}) /\ EndsStep(toClient)
<1>1. EndsTyped /\ toClient \subseteq FromServer(Data \ {NoData})
  BY DEF TypeOK, EndsTyped, NetTypeOK
<1>2. CASE TransmitterNext /\ UNCHANGED serverVars
  BY <1>1, <1>2, TransmitterMoves DEF EndsTyped, EndsStep
<1>3. CASE SubReactorNext /\ UNCHANGED clientVars
  BY <1>1, <1>3 DEF EndsStep
<1>4. CASE Lose /\ UNCHANGED <<clientVars, serverVars>>
  BY <1>1, <1>4, BothRest DEF Lose
<1>5. CASE UNCHANGED vars
  BY <1>1, <1>5, BothRest DEF vars, netVars
<1> QED
  BY <1>2, <1>3, <1>4, <1>5 DEF Next
--------------------------------------------------------------------------------
\* Callbacks and stop: run_state is cleared when everything is erased.
TriggerInv ==
  /\ CallbackInv
  /\ ~run_state => \A i \in Calls : message[i] = "erased"

\* Only stop clears run_state, when nothing is left in the map.
LEMMA RunStateStep ==
  ASSUME TransmitterTypeOK, TransmitterNext, run_state, ~run_state'
  PROVE  \A j \in Calls : message'[j] = "erased"
<1>1. CASE stop
  BY <1>1 DEF stop, NothingLeft, Present, TransmitterTypeOK
<1>2. ASSUME NEW i \in Calls,
             \/ send(i) \/ (\E a \in 0 .. ReqPieces : staleTimeout(i, a))
             \/ delete_message(i) \/ Decode(i) \/ CallBack(i) \/ Dismiss(i)
      PROVE  FALSE
  BY <1>2 DEF send, staleTimeout, delete_message, Decode, CallBack, Dismiss, loopVars
<1>3. ASSUME Park \/ Sleep \/ EndLoop \/ NoTimer \/ SendPass PROVE FALSE
  BY <1>3 DEF Park, Sleep, EndLoop, NoTimer, SendPass
<1>4. ASSUME NEW m \in toClient, TransmitterReceive(m) PROVE FALSE
  BY <1>4 DEF TransmitterReceive, IgnoreUnknown, HearACK, HearNothingNew, HearReset,
              OvertakenACK, HearResponsePiece, loopVars
<1>5. ASSUME TimesOut PROVE FALSE
  BY <1>5 DEF TimesOut, timeout_event, response_timeout_event
<1> QED
  BY <1>1, <1>2, <1>3, <1>4, <1>5 DEF TransmitterNext, Proceeds

\* TriggerInv holds in every reachable state.
LEMMA TriggerInvariant == Spec => []TriggerInv
<1>1. Init => TriggerInv
  BY DEF Init, TransmitterInit, TriggerInv, CallbackInv
<1>2. TypeOK /\ TypeOK' /\ TriggerInv /\ [Next]_vars => TriggerInv'
  <2> SUFFICES ASSUME TypeOK, TypeOK', TriggerInv, [Next]_vars PROVE TriggerInv'
    OBVIOUS
  <2>1. CASE TransmitterNext
    <3>1. NetTypeOK /\ TransmitterTypeOK /\ TransmitterTypeOK' /\ CallbackInv
      BY DEF TypeOK, TriggerInv
    <3>2. ClientMoves(toClient)
      BY <2>1, <3>1, TransmitterMoves
    <3>3. CallbackInv'
      BY <3>1, <3>2, CallbackInvStep
    <3>4. ~run_state' => \A i \in Calls : message'[i] = "erased"
      BY <2>1, <3>1, <3>2, MessageStep, RunStateStep DEF TriggerInv
    <3> QED
      BY <3>3, <3>4, Zenon DEF TriggerInv
  <2>2. CASE UNCHANGED clientVars
    <3>1. UNCHANGED <<callback, triggered, outcome, erasing, message, run_state>>
      BY <2>2 DEF clientVars, loopVars, timerVars, triggerVars
    <3> QED
      BY <3>1, Zenon DEF TriggerInv, CallbackInv
  <2> QED
    BY <2>1, <2>2 DEF Next, vars
<1> QED
  BY <1>1, <1>2, AsyncTyped, PTL DEF Spec

\* Transmitter::stop returns only when the callback of every message that was sent
\* has run: a message leaves the map by delete_message alone, whose timer trigger
\* sets after the callback.
THEOREM StopWaits == Spec => []StopWaitsForCallbacks
<1>1. TriggerInv => StopWaitsForCallbacks
  BY DEF TriggerInv, CallbackInv, StopWaitsForCallbacks
<1> QED
  BY <1>1, TriggerInvariant, PTL

\* However the loop, its timers and the workers race, a callback is called once
\* and what it was given stays (Transmitter::try_trigger).
THEOREM OneCallBack == Spec => CalledBackOnce
<1> DEFINE Once == \A i \in Calls : callback[i] \in {"called", "done"} =>
                     /\ callback'[i] \in {"called", "done"}
                     /\ outcome'[i] = outcome[i]
<1>1. TypeOK /\ TriggerInv /\ [Next]_vars => Once
  <2> SUFFICES ASSUME TypeOK, TriggerInv, [Next]_vars PROVE Once
    OBVIOUS
  <2>1. CASE ClientMoves(toClient)
    BY <2>1, CallbackStep DEF TypeOK, TriggerInv
  <2>2. CASE UNCHANGED clientVars
    BY <2>2 DEF clientVars, triggerVars
  <2> QED
    BY <2>1, <2>2, AsyncStep DEF EndsStep
<1> QED
  BY <1>1, AsyncTyped, TriggerInvariant, PTL DEF Spec, CalledBackOnce
--------------------------------------------------------------------------------
\* A message that the transmitter is still sending is never left without a clock:
\* the timer of the window it waits for is set, or the next pass sends one and
\* sets it, whatever datagrams and timers come in between.
THEOREM RequestClock == Spec => []RequestKeepsTimer
<1>1. Init => ClockInv
  BY ClockInit DEF Init
<1>2. TypeOK /\ ClockInv /\ [Next]_vars => ClockInv'
  BY AsyncStep, ClockStep
<1>3. ClockInv => RequestKeepsTimer
  BY DEF ClockInv, Clocked, RequestKeepsTimer
<1> QED
  BY <1>1, <1>2, <1>3, AsyncTyped, PTL DEF Spec
--------------------------------------------------------------------------------
\* RequestInv holds in every reachable state: what is on its way to the client is
\* true.
LEMMA RequestInvariant == Spec => []RequestInv
<1>1. Init => RequestInv
  BY RequestInit DEF Init
<1>2. RequestInv => (NothingForgotten => ShowStored(toClient))
  BY DEF RequestInv, StoredInv, AcksCoverStored, OnlyExecuted, ShowStored
<1>3. TypeOK /\ RequestInv /\ [Next]_vars => RequestInv'
  BY <1>2, AsyncStep, RequestStep
<1> QED
  BY <1>1, <1>3, AsyncTyped, PTL DEF Spec

\* The client only believes acknowledged what the server stored, as long as the
\* server forgot nothing, also when a piece of the response ends the request phase
\* in place of the last acknowledgement (TransmitterEvent, the request phase).
THEOREM AsyncAcknowledgedIsStored == Spec => []AcknowledgedIsStored
<1>1. RequestInv => AcknowledgedIsStored
  BY DEF RequestInv, NothingForgotten, AcceptCoversStored, AcknowledgedIsStored
<1> QED
  BY <1>1, RequestInvariant, PTL

\* The server never takes for delivered what the client does not have, whatever
\* pieces and acknowledgements overtake each other (Response::setAckAccept,
\* TransmitterEvent, the response phase).
THEOREM AsyncDeliveredIsReceived == Spec => []DeliveredIsReceived
<1>1. Init => ResponseInv
  BY ResponseInit DEF Init
<1>2. TypeOK /\ ResponseInv /\ [Next]_vars => ResponseInv'
  BY AsyncStep, ResponseStep
<1>3. ResponseInv => DeliveredIsReceived
  BY DEF ResponseInv
<1> QED
  BY <1>1, <1>2, <1>3, AsyncTyped, PTL DEF Spec
--------------------------------------------------------------------------------
\* FirstExecutionInv, with what it rests on, holds in every reachable state.
LEMMA FirstExecutionInvariant == Spec => [](SentFirst /\ TriggeredOnce /\ FirstExecutionInv)
<1>1. Init => SentFirst /\ TriggeredOnce /\ FirstExecutionInv
  BY FirstInit DEF Init
<1>2. RequestInv => (NothingForgotten => ShowStored(toClient))
  BY DEF RequestInv, StoredInv, AcksCoverStored, OnlyExecuted, ShowStored
<1>3. FirstExecutionInv => (NothingForgotten /\ reuses = 0 => ShowFirst(toClient))
  BY DEF FirstExecutionInv, FirstInFlight, ShowFirst
<1>4. /\ TypeOK /\ TriggerInv /\ RequestInv
      /\ SentFirst /\ TriggeredOnce /\ FirstExecutionInv /\ [Next]_vars
      => (SentFirst /\ TriggeredOnce /\ FirstExecutionInv)'
  BY <1>2, <1>3, AsyncStep, SentStep, TriggeredOnceStep, FirstStep DEF TriggerInv
<1> QED
  BY <1>1, <1>4, AsyncTyped, TriggerInvariant, RequestInvariant, PTL DEF Spec

\* With many calls in flight too the protocol keeps what RpcCall promises, as long
\* as the server forgets nothing and no freed buffer is reused: a request is
\* executed only after its message was sent, and a callback is told OK once and
\* only with the result of an execution of its own call.
THEOREM AsyncRpcCallIsImplemented ==
  Spec /\ [](NothingForgotten /\ reuses = 0) => ImplementsRpcCall
<1>1. Init => RPC!Init
  BY FirstInit DEF Init
<1>2. /\ TypeOK /\ TypeOK' /\ TriggerInv /\ SentFirst
      /\ FirstExecutionInv /\ FirstExecutionInv'
      /\ (NothingForgotten /\ reuses = 0) /\ (NothingForgotten /\ reuses = 0)'
      /\ [Next]_vars
      => [RPC!Next]_(RPC!vars)
  <2> SUFFICES ASSUME TypeOK, TypeOK', TriggerInv, SentFirst, FirstReceived, FirstReceived',
                      [Next]_vars
               PROVE  [RPC!Next]_(RPC!vars)
    BY DEF FirstExecutionInv
  <2>1. EndsTyped /\ EndsTyped' /\ CallbackInv
    BY DEF TypeOK, EndsTyped, TriggerInv
  <2> QED
    BY <2>1, AsyncStep, StepOfRpcCall
<1> QED
  BY <1>1, <1>2, AsyncTyped, TriggerInvariant, FirstExecutionInvariant, PTL
  DEF Spec, ImplementsRpcCall, RPC!Spec
================================================================================
