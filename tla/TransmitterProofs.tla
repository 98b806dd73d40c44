---------------------------- MODULE TransmitterProofs ----------------------------
(***************************************************************************)
(* The asynchronous client and the server it talks to, whichever loop runs *)
(* the client's handlers: what the handlers, the timers, a pass of the     *)
(* loop and the workers do to the client's types and callbacks, and which  *)
(* steps of the two ends keep the invariants of AsyncInvariants.  The      *)
(* lemmas serve SR2PAsyncProofs and LinkReactorProofs.                     *)
(***************************************************************************)
EXTENDS AsyncInvariants, SubReactorProofs

--------------------------------------------------------------------------------
\* A window ends inside the request and holds at most getSendCount pieces, all of
\* them datagrams of the client.
LEMMA WindowType ==
  ASSUME NEW i \in Calls, NEW ack \in 0 .. ReqPieces
  PROVE  /\ WindowEnd(ack) \in 0 .. ReqPieces
         /\ WindowEnd(ack) <= ack + getSendCount(ReqPieces)
         /\ Window(i, ack) \subseteq FromClient
<1>1. getSendCount(ReqPieces) \in Nat \ {0}
  BY SendCountIsPositive, PiecesAssumption
<1>2. WindowEnd(ack) \in 0 .. ReqPieces /\ WindowEnd(ack) <= ack + getSendCount(ReqPieces)
  BY <1>1, PiecesAssumption DEF WindowEnd
<1>3. Window(i, ack) \subseteq FromClient
  BY ClientSends DEF Window
<1> QED
  BY <1>2, <1>3

\* One more timer is a timer, and at most MaxTimers.
LEMMA OneMoreType ==
  ASSUME NEW count \in 0 .. MaxTimers
  PROVE  OneMore(count) \in 1 .. MaxTimers
BY TransmitterAssumption DEF OneMore

\* What a datagram of message i does to timeout_time and the response timers.
LEMMA HeardType ==
  ASSUME TransmitterTypeOK, NEW i \in Calls, Heard(i) \/ Awaited(i)
  PROVE  /\ timeout_time' \in [Calls -> 0 .. try_time + 1]
         /\ responseTimers' \in [Calls -> 0 .. MaxTimers]
<1>1. /\ timeout_time \in [Calls -> 0 .. try_time + 1]
      /\ responseTimers \in [Calls -> 0 .. MaxTimers]
      /\ 0 \in 0 .. MaxTimers
  BY TransmitterAssumption DEF TransmitterTypeOK
<1>2. timeout_time' \in [Calls -> 0 .. try_time + 1]
  BY <1>1, TransmitterAssumption DEF Heard, Awaited
<1>3. CASE Heard(i)
  BY <1>1, <1>2, <1>3 DEF Heard
<1>4. CASE Awaited(i)
  <2>1. PICK valid \in {0, responseTimers[i]} :
          responseTimers' = [responseTimers EXCEPT ![i] = OneMore(valid)]
    BY <1>4 DEF Awaited
  <2>2. OneMore(valid) \in 0 .. MaxTimers
    BY <1>1, <2>1, OneMoreType
  <2> QED
    BY <1>1, <1>2, <2>1, <2>2
<1> QED
  BY <1>3, <1>4

\* Triggering a message changes is_trigger, the callback and what it was given
\* within their types.
LEMMA TriggerType ==
  ASSUME TransmitterTypeOK, NEW i \in Calls,
         try_trigger(i) \/ (try_triggerInTimer(i) /\ UNCHANGED erasing)
  PROVE  /\ triggered' \in [Calls -> BOOLEAN]
         /\ callback' \in [Calls -> CallbackSteps]
         /\ outcome' \in [Calls -> Outcomes]
         /\ refusals' \in 0 .. MaxRefusals
         /\ erasing' \subseteq Calls
<1>1. /\ triggered \in [Calls -> BOOLEAN]
      /\ callback \in [Calls -> CallbackSteps]
      /\ outcome \in [Calls -> Outcomes]
      /\ refusals \in 0 .. MaxRefusals
      /\ erasing \subseteq Calls
  BY DEF TransmitterTypeOK
<1>2. Verdict(i) \in Outcomes
  BY DEF Verdict, Outcomes
<1>3. refusals' \in 0 .. MaxRefusals
  BY <1>1, TransmitterAssumption DEF try_trigger, try_triggerInTimer
<1>4. triggered' \in [Calls -> BOOLEAN]
  BY <1>1, Zenon DEF try_trigger, try_triggerInTimer
<1>5. callback' \in [Calls -> CallbackSteps]
  <2>1. {"committed", "called", "done"} \subseteq CallbackSteps
    BY DEF CallbackSteps
  <2> QED
    BY <1>1, <2>1 DEF try_trigger, try_triggerInTimer
<1>6. outcome' \in [Calls -> Outcomes]
  BY <1>1, <1>2 DEF try_trigger, try_triggerInTimer
<1>7. erasing' \subseteq Calls
  BY <1>1 DEF try_trigger, try_triggerInTimer
<1> QED
  BY <1>3, <1>4, <1>5, <1>6, <1>7
--------------------------------------------------------------------------------
\* Handling a datagram keeps the client's types and sends what is a datagram.
LEMMA HandleType ==
  ASSUME NetTypeOK, TransmitterTypeOK, NEW m \in FromServer(Data \ {NoData}),
         \/ IgnoreUnknown(m) \/ HearACK(m) \/ HearNothingNew(m) \/ HearReset(m)
         \/ OvertakenACK(m) \/ HearResponsePiece(m)
  PROVE  TransmitterTypeOK' /\ toServer' \subseteq FromClient
<1> DEFINE Typed == TransmitterTypeOK' /\ toServer' \subseteq FromClient
<1> USE PiecesAssumption
<1>1. toServer \subseteq FromClient
  BY DEF NetTypeOK
<1>2. /\ ack_accept \in [Calls -> 0 .. ReqPieces]
      /\ ack_expect \in [Calls -> 0 .. ReqPieces]
      /\ phase \in [Calls -> {"Request", "Response"}]
  BY DEF TransmitterTypeOK
<1>3. CASE IgnoreUnknown(m)
  <2>1. TransmitterTypeOK'
    BY <1>3 DEF IgnoreUnknown, loopVars, taskVars, timerVars, triggerVars, TransmitterTypeOK
  <2> QED
    BY <1>1, <1>3, <2>1 DEF IgnoreUnknown
<1> SUFFICES ASSUME Known(m) PROVE Typed
  BY <1>3 DEF HearACK, HearNothingNew, HearReset, OvertakenACK, HearResponsePiece
<1>4. m.id \in Calls /\ RequestHeartbeat(m.id) \in FromClient
  BY ClientSends DEF Known
<1>5. CASE HearACK(m)
  <2>1. Accepted(m) \in 0 .. ReqPieces
    BY <1>1, <1>5, FromServerFields DEF HearACK, Accepted
  <2>2. ack_accept' \in [Calls -> 0 .. ReqPieces] /\ phase' \in [Calls -> {"Request", "Response"}]
    BY <1>2, <1>4, <1>5, <2>1 DEF HearACK
  <2>3. /\ timeout_time' \in [Calls -> 0 .. try_time + 1]
        /\ responseTimers' \in [Calls -> 0 .. MaxTimers]
    BY <1>4, <1>5, HeardType DEF HearACK
  <2>4. toServer' \subseteq FromClient
    BY <1>1, <1>4, <1>5 DEF HearACK
  <2>5. UNCHANGED <<loopVars, ack_expect, requestTimers, erasing, piece_data, triggerVars>>
    BY <1>5 DEF HearACK
  <2> QED
    BY <2>2, <2>3, <2>4, <2>5 DEF loopVars, triggerVars, TransmitterTypeOK
<1>6. CASE HearNothingNew(m)
  <2>1. /\ timeout_time' \in [Calls -> 0 .. try_time + 1]
        /\ responseTimers' \in [Calls -> 0 .. MaxTimers]
    BY <1>4, <1>6, HeardType DEF HearNothingNew
  <2>2. UNCHANGED <<loopVars, phase, ack_accept, ack_expect, requestTimers, erasing,
                    piece_data, triggerVars, toServer>>
    BY <1>6 DEF HearNothingNew
  <2> QED
    BY <1>1, <2>1, <2>2 DEF loopVars, triggerVars, TransmitterTypeOK
<1>7. CASE HearReset(m)
  <2>1. 0 \in 0 .. ReqPieces
    OBVIOUS
  <2>2. WindowEnd(0) \in 0 .. ReqPieces /\ Window(m.id, 0) \subseteq FromClient
    BY <1>4, <2>1, WindowType
  <2>3. /\ ack_accept' \in [Calls -> 0 .. ReqPieces]
        /\ ack_expect' \in [Calls -> 0 .. ReqPieces]
        /\ toServer' \subseteq FromClient
    BY <1>1, <1>2, <1>4, <1>7, <2>1, <2>2 DEF HearReset
  <2>4. requestTimers' \in [Calls -> [0 .. ReqPieces -> 0 .. MaxTimers]]
    <3>1. requestTimers \in [Calls -> [0 .. ReqPieces -> 0 .. MaxTimers]]
      BY DEF TransmitterTypeOK
    <3>2. OneMore(requestTimers[m.id][0]) \in 0 .. MaxTimers
      BY <1>4, <2>1, <3>1, OneMoreType
    <3> QED
      BY <1>4, <1>7, <2>1, <3>1, <3>2 DEF HearReset
  <2>5. /\ timeout_time' \in [Calls -> 0 .. try_time + 1]
        /\ responseTimers' \in [Calls -> 0 .. MaxTimers]
    BY <1>4, <1>7, HeardType DEF HearReset
  <2>6. UNCHANGED <<loopVars, phase, erasing, piece_data, triggerVars>>
    BY <1>7 DEF HearReset
  <2> QED
    BY <2>3, <2>4, <2>5, <2>6 DEF loopVars, triggerVars, TransmitterTypeOK
<1>8. CASE OvertakenACK(m)
  <2>1. ack_accept' \in [Calls -> 0 .. ReqPieces] /\ phase' \in [Calls -> {"Request", "Response"}]
    BY <1>2, <1>4, <1>8 DEF OvertakenACK
  <2>2. /\ timeout_time' \in [Calls -> 0 .. try_time + 1]
        /\ responseTimers' \in [Calls -> 0 .. MaxTimers]
    BY <1>4, <1>8, HeardType DEF OvertakenACK
  <2>3. UNCHANGED <<loopVars, ack_expect, requestTimers, erasing, piece_data,
                    triggerVars, toServer>>
    BY <1>8 DEF OvertakenACK
  <2> QED
    BY <1>1, <2>1, <2>2, <2>3 DEF loopVars, triggerVars, TransmitterTypeOK
<1>9. CASE HearResponsePiece(m)
  <2> DEFINE pieces == [piece_data EXCEPT ![m.id][m.order] =
                          IF @ = NoData THEN m.data ELSE @]
             ack == getAckNumber(Stored(pieces, m.id), RespPieces)
  <2>1. m.order \in Orders(RespPieces) /\ m.data \in Data
    BY <1>1, <1>9, FromServerFields DEF HearResponsePiece
  <2>2. pieces \in [Calls -> [Orders(RespPieces) -> Data]]
    BY <1>4, <2>1 DEF TransmitterTypeOK
  <2>3. ResponseACK(m.id, ack) \in FromClient
    BY <1>4, AckNumberIsPrefix, ClientSends
  <2>4. /\ piece_data' = pieces
        /\ \/ /\ Heard(m.id)
              /\ isSuccess' = [isSuccess EXCEPT ![m.id] = TRUE]
              /\ toServer' = toServer \cup {ResponseACK(m.id, ack)}
              /\ try_trigger(m.id)
           \/ /\ Awaited(m.id)
              /\ toServer' = toServer \cup {ResponseACK(m.id, ack), RequestHeartbeat(m.id)}
              /\ UNCHANGED <<triggerVars, erasing>>
        /\ UNCHANGED <<loopVars, phase, ack_accept, ack_expect, requestTimers>>
    BY <1>9 DEF HearResponsePiece
  <2> HIDE DEF pieces, ack
  <2>5. /\ timeout_time' \in [Calls -> 0 .. try_time + 1]
        /\ responseTimers' \in [Calls -> 0 .. MaxTimers]
        /\ toServer' \subseteq FromClient
    BY <1>1, <1>4, <2>3, <2>4, HeardType
  <2>6. /\ isSuccess' \in [Calls -> BOOLEAN]
        /\ triggered' \in [Calls -> BOOLEAN]
        /\ callback' \in [Calls -> CallbackSteps]
        /\ outcome' \in [Calls -> Outcomes]
        /\ refusals' \in 0 .. MaxRefusals
        /\ erasing' \subseteq Calls
    <3>1. CASE isSuccess' = [isSuccess EXCEPT ![m.id] = TRUE] /\ try_trigger(m.id)
      <4>1. isSuccess' \in [Calls -> BOOLEAN]
        BY <3>1, Zenon DEF TransmitterTypeOK
      <4> QED
        BY <1>4, <3>1, <4>1, TriggerType
    <3>2. CASE UNCHANGED <<triggerVars, erasing>>
      BY <3>2 DEF triggerVars, TransmitterTypeOK
    <3> QED
      BY <2>4, <3>1, <3>2
  <2> QED
    BY <2>2, <2>4, <2>5, <2>6 DEF loopVars, TransmitterTypeOK
<1> QED
  BY <1>5, <1>6, <1>7, <1>8, <1>9 DEF IgnoreUnknown
--------------------------------------------------------------------------------
\* A timer that is due keeps the types.
LEMMA TimerType ==
  ASSUME NetTypeOK, TransmitterTypeOK, NEW i \in Calls,
         \/ \E a \in 0 .. ReqPieces : timeout_event(i, a) \/ staleTimeout(i, a)
         \/ response_timeout_event(i)
         \/ delete_message(i)
  PROVE  NetTypeOK' /\ TransmitterTypeOK'
<1> DEFINE Typed == NetTypeOK' /\ TransmitterTypeOK'
<1> USE PiecesAssumption, TransmitterAssumption
<1>1. NextPass' \in {"test", "receive"}
  BY DEF NextPass
<1>2. /\ requestTimers \in [Calls -> [0 .. ReqPieces -> 0 .. MaxTimers]]
      /\ responseTimers \in [Calls -> 0 .. MaxTimers]
      /\ timeout_time \in [Calls -> 0 .. try_time + 1]
      /\ isSuccess \in [Calls -> BOOLEAN]
  BY DEF TransmitterTypeOK
<1>3. OneTimeoutMore(i) \in 0 .. try_time + 1
  BY <1>2 DEF OneTimeoutMore
<1>4. /\ RequestACK(i) \in FromClient /\ RequestHeartbeat(i) \in FromClient
      /\ toServer \subseteq FromClient
  BY ClientSends DEF NetTypeOK
<1>5. ASSUME try_triggerInTimer(i), UNCHANGED erasing
      PROVE  /\ triggered' \in [Calls -> BOOLEAN]
             /\ callback' \in [Calls -> CallbackSteps]
             /\ outcome' \in [Calls -> Outcomes]
             /\ refusals' \in 0 .. MaxRefusals
             /\ loopPc' \in {"test", "receive", "stuck"}
  <2>1. loopPc' \in {"test", "receive", "stuck"}
    BY <1>1, <1>5 DEF try_triggerInTimer
  <2> QED
    BY <1>5, <2>1, TriggerType
<1>6. ASSUME NEW a \in 0 .. ReqPieces, timeout_event(i, a)
      PROVE  Typed
  <2>1. timeout_time' \in [Calls -> 0 .. try_time + 1]
    BY <1>2, <1>3, <1>6 DEF timeout_event
  <2>2. UNCHANGED <<run_state, message, phase, ack_accept, ack_expect, responseTimers,
                    erasing, piece_data, toClient, dups, losses>>
    BY <1>6 DEF timeout_event
  <2>3. CASE timeout_time'[i] > try_time
    <3>1. requestTimers' \in [Calls -> [0 .. ReqPieces -> 0 .. MaxTimers]]
      <4>1. requestTimers[i][a] - 1 \in 0 .. MaxTimers
        BY <1>2, <1>6 DEF timeout_event
      <4>2. requestTimers' = [requestTimers EXCEPT ![i][a] = requestTimers[i][a] - 1]
        BY <1>6, <2>3, Zenon DEF timeout_event
      <4> QED
        BY <1>2, <4>1, <4>2
    <3>2. isSuccess' \in [Calls -> BOOLEAN]
      BY <1>2, <1>6, <2>3, Zenon DEF timeout_event
    <3>3. try_triggerInTimer(i) /\ UNCHANGED toServer
      BY <1>6, <2>3 DEF timeout_event
    <3> QED
      BY <1>5, <2>1, <2>2, <3>1, <3>2, <3>3 DEF NetTypeOK, TransmitterTypeOK
  <2>4. CASE ~(timeout_time'[i] > try_time)
    <3>1. /\ toServer' = toServer \cup {RequestACK(i)}
          /\ loopPc' = NextPass'
          /\ UNCHANGED <<requestTimers, triggerVars>>
      BY <1>6, <2>4 DEF timeout_event
    <3> QED
      BY <1>1, <1>4, <2>1, <2>2, <3>1 DEF triggerVars, NetTypeOK, TransmitterTypeOK
  <2> QED
    BY <2>3, <2>4
<1>7. ASSUME NEW a \in 0 .. ReqPieces, staleTimeout(i, a)
      PROVE  Typed
  <2>1. requestTimers' \in [Calls -> [0 .. ReqPieces -> 0 .. MaxTimers]]
    <3>1. requestTimers[i][a] - 1 \in 0 .. MaxTimers
      BY <1>2, <1>7 DEF staleTimeout
    <3> QED
      BY <1>2, <1>7, <3>1 DEF staleTimeout
  <2>2. /\ loopPc' = NextPass'
        /\ UNCHANGED <<run_state, message, taskVars, responseTimers, erasing, piece_data,
                       triggerVars, netVars>>
    BY <1>7 DEF staleTimeout
  <2> QED
    BY <1>1, <2>1, <2>2
    DEF taskVars, triggerVars, netVars, NetTypeOK, TransmitterTypeOK
<1>8. CASE response_timeout_event(i)
  <2>1. timeout_time' \in [Calls -> 0 .. try_time + 1]
    BY <1>2, <1>3, <1>8 DEF response_timeout_event
  <2>2. UNCHANGED <<run_state, message, phase, ack_accept, ack_expect, requestTimers,
                    erasing, piece_data, toClient, dups, losses>>
    BY <1>8 DEF response_timeout_event
  <2>3. CASE timeout_time'[i] > try_time
    <3>1. responseTimers' \in [Calls -> 0 .. MaxTimers]
      <4>1. responseTimers[i] - 1 \in 0 .. MaxTimers
        BY <1>2, <1>8 DEF response_timeout_event
      <4> QED
        BY <1>2, <1>8, <2>3, <4>1 DEF response_timeout_event
    <3>2. isSuccess' \in [Calls -> BOOLEAN]
      BY <1>2, <1>8, <2>3, Zenon DEF response_timeout_event
    <3>3. try_triggerInTimer(i) /\ UNCHANGED toServer
      BY <1>8, <2>3 DEF response_timeout_event
    <3> QED
      BY <1>5, <2>1, <2>2, <3>1, <3>2, <3>3 DEF NetTypeOK, TransmitterTypeOK
  <2>4. CASE ~(timeout_time'[i] > try_time)
    <3>1. /\ toServer' = toServer \cup {RequestHeartbeat(i)}
          /\ loopPc' = NextPass'
          /\ UNCHANGED <<responseTimers, triggerVars>>
      BY <1>8, <2>4 DEF response_timeout_event
    <3> QED
      BY <1>1, <1>4, <2>1, <2>2, <3>1 DEF triggerVars, NetTypeOK, TransmitterTypeOK
  <2> QED
    BY <2>3, <2>4
<1>9. CASE delete_message(i)
  <2>1. /\ message' \in [Calls -> {"new", "queued", "active", "erased"}]
        /\ phase' \in [Calls -> {"Request", "Response"}]
        /\ erasing' \subseteq Calls
    BY <1>9 DEF delete_message, TransmitterTypeOK
  <2>2. /\ ack_accept' \in [Calls -> 0 .. ReqPieces]
        /\ ack_expect' \in [Calls -> 0 .. ReqPieces]
        /\ timeout_time' \in [Calls -> 0 .. try_time + 1]
        /\ responseTimers' \in [Calls -> 0 .. MaxTimers]
    BY <1>9 DEF delete_message, TransmitterTypeOK
  <2>3. requestTimers' \in [Calls -> [0 .. ReqPieces -> 0 .. MaxTimers]]
    <3>1. [a \in 0 .. ReqPieces |-> 0] \in [0 .. ReqPieces -> 0 .. MaxTimers]
      OBVIOUS
    <3> QED
      BY <1>2, <1>9, <3>1 DEF delete_message
  <2>4. /\ loopPc' = NextPass'
        /\ UNCHANGED <<run_state, piece_data, triggerVars, netVars>>
    BY <1>9 DEF delete_message
  <2> QED
    BY <1>1, <2>1, <2>2, <2>3, <2>4 DEF triggerVars, netVars, NetTypeOK, TransmitterTypeOK
<1> QED
  BY <1>6, <1>7, <1>8, <1>9

\* A worker that runs trigger keeps the types.
LEMMA WorkerType ==
  ASSUME TransmitterTypeOK, NEW i \in Calls,
         Decode(i) \/ CallBack(i) \/ Dismiss(i)
  PROVE  TransmitterTypeOK' /\ UNCHANGED netVars
<1> DEFINE kept == <<loopVars, taskVars, requestTimers, responseTimers, piece_data,
                     isSuccess, triggered, refusals>>
<1>1. UNCHANGED kept /\ UNCHANGED netVars
  BY DEF Decode, CallBack, Dismiss, timerVars
<1>2. callback' \in [Calls -> CallbackSteps]
  BY DEF Decode, CallBack, Dismiss, CallbackSteps, TransmitterTypeOK
<1>3. outcome' \in [Calls -> Outcomes]
  <2>1. CASE CallBack(i)
    <3>1. PICK o \in Outcomes : outcome' = [outcome EXCEPT ![i] = o]
      <4>1. CASE ~isSuccess[i]
        BY <2>1, <4>1 DEF CallBack, Outcomes
      <4>2. CASE isSuccess[i] /\ callback[i] = "decoded"
        BY <2>1, <4>2 DEF CallBack, Outcomes
      <4>3. CASE isSuccess[i] /\ callback[i] = "raw"
        BY <2>1, <4>3 DEF CallBack, Outcomes
      <4> QED
        BY <2>1, <4>1, <4>2, <4>3 DEF CallBack
    <3> QED
      BY <3>1 DEF TransmitterTypeOK
  <2>2. CASE Decode(i) \/ Dismiss(i)
    BY <2>2 DEF Decode, Dismiss, TransmitterTypeOK
  <2> QED
    BY <2>1, <2>2
<1>4. erasing' \subseteq Calls
  BY DEF Decode, CallBack, Dismiss, timerVars, TransmitterTypeOK
<1> QED
  BY <1>1, <1>2, <1>3, <1>4 DEF loopVars, taskVars, TransmitterTypeOK

\* The initial state of the client has its types.
LEMMA TransmitterInitType == TransmitterInit => TransmitterTypeOK
<1> USE PiecesAssumption, TransmitterAssumption
<1>1. TransmitterInit => /\ ack_accept \in [Calls -> 0 .. ReqPieces]
                         /\ ack_expect \in [Calls -> 0 .. ReqPieces]
                         /\ timeout_time \in [Calls -> 0 .. try_time + 1]
                         /\ requestTimers \in [Calls -> [0 .. ReqPieces -> 0 .. MaxTimers]]
                         /\ responseTimers \in [Calls -> 0 .. MaxTimers]
                         /\ refusals \in 0 .. MaxRefusals
  BY DEF TransmitterInit
<1>2. TransmitterInit => /\ piece_data \in [Calls -> [Orders(RespPieces) -> Data]]
                         /\ callback \in [Calls -> CallbackSteps]
                         /\ outcome \in [Calls -> Outcomes]
  BY DEF TransmitterInit, Data, NoData, CallbackSteps, Outcomes
<1>3. TransmitterInit => /\ isSuccess \in [Calls -> BOOLEAN]
                         /\ triggered \in [Calls -> BOOLEAN]
  BY DEF TransmitterInit
<1>4. TransmitterInit => /\ message \in [Calls -> {"new", "queued", "active", "erased"}]
                         /\ phase \in [Calls -> {"Request", "Response"}]
                         /\ loopPc = "test" /\ run_state = TRUE /\ erasing = {}
  BY DEF TransmitterInit
<1> QED
  BY <1>1, <1>2, <1>3, <1>4 DEF TransmitterTypeOK

\* So do the callers and the loop between the socket and its timers.
LEMMA PassType ==
  ASSUME NetTypeOK, TransmitterTypeOK,
         \/ \E i \in Calls : send(i)
         \/ stop \/ Park \/ Sleep \/ EndLoop \/ NoTimer
         \/ SendPass
  PROVE  NetTypeOK' /\ TransmitterTypeOK'
<1> USE PiecesAssumption, TransmitterAssumption
<1> DEFINE Typed == NetTypeOK' /\ TransmitterTypeOK'
           others == <<taskVars, timerVars, piece_data, triggerVars>>
<1>1. ASSUME UNCHANGED others, UNCHANGED netVars, run_state' \in BOOLEAN,
             message' \in [Calls -> {"new", "queued", "active", "erased"}],
             loopPc' \in {"test", "parking", "asleep", "receive", "stuck", "ended"}
      PROVE  Typed
  BY <1>1 DEF taskVars, timerVars, triggerVars, netVars, NetTypeOK, TransmitterTypeOK
<1>2. ASSUME NEW i \in Calls, send(i)
      PROVE  Typed
  <2>1. /\ message' \in [Calls -> {"new", "queued", "active", "erased"}]
        /\ loopPc' \in {"test", "parking", "asleep", "receive", "stuck", "ended"}
    BY <1>2 DEF send, Notified, TransmitterTypeOK
  <2> QED
    BY <1>1, <1>2, <2>1 DEF send, TransmitterTypeOK
<1>3. CASE stop \/ Park \/ Sleep \/ EndLoop \/ NoTimer
  <2>1. /\ UNCHANGED others /\ UNCHANGED netVars /\ UNCHANGED message
        /\ run_state' \in BOOLEAN
        /\ loopPc' \in {"test", "parking", "asleep", "receive", "stuck", "ended"}
    BY <1>3 DEF stop, Park, Sleep, EndLoop, NoTimer, Notified, TransmitterTypeOK
  <2> QED
    BY <1>1, <2>1 DEF TransmitterTypeOK
<1>4. CASE SendPass
  <2>1. /\ message \in [Calls -> {"new", "queued", "active", "erased"}]
        /\ ack_accept \in [Calls -> 0 .. ReqPieces]
        /\ ack_expect \in [Calls -> 0 .. ReqPieces]
        /\ requestTimers \in [Calls -> [0 .. ReqPieces -> 0 .. MaxTimers]]
    BY DEF TransmitterTypeOK
  <2>2. toServer' \subseteq FromClient
    <3>1. \A i \in Calls : Window(i, ack_accept[i]) \subseteq FromClient
      BY <2>1, WindowType
    <3>2. toServer' = toServer \cup
            UNION {Window(i, ack_accept[i]) : i \in {j \in Calls : Sends(j)}}
      BY <1>4 DEF SendPass
    <3> QED
      BY <3>1, <3>2 DEF NetTypeOK
  <2>3. message' \in [Calls -> {"new", "queued", "active", "erased"}]
    BY <1>4, <2>1 DEF SendPass
  <2>4. ack_expect' \in [Calls -> 0 .. ReqPieces]
    <3>1. \A i \in Calls : WindowEnd(ack_accept[i]) \in 0 .. ReqPieces
      BY <2>1, WindowType
    <3> QED
      BY <1>4, <2>1, <3>1 DEF SendPass
  <2>5. requestTimers' \in [Calls -> [0 .. ReqPieces -> 0 .. MaxTimers]]
    <3>1. ASSUME NEW i \in Calls
          PROVE  SetRequestTimer(i, ack_accept[i]) \in [0 .. ReqPieces -> 0 .. MaxTimers]
      <4>1. OneMore(requestTimers[i][ack_accept[i]]) \in 0 .. MaxTimers
        <5>1. requestTimers[i][ack_accept[i]] \in 0 .. MaxTimers
          BY <2>1
        <5> QED
          BY <5>1, OneMoreType
      <4> QED
        BY <2>1, <4>1 DEF SetRequestTimer
    <3> QED
      BY <1>4, <2>1, <3>1 DEF SendPass
  <2>6. /\ loopPc' = "receive"
        /\ UNCHANGED <<run_state, phase, ack_accept, timeout_time, responseTimers, erasing,
                       piece_data, triggerVars, toClient, dups, losses>>
    BY <1>4 DEF SendPass
  <2> QED
    BY <2>2, <2>3, <2>4, <2>5, <2>6 DEF triggerVars, NetTypeOK, TransmitterTypeOK
<1> QED
  BY <1>2, <1>3, <1>4

\* A step of the client keeps the types.
LEMMA TransmitterTypeStep ==
  ASSUME NetTypeOK, TransmitterTypeOK, TransmitterNext
  PROVE  NetTypeOK' /\ TransmitterTypeOK'
<1> DEFINE Typed == NetTypeOK' /\ TransmitterTypeOK'
<1>1. ASSUME NEW m \in toClient, TransmitterReceive(m)
      PROVE  Typed
  <2>1. /\ toClient' \subseteq toClient /\ dups' \in 0 .. MaxDups /\ losses' = losses
        /\ m \in FromServer(Data \ {NoData})
    BY <1>1, TakeType DEF TransmitterReceive, NetTypeOK
  <2>2. TransmitterTypeOK' /\ toServer' \subseteq FromClient
    BY <1>1, <2>1, HandleType DEF TransmitterReceive
  <2> QED
    BY <2>1, <2>2 DEF NetTypeOK
<1>2. CASE TimesOut
  BY <1>2, TimerType DEF TimesOut
<1>3. ASSUME NEW i \in Calls,
             (\E a \in 0 .. ReqPieces : staleTimeout(i, a)) \/ delete_message(i)
      PROVE  Typed
  BY <1>3, TimerType
<1>4. ASSUME NEW i \in Calls, Decode(i) \/ CallBack(i) \/ Dismiss(i)
      PROVE  Typed
  BY <1>4, WorkerType DEF netVars, NetTypeOK
<1> QED
  BY <1>1, <1>2, <1>3, <1>4, PassType DEF TransmitterNext, Proceeds
--------------------------------------------------------------------------------
(***************************************************************************)
(* The steps of the two ends.  H holds the datagrams that the loop may     *)
(* hand to the handlers: the Transmitter's are on their way, those of the  *)
(* TransmitterLinkReactor wait in its queue.                               *)
(***************************************************************************)

\* The handlers of the datagrams of a message in the map.
Hears(m) ==
  HearACK(m) \/ HearNothingNew(m) \/ HearReset(m) \/ OvertakenACK(m) \/ HearResponsePiece(m)

\* A timer of message i.
TimerRuns(i) ==
  \/ \E a \in 0 .. ReqPieces : timeout_event(i, a) \/ staleTimeout(i, a)
  \/ response_timeout_event(i)
  \/ delete_message(i)

\* A worker that runs trigger for message i.
Works(i) == Decode(i) \/ CallBack(i) \/ Dismiss(i)

\* Nothing but the place of the loop changes, or a datagram is lost.
Rests ==
  /\ UNCHANGED <<message, taskVars, timerVars, piece_data, triggerVars>>
  /\ toServer' \subseteq toServer

ClientMoves(H) ==
  \/ \E i \in Calls : send(i)
  \/ SendPass
  \/ \E m \in H : Hears(m)
  \/ \E i \in Calls : TimerRuns(i)
  \/ \E i \in Calls : Works(i)
  \/ Rests

EndsStep(H) ==
  \/ ClientMoves(H) /\ toClient' \subseteq toClient /\ UNCHANGED serverVars
  \/ SubReactorNext /\ UNCHANGED clientVars

EndsTyped == NetTypeOK /\ TransmitterTypeOK /\ SubReactorTypeOK

\* A step of the Transmitter is one of these.
LEMMA TransmitterMoves ==
  ASSUME NetTypeOK, TransmitterNext
  PROVE  ClientMoves(toClient) /\ toClient' \subseteq toClient
<1> DEFINE Goal == ClientMoves(toClient) /\ toClient' \subseteq toClient
<1>1. ASSUME NEW i \in Calls, send(i) PROVE Goal
  BY <1>1 DEF send, netVars, ClientMoves
<1>2. CASE stop \/ Park \/ Sleep \/ EndLoop \/ NoTimer
  BY <1>2 DEF stop, Park, Sleep, EndLoop, NoTimer, netVars, Rests, ClientMoves
<1>3. CASE SendPass
  BY <1>3 DEF SendPass, ClientMoves
<1>4. ASSUME NEW m \in toClient, TransmitterReceive(m) PROVE Goal
  <2>1. toClient' \subseteq toClient
    BY <1>4, TakeType DEF TransmitterReceive, NetTypeOK
  <2>2. IgnoreUnknown(m) => Rests
    BY DEF IgnoreUnknown, Rests, loopVars
  <2> QED
    BY <1>4, <2>1, <2>2 DEF TransmitterReceive, Hears, ClientMoves
<1>5. ASSUME NEW i \in Calls, TimerRuns(i) PROVE Goal
  <2>1. UNCHANGED toClient
    BY <1>5 DEF TimerRuns, timeout_event, staleTimeout, response_timeout_event, delete_message,
                netVars
  <2> QED
    BY <1>5, <2>1 DEF ClientMoves
<1>6. ASSUME NEW i \in Calls, Works(i) PROVE Goal
  <2>1. UNCHANGED toClient
    BY <1>6 DEF Works, Decode, CallBack, Dismiss, netVars
  <2> QED
    BY <1>6, <2>1 DEF ClientMoves
<1> QED
  BY <1>1, <1>2, <1>3, <1>4, <1>5, <1>6
  DEF TransmitterNext, Proceeds, TimesOut, TimerRuns, Works

\* A step in which both ends rest is one too.
LEMMA BothRest ==
  ASSUME NEW H, UNCHANGED <<clientVars, serverVars>>, toServer' \subseteq toServer,
         toClient' \subseteq toClient
  PROVE  EndsStep(H)
BY DEF EndsStep, ClientMoves, Rests, clientVars, loopVars

--------------------------------------------------------------------------------
\* The steps that leave the callbacks alone, and those that move the one of i.
CallbacksStill ==
  UNCHANGED <<triggered, callback, outcome>> /\ erasing' \subseteq erasing
CallbackMoves(i) ==
  \/ try_trigger(i)
  \/ try_triggerInTimer(i) /\ UNCHANGED erasing
  \/ Works(i)

\* Only try_trigger and the worker's steps move a callback.
LEMMA TriggerCases ==
  ASSUME NEW H, ClientMoves(H)
  PROVE  CallbacksStill \/ \E i \in Calls : CallbackMoves(i)
<1>1. ASSUME NEW i \in Calls, send(i) PROVE CallbacksStill
  BY <1>1 DEF CallbacksStill, send, timerVars, triggerVars
<1>2. CASE Rests
  BY <1>2 DEF CallbacksStill, Rests, timerVars, triggerVars
<1>3. CASE SendPass
  BY <1>3 DEF CallbacksStill, SendPass, triggerVars
<1>4. ASSUME NEW m \in H, Hears(m)
      PROVE  CallbacksStill \/ \E i \in Calls : CallbackMoves(i)
  <2>1. CASE HearACK(m) \/ HearNothingNew(m) \/ HearReset(m) \/ OvertakenACK(m)
    BY <2>1 DEF CallbacksStill, HearACK, HearNothingNew, HearReset, OvertakenACK,
                timerVars, triggerVars
  <2>2. CASE HearResponsePiece(m)
    <3>1. m.id \in Calls /\ (try_trigger(m.id) \/ UNCHANGED <<triggerVars, erasing>>)
      BY <2>2 DEF HearResponsePiece, Known
    <3> QED
      BY <3>1 DEF CallbacksStill, CallbackMoves, triggerVars
  <2> QED
    BY <1>4, <2>1, <2>2 DEF Hears
<1>5. ASSUME NEW i \in Calls, NEW a \in 0 .. ReqPieces, timeout_event(i, a)
      PROVE  CallbacksStill \/ CallbackMoves(i)
  BY <1>5 DEF CallbacksStill, CallbackMoves, timeout_event, triggerVars
<1>6. ASSUME NEW i \in Calls, response_timeout_event(i)
      PROVE  CallbacksStill \/ CallbackMoves(i)
  BY <1>6 DEF CallbacksStill, CallbackMoves, response_timeout_event, triggerVars
<1>7. ASSUME NEW i \in Calls,
             (\E a \in 0 .. ReqPieces : staleTimeout(i, a)) \/ delete_message(i)
      PROVE  CallbacksStill
  BY <1>7 DEF CallbacksStill, staleTimeout, delete_message, triggerVars
<1> QED
  BY <1>1, <1>2, <1>3, <1>4, <1>5, <1>6, <1>7 DEF ClientMoves, TimerRuns, CallbackMoves

\* What a step of the client does to the callback of message j.
LEMMA CallbackStep ==
  ASSUME NEW H, TransmitterTypeOK, CallbackInv, ClientMoves(H), NEW j \in Calls
  PROVE  /\ callback'[j] # "none" => triggered'[j]
         /\ callback[j] \in {"called", "done"} =>
              callback'[j] \in {"called", "done"} /\ outcome'[j] = outcome[j]
         /\ callback[j] = "done" => callback'[j] = "done"
         /\ callback'[j] \in {"called", "done"} => outcome'[j] # "none"
         /\ j \in erasing' => callback'[j] = "done"
<1>1. /\ callback[j] # "none" => triggered[j]
      /\ callback[j] \in {"called", "done"} => outcome[j] # "none"
      /\ j \in erasing => callback[j] = "done"
  BY DEF CallbackInv
<1>2. /\ triggered \in [Calls -> BOOLEAN]
      /\ callback \in [Calls -> CallbackSteps]
      /\ outcome \in [Calls -> Outcomes]
  BY DEF TransmitterTypeOK
<1>3. CASE UNCHANGED <<triggered, callback, outcome>> /\ erasing' \subseteq erasing
  BY <1>1, <1>3
<1>4. ASSUME NEW i \in Calls,
             try_trigger(i) \/ (try_triggerInTimer(i) /\ UNCHANGED erasing)
      PROVE  \/ UNCHANGED <<triggered, callback, outcome>> /\ erasing' \subseteq erasing
             \/ /\ ~triggered[i]
                /\ triggered' = [triggered EXCEPT ![i] = TRUE]
                /\ \/ /\ callback' = [callback EXCEPT ![i] = "committed"]
                      /\ UNCHANGED <<outcome, erasing>>
                   \/ /\ callback' = [callback EXCEPT ![i] = "done"]
                      /\ outcome' = [outcome EXCEPT ![i] = Verdict(i)]
                      /\ erasing' = erasing \cup {i}
                   \/ /\ callback' = [callback EXCEPT ![i] = "called"]
                      /\ outcome' = [outcome EXCEPT ![i] = Verdict(i)]
                      /\ UNCHANGED erasing
  BY <1>4, Zenon DEF try_trigger, try_triggerInTimer, NotTriggered
<1>5. ASSUME NEW i \in Calls, ~triggered[i],
             triggered' = [triggered EXCEPT ![i] = TRUE],
             \/ /\ callback' = [callback EXCEPT ![i] = "committed"]
                /\ UNCHANGED <<outcome, erasing>>
             \/ /\ callback' = [callback EXCEPT ![i] = "done"]
                /\ outcome' = [outcome EXCEPT ![i] = Verdict(i)]
                /\ erasing' = erasing \cup {i}
             \/ /\ callback' = [callback EXCEPT ![i] = "called"]
                /\ outcome' = [outcome EXCEPT ![i] = Verdict(i)]
                /\ UNCHANGED erasing
      PROVE  /\ callback'[j] # "none" => triggered'[j]
             /\ callback[j] \in {"called", "done"} =>
                  callback'[j] \in {"called", "done"} /\ outcome'[j] = outcome[j]
             /\ callback[j] = "done" => callback'[j] = "done"
             /\ callback'[j] \in {"called", "done"} => outcome'[j] # "none"
             /\ j \in erasing' => callback'[j] = "done"
  <2>1. Verdict(i) # "none"
    BY DEF Verdict
  <2>2. CASE j = i
    <3>1. triggered'[j] /\ callback[j] = "none"
      BY <1>1, <1>2, <1>5, <2>2, Zenon
    <3>2. j \notin erasing
      BY <1>1, <3>1
    <3> QED
      BY <1>2, <1>5, <2>1, <2>2, <3>1, <3>2
  <2>3. CASE j # i
    <3>1. triggered'[j] = triggered[j]
      BY <1>2, <1>5, <2>3, Zenon
    <3>2. /\ callback'[j] = callback[j] /\ outcome'[j] = outcome[j]
          /\ j \in erasing' => j \in erasing
      BY <1>2, <1>5, <2>3
    <3> QED
      BY <1>1, <3>1, <3>2, Zenon
  <2> QED
    BY <2>2, <2>3
<1>6. ASSUME NEW i \in Calls, Decode(i) \/ CallBack(i) \/ Dismiss(i)
      PROVE  /\ callback'[j] # "none" => triggered'[j]
             /\ callback[j] \in {"called", "done"} =>
                  callback'[j] \in {"called", "done"} /\ outcome'[j] = outcome[j]
             /\ callback[j] = "done" => callback'[j] = "done"
             /\ callback'[j] \in {"called", "done"} => outcome'[j] # "none"
             /\ j \in erasing' => callback'[j] = "done"
  <2>1. triggered' = triggered /\ callback[i] # "none"
    BY <1>6 DEF Decode, CallBack, Dismiss
  <2>2. callback'[j] # "none" => triggered'[j]
    <3>1. callback[j] = "none" => callback'[j] = "none"
      BY <1>2, <1>6, <2>1 DEF Decode, CallBack, Dismiss
    <3> QED
      BY <1>1, <2>1, <3>1, Zenon
  <2>3. CASE Decode(i)
    BY <1>1, <1>2, <2>2, <2>3 DEF Decode, timerVars
  <2>4. CASE CallBack(i)
    BY <1>1, <1>2, <2>2, <2>4 DEF CallBack, timerVars
  <2>5. CASE Dismiss(i)
    BY <1>1, <1>2, <2>2, <2>5 DEF Dismiss
  <2> QED
    BY <1>6, <2>3, <2>4, <2>5
<1> QED
  BY <1>3, <1>4, <1>5, <1>6, TriggerCases DEF CallbacksStill, CallbackMoves, Works

\* Only delete_message erases, nothing that is erased comes back, and run_state is

\* Only delete_message erases, and nothing that is erased comes back.
LEMMA MessageStep ==
  ASSUME NEW H, TransmitterTypeOK, ClientMoves(H)
  PROVE  /\ \A j \in Calls : message'[j] = "erased" => message[j] = "erased" \/ j \in erasing
         /\ \A j \in Calls : message[j] = "erased" => message'[j] = "erased"
<1> DEFINE Goal == /\ \A j \in Calls : message'[j] = "erased" => message[j] = "erased" \/ j \in erasing
                   /\ \A j \in Calls : message[j] = "erased" => message'[j] = "erased"
<1>1. message \in [Calls -> {"new", "queued", "active", "erased"}]
  BY DEF TransmitterTypeOK
<1>2. ASSUME NEW i \in Calls, send(i) PROVE Goal
  BY <1>1, <1>2 DEF send
<1>3. CASE Rests
  BY <1>3 DEF Rests
<1>4. CASE SendPass
  BY <1>1, <1>4 DEF SendPass
<1>5. ASSUME NEW m \in H, Hears(m) PROVE Goal
  <2>1. UNCHANGED loopVars
    BY <1>5 DEF Hears, HearACK, HearNothingNew, HearReset, OvertakenACK, HearResponsePiece
  <2> QED
    BY <2>1 DEF loopVars
<1>6. ASSUME NEW i \in Calls, TimerRuns(i), ~delete_message(i) PROVE Goal
  BY <1>6 DEF TimerRuns, timeout_event, response_timeout_event, staleTimeout
<1>7. ASSUME NEW i \in Calls, delete_message(i) PROVE Goal
  BY <1>1, <1>7 DEF delete_message
<1>8. ASSUME NEW i \in Calls, Works(i) PROVE Goal
  BY <1>8 DEF Works, Decode, CallBack, Dismiss, loopVars
<1> QED
  BY <1>2, <1>3, <1>4, <1>5, <1>6, <1>7, <1>8 DEF ClientMoves

\* Every step of the client keeps CallbackInv.
LEMMA CallbackInvStep ==
  ASSUME NEW H, TransmitterTypeOK, TransmitterTypeOK', CallbackInv, ClientMoves(H)
  PROVE  CallbackInv'
<1>1. /\ \A i \in Calls : callback'[i] # "none" => triggered'[i]
      /\ \A i \in Calls : callback'[i] \in {"called", "done"} => outcome'[i] # "none"
      /\ \A i \in erasing' : callback'[i] = "done"
  BY CallbackStep DEF TransmitterTypeOK
<1>2. \A i \in Calls : message'[i] = "erased" => callback'[i] = "done"
  BY CallbackStep, MessageStep DEF CallbackInv
<1> QED
  BY <1>1, <1>2, Zenon DEF CallbackInv

--------------------------------------------------------------------------------
\* What a step that does not concern message j leaves alone: response timers may
\* go stale, and it may be triggered.
Quiet(j) ==
  /\ message'[j] = message[j] /\ phase'[j] = phase[j]
  /\ ack_accept'[j] = ack_accept[j] /\ ack_expect'[j] = ack_expect[j]
  /\ timeout_time'[j] = timeout_time[j] /\ requestTimers'[j] = requestTimers[j]
  /\ responseTimers'[j] \in {0, responseTimers[j]}
  /\ triggered[j] => triggered'[j]

LEMMA QuietKeepsClock ==
  ASSUME NEW j \in Calls, Clocked(j), Quiet(j)
  PROVE  Clocked(j)'
<1>1. Acknowledged(j)' <=> Acknowledged(j)
  BY DEF Quiet, Acknowledged
<1>2. responseTimers'[j] > 0 => responseTimers[j] > 0
  BY DEF Quiet
<1> QED
  BY <1>1, <1>2 DEF Quiet, Clocked

\* try_trigger marks its message and no other, and never takes the mark back.
LEMMA TriggerMarks ==
  ASSUME TransmitterTypeOK, NEW i \in Calls, try_trigger(i) \/ try_triggerInTimer(i)
  PROVE  triggered'[i] /\ \A j \in Calls : triggered[j] => triggered'[j]
<1>1. triggered \in [Calls -> BOOLEAN]
  BY DEF TransmitterTypeOK
<1> QED
  BY <1>1, Zenon DEF try_trigger, try_triggerInTimer, NotTriggered

\* Heard and Awaited concern one message.
LEMMA HeardClock ==
  ASSUME TransmitterTypeOK, NEW i \in Calls, Heard(i) \/ Awaited(i)
  PROVE  /\ Heard(i) => /\ timeout_time'[i] = 0
                        /\ responseTimers'[i] \in {0, responseTimers[i]}
         /\ \A j \in Calls : j # i => /\ timeout_time'[j] = timeout_time[j]
                                      /\ responseTimers'[j] = responseTimers[j]
<1>1. /\ timeout_time \in [Calls -> 0 .. try_time + 1]
      /\ responseTimers \in [Calls -> 0 .. MaxTimers]
  BY DEF TransmitterTypeOK
<1> QED
  BY <1>1 DEF Heard, Awaited

\* No datagram stops the clock of a message that is still being sent.
LEMMA HandleKeepsClock ==
  ASSUME TransmitterTypeOK, NEW m \in FromServer(Data \ {NoData}), NEW j \in Calls, Clocked(j),
         Hears(m)
  PROVE  Clocked(j)'
<1> USE PiecesAssumption, TransmitterAssumption
<1>1. getSendCount(ReqPieces) \in Nat \ {0}
  BY SendCountIsPositive
<1>2. /\ ack_accept \in [Calls -> 0 .. ReqPieces]
      /\ ack_expect \in [Calls -> 0 .. ReqPieces]
      /\ phase \in [Calls -> {"Request", "Response"}]
      /\ timeout_time \in [Calls -> 0 .. try_time + 1]
      /\ responseTimers \in [Calls -> 0 .. MaxTimers]
      /\ requestTimers \in [Calls -> [0 .. ReqPieces -> 0 .. MaxTimers]]
  BY DEF TransmitterTypeOK
<1>3. Known(m)
  BY DEF Hears, HearACK, HearNothingNew, HearReset, OvertakenACK, HearResponsePiece
<1>4. m.id \in Calls
  BY <1>3 DEF Known
<1>5. CASE HearACK(m)
  <2>1. /\ Accepted(m) \in 0 .. ReqPieces /\ Accepted(m) > ack_accept[m.id]
        /\ ack_accept' = [ack_accept EXCEPT ![m.id] = Accepted(m)]
        /\ UNCHANGED <<loopVars, ack_expect, requestTimers, triggerVars>>
    BY <1>1, <1>5, FromServerFields DEF HearACK, Accepted
  <2>2. \/ Accepted(m) = ReqPieces /\ phase' = [phase EXCEPT ![m.id] = "Response"] /\ Awaited(m.id)
        \/ Accepted(m) # ReqPieces /\ phase' = phase /\ Heard(m.id)
    BY <1>5 DEF HearACK
  <2>3. CASE j # m.id
    <3>1. timeout_time'[j] = timeout_time[j] /\ responseTimers'[j] = responseTimers[j]
      BY <1>4, <2>2, <2>3, HeardClock
    <3> QED
      BY <1>2, <1>4, <2>1, <2>2, <2>3, <3>1, QuietKeepsClock DEF Quiet, loopVars, triggerVars
  <2>4. CASE j = m.id /\ Accepted(m) = ReqPieces
    <3>1. /\ phase'[j] = "Response" /\ ack_accept'[j] = ReqPieces
          /\ ack_expect'[j] = ack_expect[j]
      BY <1>2, <1>4, <2>1, <2>2, <2>4
    <3>2. ack_expect[j] <= ReqPieces + getSendCount(ReqPieces)
      BY <1>1, <1>2
    <3> QED
      BY <3>1, <3>2 DEF Clocked
  <2>5. CASE j = m.id /\ Accepted(m) # ReqPieces
    <3>1. timeout_time'[j] = 0 /\ responseTimers'[j] \in {0, responseTimers[j]}
      BY <1>4, <2>2, <2>5, HeardClock
    <3>2. /\ ack_accept'[j] = Accepted(m) /\ ack_expect'[j] = ack_expect[j]
          /\ ack_accept[j] \in 0 .. ReqPieces /\ ack_expect[j] \in 0 .. ReqPieces
          /\ phase'[j] = phase[j]
      BY <1>2, <1>4, <2>1, <2>2, <2>5
    <3>3. Acknowledged(j)'
      BY <1>1, <2>1, <2>5, <3>2 DEF Clocked, Acknowledged
    <3>4. responseTimers'[j] > 0 => phase'[j] = "Response"
      BY <1>2, <3>1, <3>2 DEF Clocked
    <3> QED
      BY <1>1, <2>1, <2>5, <3>1, <3>2, <3>3, <3>4 DEF Clocked
  <2> QED
    BY <2>3, <2>4, <2>5
<1>6. CASE HearNothingNew(m)
  <2>1. UNCHANGED <<loopVars, phase, ack_accept, ack_expect, requestTimers, triggerVars>> /\ Heard(m.id)
    BY <1>6 DEF HearNothingNew
  <2>2. CASE j # m.id
    BY <1>4, <2>1, <2>2, HeardClock, QuietKeepsClock DEF Quiet, loopVars, triggerVars
  <2>3. CASE j = m.id
    <3>1. timeout_time'[j] = 0 /\ responseTimers'[j] \in {0, responseTimers[j]}
      BY <1>4, <2>1, <2>3, HeardClock
    <3>2. Acknowledged(j)' <=> Acknowledged(j)
      BY <2>1 DEF Acknowledged
    <3>3. responseTimers'[j] > 0 => phase'[j] = "Response"
      BY <1>2, <2>1, <3>1 DEF Clocked
    <3>4. UNCHANGED <<message, triggered>>
      BY <2>1 DEF loopVars, triggerVars
    <3> QED
      BY <2>1, <3>1, <3>2, <3>3, <3>4 DEF Clocked
  <2> QED
    BY <2>2, <2>3
<1>7. CASE HearReset(m)
  <2>1. /\ ack_accept' = [ack_accept EXCEPT ![m.id] = 0]
        /\ ack_expect' = [ack_expect EXCEPT ![m.id] = WindowEnd(0)]
        /\ requestTimers' = [requestTimers EXCEPT ![m.id][0] = OneMore(@)]
        /\ UNCHANGED <<loopVars, phase, triggerVars>>
        /\ Heard(m.id)
    BY <1>7 DEF HearReset
  <2>2. CASE j # m.id
    BY <1>2, <1>4, <2>1, <2>2, HeardClock, QuietKeepsClock DEF Quiet, loopVars, triggerVars
  <2>3. CASE j = m.id
    <3>1. 0 \in 0 .. ReqPieces
      OBVIOUS
    <3>2. ack_accept'[j] = 0 /\ ack_expect'[j] = WindowEnd(0) /\ phase'[j] = phase[j]
      BY <1>2, <1>4, <2>1, <2>3
    <3>3. WindowEnd(0) <= 0 + getSendCount(ReqPieces)
      BY <1>4, <3>1, WindowType
    <3>4. requestTimers'[j][0] > 0
      <4>1. OneMore(requestTimers[j][0]) \in 1 .. MaxTimers
        BY <1>2, <3>1, OneMoreType
      <4> QED
        BY <1>2, <1>4, <2>1, <2>3, <3>1, <4>1
    <3>5. responseTimers'[j] > 0 => phase'[j] = "Response"
      <4>1. responseTimers'[j] \in {0, responseTimers[j]}
        BY <1>4, <2>1, <2>3, HeardClock
      <4> QED
        BY <1>2, <3>2, <4>1 DEF Clocked
    <3> QED
      BY <3>2, <3>3, <3>4, <3>5 DEF Clocked
  <2> QED
    BY <2>2, <2>3
<1>8. CASE OvertakenACK(m)
  <2>1. /\ phase' = [phase EXCEPT ![m.id] = "Response"]
        /\ ack_accept' = [ack_accept EXCEPT ![m.id] = ReqPieces]
        /\ UNCHANGED <<loopVars, ack_expect, requestTimers, triggerVars>>
        /\ Heard(m.id)
    BY <1>8 DEF OvertakenACK
  <2>2. CASE j # m.id
    BY <1>2, <1>4, <2>1, <2>2, HeardClock, QuietKeepsClock DEF Quiet, loopVars, triggerVars
  <2>3. CASE j = m.id
    BY <1>1, <1>2, <2>1, <2>3 DEF Clocked
  <2> QED
    BY <2>2, <2>3
<1>9. CASE HearResponsePiece(m)
  <2>1. /\ UNCHANGED <<loopVars, phase, ack_accept, ack_expect, requestTimers>>
        /\ Heard(m.id) \/ Awaited(m.id)
        /\ phase[m.id] = "Response"
        /\ try_trigger(m.id) \/ UNCHANGED triggerVars
    BY <1>9 DEF HearResponsePiece
  <2>2. \A k \in Calls : triggered[k] => triggered'[k]
    BY <1>4, <2>1, TriggerMarks DEF triggerVars
  <2>3. CASE j # m.id
    BY <1>4, <2>1, <2>2, <2>3, HeardClock, QuietKeepsClock DEF Quiet, loopVars
  <2>4. CASE j = m.id
    BY <2>1, <2>4 DEF Clocked
  <2> QED
    BY <2>3, <2>4
<1> QED
  BY <1>5, <1>6, <1>7, <1>8, <1>9 DEF Hears

\* No timer stops the clock of a message that is still being sent.
LEMMA TimerKeepsClock ==
  ASSUME TransmitterTypeOK, NEW i \in Calls, NEW j \in Calls, Clocked(j),
         TimerRuns(i)
  PROVE  Clocked(j)'
<1> USE PiecesAssumption, TransmitterAssumption
<1>1. /\ ack_accept \in [Calls -> 0 .. ReqPieces]
      /\ ack_expect \in [Calls -> 0 .. ReqPieces]
      /\ phase \in [Calls -> {"Request", "Response"}]
      /\ message \in [Calls -> {"new", "queued", "active", "erased"}]
      /\ timeout_time \in [Calls -> 0 .. try_time + 1]
      /\ responseTimers \in [Calls -> 0 .. MaxTimers]
      /\ requestTimers \in [Calls -> [0 .. ReqPieces -> 0 .. MaxTimers]]
      /\ getSendCount(ReqPieces) \in Nat \ {0}
  BY SendCountIsPositive DEF TransmitterTypeOK
<1>2. ASSUME NEW a \in 0 .. ReqPieces, timeout_event(i, a)
      PROVE  Clocked(j)'
  <2>1. /\ requestTimers[i][a] > 0 /\ ack_accept[i] = a
        /\ UNCHANGED <<message, phase, ack_accept, ack_expect, responseTimers>>
        /\ timeout_time' = [timeout_time EXCEPT ![i] = OneTimeoutMore(i)]
        /\ \/ /\ requestTimers' = [requestTimers EXCEPT ![i][a] = @ - 1]
              /\ try_triggerInTimer(i)
           \/ UNCHANGED <<requestTimers, triggerVars>>
    BY <1>2 DEF timeout_event
  <2>2. \A k \in Calls : triggered[k] => triggered'[k]
    BY <2>1, TriggerMarks DEF triggerVars
  <2>3. CASE j # i
    BY <1>1, <2>1, <2>2, <2>3, QuietKeepsClock DEF Quiet
  <2>4. CASE j = i /\ try_triggerInTimer(i)
    BY <1>1, <2>1, <2>4, TriggerMarks DEF Clocked
  <2>5. CASE j = i /\ UNCHANGED <<requestTimers, triggerVars>>
    BY <1>1, <2>1, <2>5 DEF Clocked
  <2> QED
    BY <2>1, <2>3, <2>4, <2>5
<1>3. ASSUME NEW a \in 0 .. ReqPieces, staleTimeout(i, a)
      PROVE  Clocked(j)'
  <2>1. /\ ack_accept[i] # a \/ a = ReqPieces
        /\ requestTimers' = [requestTimers EXCEPT ![i][a] = @ - 1]
        /\ UNCHANGED <<message, taskVars, responseTimers, triggerVars>>
    BY <1>3 DEF staleTimeout
  <2>2. CASE j # i
    BY <1>1, <2>1, <2>2, QuietKeepsClock DEF Quiet, taskVars, triggerVars
  <2>3. CASE j = i
    <3>1. phase[i] = "Request" => requestTimers'[i][ack_accept[i]] = requestTimers[i][ack_accept[i]]
      BY <1>1, <2>1, <2>3 DEF Clocked
    <3>2. Acknowledged(j)' <=> Acknowledged(j)
      BY <2>1 DEF Acknowledged, taskVars
    <3> QED
      BY <2>1, <2>3, <3>1, <3>2 DEF Clocked, taskVars, triggerVars
  <2> QED
    BY <2>2, <2>3
<1>4. CASE response_timeout_event(i)
  <2>1. /\ responseTimers[i] > 0
        /\ UNCHANGED <<message, phase, ack_accept, ack_expect, requestTimers>>
        /\ timeout_time' = [timeout_time EXCEPT ![i] = OneTimeoutMore(i)]
        /\ \/ /\ responseTimers' = [responseTimers EXCEPT ![i] = @ - 1]
              /\ try_triggerInTimer(i)
           \/ UNCHANGED <<responseTimers, triggerVars>>
    BY <1>4 DEF response_timeout_event
  <2>2. \A k \in Calls : triggered[k] => triggered'[k]
    BY <2>1, TriggerMarks DEF triggerVars
  <2>3. CASE j # i
    BY <1>1, <2>1, <2>2, <2>3, QuietKeepsClock DEF Quiet
  <2>4. CASE j = i
    BY <1>1, <2>1, <2>4 DEF Clocked
  <2> QED
    BY <2>3, <2>4
<1>5. CASE delete_message(i)
  <2>1. CASE j # i
    BY <1>1, <1>5, <2>1, QuietKeepsClock DEF delete_message, Quiet, triggerVars
  <2>2. CASE j = i
    BY <1>1, <1>5, <2>2 DEF delete_message, Clocked
  <2> QED
    BY <2>1, <2>2
<1> QED
  BY <1>2, <1>3, <1>4, <1>5 DEF TimerRuns

\* A pass of the loop gives every window it sends a timer.
LEMMA SendPassKeepsClock ==
  ASSUME TransmitterTypeOK, NEW j \in Calls, Clocked(j), SendPass
  PROVE  Clocked(j)'
<1> USE PiecesAssumption, TransmitterAssumption
<1>1. /\ message \in [Calls -> {"new", "queued", "active", "erased"}]
      /\ ack_accept[j] \in 0 .. ReqPieces /\ ack_expect[j] \in 0 .. ReqPieces
      /\ requestTimers[j] \in [0 .. ReqPieces -> 0 .. MaxTimers]
      /\ getSendCount(ReqPieces) \in Nat \ {0}
  BY SendCountIsPositive DEF TransmitterTypeOK
<1>2. /\ message'[j] = IF message[j] = "queued" THEN "active" ELSE message[j]
      /\ ack_expect'[j] = IF Sends(j) THEN WindowEnd(ack_accept[j]) ELSE ack_expect[j]
      /\ requestTimers'[j] = IF Sends(j) THEN SetRequestTimer(j, ack_accept[j])
                                         ELSE requestTimers[j]
      /\ UNCHANGED <<phase, ack_accept, timeout_time, responseTimers, triggered>>
  BY DEF SendPass, triggerVars
<1>3. CASE Sends(j)
  <2>1. WindowEnd(ack_accept[j]) <= ack_accept[j] + getSendCount(ReqPieces)
    BY <1>1, WindowType
  <2>2. requestTimers'[j][ack_accept[j]] > 0
    <3>1. OneMore(requestTimers[j][ack_accept[j]]) \in 1 .. MaxTimers
      BY <1>1, OneMoreType
    <3> QED
      BY <1>1, <1>2, <1>3, <3>1 DEF SetRequestTimer
  <2> QED
    BY <1>2, <1>3, <2>1, <2>2 DEF Clocked
<1>4. CASE ~Sends(j)
  <2>1. message[j] # "queued"
    BY <1>4 DEF Sends
  <2> QED
    BY <1>2, <1>4, <2>1, QuietKeepsClock DEF Quiet
<1> QED
  BY <1>3, <1>4

\* No step of the two ends does.
LEMMA ClockStep ==
  ASSUME NEW H, H \subseteq FromServer(Data \ {NoData}), EndsTyped, ClockInv, EndsStep(H)
  PROVE  ClockInv'
<1> SUFFICES ASSUME NEW j \in Calls PROVE Clocked(j)'
  BY DEF ClockInv
<1>1. TransmitterTypeOK /\ Clocked(j)
  BY DEF EndsTyped, ClockInv
<1>2. CASE SubReactorNext /\ UNCHANGED clientVars
  BY <1>1, <1>2, QuietKeepsClock
  DEF Quiet, clientVars, loopVars, taskVars, timerVars, triggerVars
<1>3. CASE Rests
  BY <1>1, <1>3, QuietKeepsClock DEF Rests, Quiet, taskVars, timerVars, triggerVars
<1>4. ASSUME NEW i \in Calls, send(i) PROVE Clocked(j)'
  <2>1. CASE j = i
    BY <1>1, <1>4, <2>1 DEF send, Clocked, taskVars, timerVars, triggerVars, TransmitterTypeOK
  <2>2. CASE j # i
    BY <1>1, <1>4, <2>2, QuietKeepsClock
    DEF send, Quiet, taskVars, timerVars, triggerVars, TransmitterTypeOK
  <2> QED
    BY <2>1, <2>2
<1>5. CASE SendPass
  BY <1>1, <1>5, SendPassKeepsClock
<1>6. ASSUME NEW m \in H, Hears(m) PROVE Clocked(j)'
  BY <1>1, <1>6, HandleKeepsClock
<1>7. ASSUME NEW i \in Calls, TimerRuns(i) PROVE Clocked(j)'
  BY <1>1, <1>7, TimerKeepsClock
<1>8. ASSUME NEW i \in Calls, Works(i) PROVE Clocked(j)'
  BY <1>1, <1>8, QuietKeepsClock
  DEF Works, Decode, CallBack, Dismiss, Quiet, loopVars, taskVars, timerVars
<1> QED
  BY <1>2, <1>3, <1>4, <1>5, <1>6, <1>7, <1>8 DEF EndsStep, ClientMoves

\* Nor is one stopped at the start.
LEMMA ClockInit == TransmitterInit => ClockInv
BY PiecesAssumption, SendCountIsPositive DEF TransmitterInit, ClockInv, Clocked

--------------------------------------------------------------------------------
\* Only a datagram or the end of its message moves ack_accept, and only a datagram
\* brings a piece.
LEMMA ReceiveCases ==
  ASSUME NEW H, ClientMoves(H)
  PROVE  \/ UNCHANGED <<ack_accept, piece_data>>
         \/ \E i \in Calls : delete_message(i) /\ UNCHANGED piece_data
         \/ \E m \in H : Hears(m)
<1> DEFINE Still == UNCHANGED <<ack_accept, piece_data>>
<1>1. ASSUME NEW i \in Calls, send(i) PROVE Still
  BY <1>1 DEF send, taskVars
<1>2. CASE Rests
  BY <1>2 DEF Rests, taskVars
<1>3. CASE SendPass
  BY <1>3 DEF SendPass
<1>4. ASSUME NEW i \in Calls, TimerRuns(i), ~delete_message(i) PROVE Still
  BY <1>4 DEF TimerRuns, timeout_event, response_timeout_event, staleTimeout, taskVars
<1>5. ASSUME NEW i \in Calls, delete_message(i) PROVE UNCHANGED piece_data
  BY <1>5 DEF delete_message
<1>6. ASSUME NEW i \in Calls, Works(i) PROVE Still
  BY <1>6 DEF Works, Decode, CallBack, Dismiss, taskVars
<1> QED
  BY <1>1, <1>2, <1>3, <1>4, <1>5, <1>6 DEF ClientMoves

\* Where the client's belief comes from: ack_accept stays, starts again, or is
\* what an acknowledgement or a piece of the response shows.
LEMMA AcceptStep ==
  ASSUME NEW H, TransmitterTypeOK, ClientMoves(H), NEW i \in Calls
  PROVE  \/ ack_accept'[i] \in {ack_accept[i], 0}
         \/ \E m \in H :
              /\ m.id = i
              /\ \/ /\ m.phase = "Request" /\ m.type = "ReceiverACK"
                    /\ ack_accept'[i] = m.order
                 \/ m.phase = "Response" /\ ack_accept'[i] = ReqPieces
<1>1. ack_accept \in [Calls -> 0 .. ReqPieces]
  BY DEF TransmitterTypeOK
<1>2. CASE UNCHANGED ack_accept
  BY <1>2
<1>3. ASSUME NEW j \in Calls, delete_message(j)
      PROVE  ack_accept'[i] \in {ack_accept[i], 0}
  BY <1>1, <1>3 DEF delete_message
<1>4. ASSUME NEW m \in H, Hears(m)
      PROVE  \/ ack_accept'[i] \in {ack_accept[i], 0}
             \/ /\ m.id = i
                /\ \/ /\ m.phase = "Request" /\ m.type = "ReceiverACK"
                      /\ ack_accept'[i] = m.order
                   \/ m.phase = "Response" /\ ack_accept'[i] = ReqPieces
  <2>1. CASE HearNothingNew(m) \/ HearResponsePiece(m)
    BY <2>1 DEF HearNothingNew, HearResponsePiece, taskVars
  <2>2. CASE HearACK(m)
    BY <1>1, <2>2 DEF HearACK, Accepted, Known
  <2>3. CASE HearReset(m)
    BY <1>1, <2>3 DEF HearReset, Known
  <2>4. CASE OvertakenACK(m)
    BY <1>1, <2>4 DEF OvertakenACK, Known
  <2> QED
    BY <1>4, <2>1, <2>2, <2>3, <2>4 DEF Hears
<1> QED
  BY <1>2, <1>3, <1>4, ReceiveCases

\* As long as what the loop hands to the handlers is true, the client believes
\* acknowledged only what is stored.
LEMMA RequestStep ==
  ASSUME NEW H, EndsTyped, RequestInv, NothingForgotten => ShowStored(H), EndsStep(H)
  PROVE  RequestInv'
<1>1. NetTypeOK /\ TransmitterTypeOK /\ SubReactorTypeOK
  BY DEF EndsTyped
<1>2. CASE ClientMoves(H) /\ toClient' \subseteq toClient /\ UNCHANGED serverVars
  <2> SUFFICES ASSUME NothingForgotten'
               PROVE  /\ AcksCoverStored' /\ OnlyExecuted' /\ ExecutedIsWhole'
                      /\ AcceptCoversStored'
    BY DEF RequestInv, StoredInv
  <2>1. UNCHANGED <<piece_state, executions, tasks, results, response>> /\ NothingForgotten
    BY <1>2 DEF serverVars, requestVars, responseVars, boundVars, NothingForgotten
  <2>2. /\ AcksCoverStored /\ OnlyExecuted /\ ExecutedIsWhole /\ AcceptCoversStored
        /\ ShowStored(H)
    BY <2>1 DEF RequestInv, StoredInv
  <2>3. AcksCoverStored' /\ OnlyExecuted' /\ ExecutedIsWhole'
    BY <1>2, <2>1, <2>2 DEF AcksCoverStored, OnlyExecuted, ExecutedIsWhole
  <2>4. AcceptCoversStored'
    <3> SUFFICES ASSUME NEW i \in Calls
                 PROVE  0 .. ack_accept'[i] - 1 \subseteq piece_state[i]
      BY <2>1 DEF AcceptCoversStored
    <3>1. CASE ack_accept'[i] \in {ack_accept[i], 0}
      BY <2>2, <3>1 DEF AcceptCoversStored
    <3>2. ASSUME NEW m \in H, m.id = i, m.phase = "Request", m.type = "ReceiverACK",
                 ack_accept'[i] = m.order
          PROVE  0 .. ack_accept'[i] - 1 \subseteq piece_state[i]
      BY <2>2, <3>2 DEF ShowStored
    <3>3. ASSUME NEW m \in H, m.id = i, m.phase = "Response", ack_accept'[i] = ReqPieces
          PROVE  0 .. ack_accept'[i] - 1 \subseteq piece_state[i]
      <4>1. piece_state[i] = AllRequestPieces
        BY <2>2, <3>3 DEF ShowStored, ExecutedIsWhole
      <4> QED
        BY <3>3, <4>1 DEF AllRequestPieces, Orders
    <3> QED
      BY <1>1, <1>2, <3>1, <3>2, <3>3, AcceptStep
  <2> QED
    BY <2>3, <2>4
<1>3. CASE SubReactorNext /\ UNCHANGED clientVars
  <2>1. StoredInv'
    BY <1>1, <1>3, ServerKeepsStored DEF RequestInv
  <2>2. ASSUME NothingForgotten' PROVE AcceptCoversStored'
    <3>1. /\ NothingForgotten
          /\ \A i \in Calls : piece_state[i] \subseteq piece_state'[i]
      BY <1>1, <1>3, <2>2, ServerForgetsNothing
    <3> QED
      BY <1>3, <3>1 DEF RequestInv, AcceptCoversStored, clientVars, taskVars
  <2> QED
    BY <2>1, <2>2 DEF RequestInv
<1> QED
  BY <1>2, <1>3 DEF EndsStep

\* The initial state satisfies it.
LEMMA RequestInit == NetInit /\ TransmitterInit /\ SubReactorInit => RequestInv
BY DEF NetInit, TransmitterInit, SubReactorInit, RequestInv, StoredInv,
       AcksCoverStored, OnlyExecuted, ExecutedIsWhole, AcceptCoversStored

--------------------------------------------------------------------------------
\* A piece the client stored stays as it is, and the acknowledgements it sends
\* cover stored pieces only.
LEMMA DeliveryStep ==
  ASSUME NEW H, H \subseteq FromServer(Data \ {NoData}), TransmitterTypeOK, ClientMoves(H)
  PROVE  /\ \A i \in Calls : Stored(piece_data, i) \subseteq Stored(piece_data', i)
         /\ \A d \in toServer' \ toServer : d.type = "ReceiverACK" =>
              0 .. d.order - 1 \subseteq Stored(piece_data', d.id)
<1> DEFINE NoACK == \A d \in toServer' \ toServer : d.type # "ReceiverACK"
<1>1. ASSUME NEW m \in H, HearResponsePiece(m)
      PROVE  /\ \A i \in Calls : Stored(piece_data, i) \subseteq Stored(piece_data', i)
             /\ \A d \in toServer' \ toServer : d.type = "ReceiverACK" =>
                  0 .. d.order - 1 \subseteq Stored(piece_data', d.id)
  <2>1. m.id \in Calls /\ m.order \in Orders(RespPieces)
    BY <1>1, FromServerFields DEF HearResponsePiece
  <2>2. /\ piece_data' = [piece_data EXCEPT ![m.id][m.order] = IF @ = NoData THEN m.data ELSE @]
        /\ toServer' \subseteq toServer \cup
             {ResponseACK(m.id, getAckNumber(Stored(piece_data', m.id), RespPieces)),
              RequestHeartbeat(m.id)}
    BY <1>1 DEF HearResponsePiece
  <2>3. \A i \in Calls : Stored(piece_data, i) \subseteq Stored(piece_data', i)
    <3>1. piece_data \in [Calls -> [Orders(RespPieces) -> Data]]
      BY DEF TransmitterTypeOK
    <3> QED
      BY <2>1, <2>2, <3>1 DEF Stored
  <2> DEFINE ack == getAckNumber(Stored(piece_data', m.id), RespPieces)
  <2>4. 0 .. ack - 1 \subseteq Stored(piece_data', m.id)
    BY AckNumberIsPrefix, PiecesAssumption
  <2>5. /\ ResponseACK(m.id, ack).id = m.id /\ ResponseACK(m.id, ack).order = ack
        /\ RequestHeartbeat(m.id).type # "ReceiverACK"
    BY DEF ResponseACK, RequestHeartbeat, Header
  <2> QED
    BY <2>2, <2>3, <2>4, <2>5
<1>2. ASSUME NEW m \in H, ~HearResponsePiece(m), Hears(m)
      PROVE  UNCHANGED piece_data /\ NoACK
  <2>1. CASE HearNothingNew(m) \/ OvertakenACK(m)
    BY <2>1 DEF HearNothingNew, OvertakenACK
  <2>2. CASE HearACK(m)
    BY <2>2 DEF HearACK, RequestHeartbeat, Header
  <2>3. CASE HearReset(m)
    BY <2>3 DEF HearReset, Window, RequestPiece, Header
  <2> QED
    BY <1>2, <2>1, <2>2, <2>3 DEF Hears
<1>3. ASSUME ~\E m \in H : Hears(m)
      PROVE  UNCHANGED piece_data /\ NoACK
  <2>1. UNCHANGED piece_data
    BY <1>3, ReceiveCases
  <2>2. CASE SendPass
    BY <2>2 DEF SendPass, Window, RequestPiece, Header
  <2>3. ASSUME NEW i \in Calls, NEW a \in 0 .. ReqPieces, timeout_event(i, a)
        PROVE  NoACK
    BY <2>3 DEF timeout_event, RequestACK, Header
  <2>4. ASSUME NEW i \in Calls, response_timeout_event(i)
        PROVE  NoACK
    BY <2>4 DEF response_timeout_event, RequestHeartbeat, Header
  <2>5. CASE Rests
    BY <2>5 DEF Rests
  <2>6. ASSUME NEW i \in Calls,
               \/ send(i) \/ (\E a \in 0 .. ReqPieces : staleTimeout(i, a))
               \/ delete_message(i) \/ Works(i)
        PROVE  UNCHANGED toServer
    BY <2>6 DEF send, staleTimeout, delete_message, Works, Decode, CallBack, Dismiss, netVars
  <2>7. ASSUME UNCHANGED toServer PROVE NoACK
    BY <2>7
  <2> QED
    BY <1>3, <2>1, <2>2, <2>3, <2>4, <2>5, <2>6, <2>7 DEF ClientMoves, TimerRuns
<1>4. CASE \E m \in H : HearResponsePiece(m)
  BY <1>1, <1>4
<1>5. CASE ~\E m \in H : HearResponsePiece(m)
  <2>1. UNCHANGED piece_data /\ NoACK
    BY <1>2, <1>3, <1>5
  <2> QED
    BY <2>1
<1> QED
  BY <1>4, <1>5

\* The server never takes for delivered what the client does not have.
LEMMA ResponseStep ==
  ASSUME NEW H, H \subseteq FromServer(Data \ {NoData}), EndsTyped, ResponseInv, EndsStep(H)
  PROVE  ResponseInv'
<1>1. NetTypeOK /\ TransmitterTypeOK /\ SubReactorTypeOK
  BY DEF EndsTyped
<1>2. CASE ClientMoves(H) /\ UNCHANGED serverVars
  <2>1. UNCHANGED <<mainBuffer, response_ack>>
    BY <1>2 DEF serverVars, responseVars
  <2>2. \A m \in toServer \cup mainBuffer : m.id \in Calls
    BY <1>1, FromClientFields DEF NetTypeOK, SubReactorTypeOK
  <2>3. \A m \in toServer' \cup mainBuffer' : m.type = "ReceiverACK" =>
          0 .. m.order - 1 \subseteq Stored(piece_data', m.id)
    BY <1>1, <1>2, <2>1, <2>2, DeliveryStep DEF ResponseInv
  <2>4. DeliveredIsReceived'
    BY <1>1, <1>2, <2>1, DeliveryStep DEF ResponseInv, DeliveredIsReceived
  <2> QED
    BY <2>3, <2>4 DEF ResponseInv
<1>3. CASE SubReactorNext /\ UNCHANGED clientVars
  <2>1. UNCHANGED piece_data
    BY <1>3 DEF clientVars
  <2>2. DeliveredIsReceived'
    BY <1>1, <1>3, <2>1, ServerTakesDelivered DEF ResponseInv, DeliveredIsReceived
  <2> QED
    BY <1>1, <1>3, <2>1, <2>2, ServerTakesDelivered DEF ResponseInv
<1> QED
  BY <1>2, <1>3 DEF EndsStep

\* The initial state satisfies it.
LEMMA ResponseInit == NetInit /\ TransmitterInit /\ SubReactorInit => ResponseInv
BY DEF NetInit, SubReactorInit, ResponseInv, DeliveredIsReceived

--------------------------------------------------------------------------------
\* The callbacks that were called.
Called == {i \in Calls : callback[i] \in {"called", "done"}}

\* A step of the client calls no callback, or the callback of one call that had
\* none, which is told OK only of a success.
LEMMA OutcomeStep ==
  ASSUME NEW H, TransmitterTypeOK, CallbackInv, SentFirst, ClientMoves(H)
  PROVE  \/ UNCHANGED outcome /\ Called' = Called
         \/ \E i \in Calls, v \in Outcomes \ {"none"} :
              /\ outcome[i] = "none"
              /\ triggered'[i]
              /\ outcome' = [outcome EXCEPT ![i] = v]
              /\ v = "OK" => isSuccess'[i]
              /\ Called' = Called \cup {i}
<1> DEFINE Goal == \/ UNCHANGED outcome /\ Called' = Called
                   \/ \E i \in Calls, v \in Outcomes \ {"none"} :
                        /\ outcome[i] = "none"
                        /\ triggered'[i]
                        /\ outcome' = [outcome EXCEPT ![i] = v]
                        /\ v = "OK" => isSuccess'[i]
                        /\ Called' = Called \cup {i}
<1>1. /\ callback \in [Calls -> CallbackSteps]
      /\ outcome \in [Calls -> Outcomes]
      /\ triggered \in [Calls -> BOOLEAN]
  BY DEF TransmitterTypeOK
<1>2. /\ \A i \in Calls : callback[i] # "none" => triggered[i]
      /\ \A i \in Calls : outcome[i] # "none" <=> i \in Called
  BY DEF CallbackInv, SentFirst, Called
<1>3. CASE CallbacksStill
  BY <1>3 DEF CallbacksStill, Called
<1>4. ASSUME NEW i \in Calls, try_trigger(i) \/ try_triggerInTimer(i) PROVE Goal
  <2>1. \/ UNCHANGED <<callback, outcome>>
        \/ /\ ~triggered[i] /\ triggered' = [triggered EXCEPT ![i] = TRUE]
           /\ \/ callback' = [callback EXCEPT ![i] = "committed"] /\ UNCHANGED outcome
              \/ /\ \E c \in {"called", "done"} : callback' = [callback EXCEPT ![i] = c]
                 /\ outcome' = [outcome EXCEPT ![i] = Verdict(i)]
    BY <1>4, Zenon DEF try_trigger, try_triggerInTimer, NotTriggered
  <2>2. CASE UNCHANGED <<callback, outcome>>
    BY <2>2 DEF Called
  <2>3. CASE ~triggered[i] /\ triggered' = [triggered EXCEPT ![i] = TRUE]
    <3>1. triggered'[i] /\ callback[i] = "none" /\ outcome[i] = "none"
      BY <1>1, <1>2, <2>3, Zenon DEF Called
    <3>2. ASSUME callback' = [callback EXCEPT ![i] = "committed"], UNCHANGED outcome
          PROVE  Goal
      BY <1>1, <3>1, <3>2 DEF Called
    <3>3. ASSUME NEW c \in {"called", "done"}, callback' = [callback EXCEPT ![i] = c],
                 outcome' = [outcome EXCEPT ![i] = Verdict(i)]
          PROVE  Goal
      <4>1. Called' = Called \cup {i}
        BY <1>1, <3>3 DEF Called
      <4>2. Verdict(i) \in Outcomes \ {"none"} /\ (Verdict(i) = "OK" => isSuccess'[i])
        BY Zenon DEF Verdict, Outcomes
      <4> QED
        BY <3>1, <3>3, <4>1, <4>2
    <3> QED
      BY <2>1, <2>2, <3>2, <3>3
  <2> QED
    BY <2>1, <2>2, <2>3
<1>5. ASSUME NEW i \in Calls, Decode(i) \/ Dismiss(i) PROVE Goal
  BY <1>1, <1>5 DEF Decode, Dismiss, Called
<1>6. ASSUME NEW i \in Calls, CallBack(i) PROVE Goal
  <2>1. triggered' = triggered /\ isSuccess' = isSuccess /\ callback[i] \in {"decoded", "raw"}
    BY <1>6 DEF CallBack
  <2>2. triggered'[i] /\ outcome[i] = "none"
    <3>1. i \notin Called /\ callback[i] # "none"
      BY <2>1 DEF Called
    <3> QED
      BY <1>2, <2>1, <3>1, Zenon
  <2>3. Called' = Called \cup {i}
    BY <1>1, <1>6 DEF CallBack, Called
  <2>4. \E v \in Outcomes \ {"none"} :
          outcome' = [outcome EXCEPT ![i] = v] /\ (v = "OK" => isSuccess[i])
    <3>1. CASE ~isSuccess[i]
      <4>1. outcome' = [outcome EXCEPT ![i] = "failed"]
        BY <1>6, <3>1 DEF CallBack
      <4>2. "failed" \in Outcomes \ {"none"} /\ "failed" # "OK"
        BY DEF Outcomes
      <4> QED
        BY <4>1, <4>2, Zenon
    <3>2. CASE isSuccess[i] /\ callback[i] = "decoded"
      BY <1>6, <3>2 DEF CallBack, Outcomes
    <3>3. CASE isSuccess[i] /\ callback[i] = "raw"
      BY <1>6, <3>3 DEF CallBack, Outcomes
    <3> QED
      BY <2>1, <3>1, <3>2, <3>3
  <2> QED
    BY <2>1, <2>2, <2>3, <2>4
<1> QED
  BY <1>3, <1>4, <1>5, <1>6, TriggerCases DEF CallbackMoves, Works

\* A call is new until it is sent, only what the loop took up is triggered, and
\* datagrams are sent for what is not new.
LEMMA NewStep ==
  ASSUME NEW H, TransmitterTypeOK, CallbackInv, SentFirst, ClientMoves(H)
  PROVE  /\ \/ \E i \in Calls : send(i)
            \/ \A j \in Calls : message'[j] = "new" <=> message[j] = "new"
         /\ \A j \in Calls : message[j] # "new" => message'[j] # "new"
         /\ \A j \in Calls : triggered'[j] => triggered[j] \/ message[j] # "new"
         /\ \A d \in toServer' \ toServer : d.id \in Calls /\ message'[d.id] # "new"
<1> DEFINE SameNew == \A j \in Calls : message'[j] = "new" <=> message[j] = "new"
           Taken == \A j \in Calls : triggered'[j] => triggered[j] \/ message[j] # "new"
           Own == \A d \in toServer' \ toServer : d.id \in Calls /\ message'[d.id] # "new"
<1>1. /\ message \in [Calls -> {"new", "queued", "active", "erased"}]
      /\ triggered \in [Calls -> BOOLEAN]
  BY DEF TransmitterTypeOK
<1>2. ASSUME NEW i \in Calls, try_trigger(i) \/ try_triggerInTimer(i), message[i] = "active"
      PROVE  Taken
  <2>1. \A j \in Calls : j # i => (triggered'[j] <=> triggered[j])
    BY <1>1, <1>2, Zenon DEF try_trigger, try_triggerInTimer
  <2> QED
    BY <1>2, <2>1
<1>3. ASSUME NEW i \in Calls, send(i)
      PROVE  Taken /\ Own /\ \A j \in Calls : message[j] # "new" => message'[j] # "new"
  BY <1>1, <1>3 DEF send, triggerVars, netVars
<1>4. CASE Rests
  BY <1>4 DEF Rests, triggerVars
<1>5. CASE SendPass
  <2>1. SameNew /\ Taken
    BY <1>1, <1>5 DEF SendPass, triggerVars
  <2>2. Own
    BY <1>1, <1>5 DEF SendPass, Sends, Window, RequestPiece, Header
  <2> QED
    BY <2>1, <2>2
<1>6. ASSUME NEW m \in H, Hears(m) PROVE SameNew /\ Taken /\ Own
  <2>1. SameNew
    BY <1>6 DEF Hears, HearACK, HearNothingNew, HearReset, OvertakenACK, HearResponsePiece,
                loopVars
  <2>2. CASE HearNothingNew(m) \/ OvertakenACK(m)
    BY <2>1, <2>2 DEF HearNothingNew, OvertakenACK, triggerVars
  <2>3. CASE HearACK(m)
    BY <1>1, <2>1, <2>3 DEF HearACK, Known, RequestHeartbeat, Header, loopVars, triggerVars
  <2>4. CASE HearReset(m)
    BY <1>1, <2>1, <2>4 DEF HearReset, Known, Window, RequestPiece, Header, loopVars, triggerVars
  <2>5. CASE HearResponsePiece(m)
    <3>1. m.id \in Calls /\ message[m.id] = "active" /\ UNCHANGED message
      BY <2>5 DEF HearResponsePiece, Known, loopVars
    <3>2. \A d \in toServer' \ toServer : d.id = m.id
      BY <2>5 DEF HearResponsePiece, ResponseACK, RequestHeartbeat, Header
    <3>3. try_trigger(m.id) \/ UNCHANGED triggered
      BY <2>5 DEF HearResponsePiece, triggerVars
    <3> QED
      BY <1>2, <2>1, <3>1, <3>2, <3>3
  <2> QED
    BY <1>6, <2>1, <2>2, <2>3, <2>4, <2>5 DEF Hears
<1>7. ASSUME NEW i \in Calls, NEW a \in 0 .. ReqPieces, timeout_event(i, a)
      PROVE  SameNew /\ Taken /\ Own
  <2>1. message[i] = "active" /\ UNCHANGED message
    BY <1>7 DEF timeout_event
  <2>2. try_triggerInTimer(i) \/ UNCHANGED triggered
    BY <1>7 DEF timeout_event, triggerVars
  <2>3. Own
    BY <1>7, <2>1 DEF timeout_event, RequestACK, Header
  <2> QED
    BY <1>2, <2>1, <2>2, <2>3
<1>8. ASSUME NEW i \in Calls, response_timeout_event(i)
      PROVE  SameNew /\ Taken /\ Own
  <2>1. message[i] = "active" /\ UNCHANGED message
    BY <1>8 DEF response_timeout_event
  <2>2. try_triggerInTimer(i) \/ UNCHANGED triggered
    BY <1>8 DEF response_timeout_event, triggerVars
  <2>3. Own
    BY <1>8, <2>1 DEF response_timeout_event, RequestHeartbeat, Header
  <2> QED
    BY <1>2, <2>1, <2>2, <2>3
<1>9. ASSUME NEW i \in Calls, NEW a \in 0 .. ReqPieces, staleTimeout(i, a)
      PROVE  SameNew /\ Taken /\ Own
  BY <1>9 DEF staleTimeout, triggerVars, netVars
<1>10. ASSUME NEW i \in Calls, delete_message(i)
       PROVE  SameNew /\ Taken /\ Own
  <2>1. i \in erasing
    BY <1>10 DEF delete_message
  <2>2. message[i] # "new"
    BY <2>1 DEF CallbackInv, SentFirst
  <2> QED
    BY <1>1, <1>10, <2>2 DEF delete_message, triggerVars, netVars
<1>11. ASSUME NEW i \in Calls, Works(i)
       PROVE  SameNew /\ Taken /\ Own
  BY <1>11 DEF Works, Decode, CallBack, Dismiss, loopVars, triggerVars, netVars
<1> QED
  BY <1>3, <1>4, <1>5, <1>6, <1>7, <1>8, <1>9, <1>10, <1>11
  DEF ClientMoves, TimerRuns

\* Nobody is sent, answered or called back before the caller handed it over.
LEMMA SentStep ==
  ASSUME NEW H, EndsTyped, CallbackInv, SentFirst, EndsStep(H)
  PROVE  SentFirst'
<1>1. NetTypeOK /\ TransmitterTypeOK /\ SubReactorTypeOK
  BY DEF EndsTyped
<1>2. CASE ClientMoves(H) /\ UNCHANGED serverVars
  <2>1. \A i \in Calls : outcome'[i] # "none" <=> callback'[i] \in {"called", "done"}
    <3>1. \A i \in Calls : outcome[i] # "none" <=> i \in Called
      BY DEF SentFirst, Called
    <3>2. outcome \in [Calls -> Outcomes]
      BY <1>1 DEF TransmitterTypeOK
    <3>3. \A i \in Calls : outcome'[i] # "none" <=> i \in Called'
      BY <1>1, <1>2, <3>1, <3>2, OutcomeStep
    <3> QED
      BY <3>3 DEF Called
  <2>2. \A i \in Calls : triggered'[i] => message'[i] # "new"
    BY <1>1, <1>2, NewStep, Zenon DEF SentFirst
  <2>3. \A m \in toServer' \cup mainBuffer' : message'[m.id] # "new"
    <3>1. UNCHANGED mainBuffer
      BY <1>2 DEF serverVars
    <3>2. \A m \in toServer \cup mainBuffer : m.id \in Calls /\ message[m.id] # "new"
      BY <1>1, FromClientFields DEF SentFirst, NetTypeOK, SubReactorTypeOK
    <3> QED
      BY <1>1, <1>2, <3>1, <3>2, NewStep
  <2> QED
    BY <2>1, <2>2, <2>3, Zenon DEF SentFirst
<1>3. CASE SubReactorNext /\ UNCHANGED clientVars
  <2>1. /\ UNCHANGED <<outcome, callback, triggered, message>>
        /\ toServer' \cup mainBuffer' \subseteq toServer \cup mainBuffer
    BY <1>1, <1>3, ServerTakesDelivered DEF clientVars, loopVars, triggerVars
  <2> QED
    BY <2>1, Zenon DEF SentFirst
<1> QED
  BY <1>2, <1>3 DEF EndsStep

\* A Request is executed at most once between two losses of the server's memory.
LEMMA TriggeredOnceStep ==
  ASSUME NEW H, EndsTyped, TriggeredOnce, EndsStep(H)
  PROVE  TriggeredOnce'
<1>1. TriggeredOnce /\ UNCHANGED serverVars => TriggeredOnce'
  BY DEF serverVars, requestVars, boundVars, TriggeredOnce
<1> QED
  BY <1>1, ServerKeepsTriggered DEF EndsTyped, EndsStep

--------------------------------------------------------------------------------
\* Only the whole response makes a message a success.
LEMMA SuccessStep ==
  ASSUME NEW H, TransmitterTypeOK, ClientMoves(H)
  PROVE  \A i \in Calls : isSuccess'[i] =>
           isSuccess[i] \/ Stored(piece_data', i) = Orders(RespPieces)
<1> DEFINE Earned == \A i \in Calls : isSuccess'[i] =>
                       isSuccess[i] \/ Stored(piece_data', i) = Orders(RespPieces)
<1>1. isSuccess \in [Calls -> BOOLEAN]
  BY DEF TransmitterTypeOK
<1>2. CASE UNCHANGED isSuccess
  BY <1>2
<1>3. ASSUME NEW m \in H, Hears(m) PROVE Earned
  <2>1. CASE HearACK(m) \/ HearNothingNew(m) \/ HearReset(m) \/ OvertakenACK(m)
    BY <2>1 DEF HearACK, HearNothingNew, HearReset, OvertakenACK, triggerVars
  <2>2. CASE HearResponsePiece(m) /\ ~UNCHANGED isSuccess
    <3>1. /\ isSuccess' = [isSuccess EXCEPT ![m.id] = TRUE]
          /\ Complete(Stored(piece_data', m.id))
      BY <2>2 DEF HearResponsePiece, triggerVars
    <3>2. \A i \in Calls : i # m.id => (isSuccess'[i] <=> isSuccess[i])
      BY <1>1, <3>1, Zenon
    <3>3. Stored(piece_data', m.id) \in SUBSET Orders(RespPieces)
      BY DEF Stored
    <3>4. Stored(piece_data', m.id) = Orders(RespPieces)
      BY <3>1, <3>3, AckNumberOfWhole, PiecesAssumption DEF Complete
    <3> QED
      BY <3>2, <3>4
  <2> QED
    BY <1>2, <1>3, <2>1, <2>2 DEF Hears
<1>4. ASSUME NEW i \in Calls, NEW a \in 0 .. ReqPieces, timeout_event(i, a) PROVE Earned
  <2>1. UNCHANGED isSuccess \/ isSuccess' = [isSuccess EXCEPT ![i] = FALSE]
    BY <1>4 DEF timeout_event, triggerVars
  <2> QED
    BY <1>1, <1>2, <2>1, Zenon
<1>5. ASSUME NEW i \in Calls, response_timeout_event(i) PROVE Earned
  <2>1. UNCHANGED isSuccess \/ isSuccess' = [isSuccess EXCEPT ![i] = triggered[i] /\ @]
    BY <1>5 DEF response_timeout_event, triggerVars
  <2>2. \A j \in Calls : isSuccess'[j] => isSuccess[j]
    BY <1>1, <2>1, Zenon
  <2> QED
    BY <2>2
<1>6. ASSUME NEW i \in Calls, \/ send(i) \/ (\E a \in 0 .. ReqPieces : staleTimeout(i, a))
                              \/ delete_message(i) \/ Works(i)
      PROVE  UNCHANGED isSuccess
  BY <1>6 DEF send, staleTimeout, delete_message, Works, Decode, CallBack, Dismiss, triggerVars
<1>7. CASE Rests \/ SendPass
  BY <1>7 DEF Rests, SendPass, triggerVars
<1> QED
  BY <1>2, <1>3, <1>4, <1>5, <1>6, <1>7 DEF ClientMoves, TimerRuns

\* The client adds to what came from the first execution nothing else.
LEMMA ClientKeepsFirst ==
  ASSUME NEW H, H \subseteq FromServer(Data \ {NoData}), TransmitterTypeOK, CallbackInv,
         SentFirst, ShowStored(H), ShowFirst(H), FirstInFlight, FirstReceived,
         ClientMoves(H), toClient' \subseteq toClient, UNCHANGED serverVars
  PROVE  FirstInFlight' /\ FirstReceived'
<1>1. UNCHANGED <<tasks, results, response, executions>> /\ toClient' \subseteq toClient
  BY DEF serverVars, requestVars, responseVars
<1>2. FirstInFlight'
  BY <1>1 DEF FirstInFlight
<1>3. ASSUME NEW i \in Calls, NEW k \in Orders(RespPieces)
      PROVE  /\ piece_data'[i][k] \in {NoData, 1}
             /\ piece_data'[i][k] # NoData => executions[i] > 0
  <2>1. CASE UNCHANGED piece_data
    BY <2>1 DEF FirstReceived
  <2>2. ASSUME NEW m \in H, HearResponsePiece(m)
        PROVE  /\ piece_data'[i][k] \in {NoData, 1}
               /\ piece_data'[i][k] # NoData => executions[i] > 0
    <3>1. m.phase = "Response" /\ m.id \in Calls /\ m.order \in Orders(RespPieces)
      BY <2>2, FromServerFields DEF HearResponsePiece
    <3>2. m.data = 1 /\ executions[m.id] > 0
      BY <2>2, <3>1 DEF ShowStored, ShowFirst
    <3>3. piece_data' = [piece_data EXCEPT ![m.id][m.order] = IF @ = NoData THEN m.data ELSE @]
      BY <2>2 DEF HearResponsePiece
    <3> QED
      BY <3>1, <3>2, <3>3 DEF FirstReceived, TransmitterTypeOK
  <2>3. ASSUME NEW m \in H, Hears(m), ~HearResponsePiece(m)
        PROVE  UNCHANGED piece_data
    BY <2>3 DEF Hears, HearACK, HearNothingNew, HearReset, OvertakenACK
  <2> QED
    BY <2>1, <2>2, <2>3, ReceiveCases
<1>4. ASSUME NEW i \in Calls, isSuccess'[i] \/ outcome'[i] = "OK", NEW k \in Orders(RespPieces)
      PROVE  piece_data'[i][k] # NoData
  <2>1. outcome'[i] = "OK" => outcome[i] = "OK" \/ isSuccess'[i]
    BY OutcomeStep DEF TransmitterTypeOK
  <2>2. CASE isSuccess[i] \/ outcome[i] = "OK"
    <3>1. k \in Stored(piece_data, i)
      BY <2>2 DEF FirstReceived, Stored
    <3>2. k \in Stored(piece_data', i)
      BY <3>1, DeliveryStep
    <3> QED
      BY <3>2 DEF Stored
  <2>3. CASE Stored(piece_data', i) = Orders(RespPieces)
    BY <2>3 DEF Stored
  <2> QED
    BY <1>4, <2>1, <2>2, <2>3, SuccessStep
<1> QED
  BY <1>1, <1>2, <1>3, <1>4 DEF FirstReceived

\* As long as the server forgets nothing and reuses no buffer, what the client
\* stores comes from the first execution, if what the loop hands to the handlers
\* does.
LEMMA FirstStep ==
  ASSUME NEW H, H \subseteq FromServer(Data \ {NoData}), EndsTyped, CallbackInv, SentFirst,
         TriggeredOnce, NothingForgotten => ShowStored(H),
         NothingForgotten /\ reuses = 0 => ShowFirst(H),
         FirstExecutionInv, EndsStep(H)
  PROVE  FirstExecutionInv'
<1> SUFFICES ASSUME NothingForgotten', reuses' = 0
             PROVE  FirstInFlight' /\ FirstReceived'
  BY DEF FirstExecutionInv
<1>1. NetTypeOK /\ TransmitterTypeOK /\ SubReactorTypeOK
  BY DEF EndsTyped
<1>2. CASE ClientMoves(H) /\ toClient' \subseteq toClient /\ UNCHANGED serverVars
  <2>1. NothingForgotten /\ reuses = 0
    BY <1>2 DEF serverVars, boundVars, NothingForgotten
  <2> QED
    BY <1>1, <1>2, <2>1, ClientKeepsFirst DEF FirstExecutionInv
<1>3. CASE SubReactorNext /\ UNCHANGED clientVars
  <2>1. /\ NothingForgotten /\ reuses = 0
        /\ \A i \in Calls : executions[i] > 0 => executions'[i] > 0
    BY <1>1, <1>3, ServerForgetsNothing, ReusesOnlyGrow
  <2>2. FirstInFlight /\ FirstReceived
    BY <2>1 DEF FirstExecutionInv
  <2>3. FirstInFlight'
    BY <1>1, <1>3, <2>2, ServerKeepsFirst
  <2>4. UNCHANGED <<piece_data, isSuccess, outcome>>
    BY <1>3 DEF clientVars, triggerVars
  <2>5. FirstReceived'
    <3>1. ASSUME NEW i \in Calls, NEW k \in Orders(RespPieces)
          PROVE  /\ piece_data'[i][k] \in {NoData, 1}
                 /\ piece_data'[i][k] # NoData => executions'[i] > 0
      BY <2>1, <2>2, <2>4 DEF FirstReceived
    <3>2. ASSUME NEW i \in Calls, NEW k \in Orders(RespPieces),
                 isSuccess'[i] \/ outcome'[i] = "OK"
          PROVE  piece_data'[i][k] # NoData
      BY <2>2, <2>4, <3>2, Zenon DEF FirstReceived
    <3> QED
      BY <3>1, <3>2 DEF FirstReceived
  <2> QED
    BY <2>3, <2>5
<1> QED
  BY <1>2, <1>3 DEF EndsStep

\* The initial state satisfies the three, and is one of RpcCall.
LEMMA FirstInit ==
  ASSUME NetInit, TransmitterInit, SubReactorInit
  PROVE  SentFirst /\ TriggeredOnce /\ FirstExecutionInv /\ RPC!Init
<1>1. SentFirst /\ TriggeredOnce
  BY DEF NetInit, TransmitterInit, SubReactorInit, SentFirst, TriggeredOnce
<1>2. FirstExecutionInv
  BY DEF NetInit, TransmitterInit, SubReactorInit, FirstExecutionInv, FirstInFlight, FirstReceived
<1>3. RPC!Init
  <2>1. AbstractCalls = [i \in Calls |-> "new"]
    BY DEF TransmitterInit, AbstractCalls
  <2>2. [i \in Calls |-> ResultOf(i)] = [i \in Calls |-> 0]
    BY DEF TransmitterInit, ResultOf
  <2>3. executions = [i \in Calls |-> 0]
    BY DEF SubReactorInit
  <2> QED
    BY <2>1, <2>2, <2>3 DEF RPC!Init
<1> QED
  BY <1>1, <1>2, <1>3

--------------------------------------------------------------------------------
\* While the server forgets nothing, OK is the result of the first execution.
LEMMA ResultIsFirst ==
  ASSUME FirstReceived, NEW i \in Calls
  PROVE  ResultOf(i) = IF outcome[i] = "OK" THEN 1 ELSE 0
<1>1. 0 \in Orders(RespPieces)
  BY PiecesAssumption DEF Orders
<1>2. ASSUME outcome[i] = "OK" PROVE \A k \in Orders(RespPieces) : piece_data[i][k] = 1
  BY <1>2 DEF FirstReceived
<1> QED
  BY <1>1, <1>2 DEF ResultOf

\* A step is one of RpcCall, or changes nothing that RpcCall sees.
LEMMA StepOfRpcCall ==
  ASSUME NEW H, EndsTyped, EndsTyped', CallbackInv, SentFirst, FirstReceived, FirstReceived',
         EndsStep(H)
  PROVE  [RPC!Next]_(RPC!vars)
<1> DEFINE Seen(o, m) ==
             IF o = "OK" THEN "OK" ELSE IF o # "none" THEN "failed"
             ELSE IF m = "new" THEN "new" ELSE "pending"
           Results(o) == [i \in Calls |-> IF o[i] = "OK" THEN 1 ELSE 0]
<1>1. /\ outcome \in [Calls -> Outcomes] /\ outcome' \in [Calls -> Outcomes]
      /\ message \in [Calls -> {"new", "queued", "active", "erased"}]
  BY DEF EndsTyped, TransmitterTypeOK
<1>2. /\ AbstractCalls = [i \in Calls |-> Seen(outcome[i], message[i])]
      /\ AbstractCalls' = [i \in Calls |-> Seen(outcome'[i], message'[i])]
  BY <1>1 DEF AbstractCalls, Outcomes
<1>3. [i \in Calls |-> ResultOf(i)] = Results(outcome)
  BY ResultIsFirst
<1>4. [i \in Calls |-> ResultOf(i)]' = Results(outcome')
  <2>1. 0 \in Orders(RespPieces)
    BY PiecesAssumption DEF Orders
  <2> QED
    BY <2>1 DEF ResultOf, FirstReceived
<1>5. \A i \in Calls : message[i] = "new" => outcome[i] = "none"
  <2> SUFFICES ASSUME NEW i \in Calls, message[i] = "new" PROVE outcome[i] = "none"
    OBVIOUS
  <2>1. callback[i] = "none"
    BY Zenon DEF CallbackInv, SentFirst
  <2> QED
    BY <2>1 DEF SentFirst
<1> HIDE DEF Seen, Results
<1>6. CASE UNCHANGED <<message, outcome, executions>>
  BY <1>2, <1>3, <1>4, <1>6 DEF RPC!vars
<1>7. CASE ClientMoves(H) /\ UNCHANGED serverVars
  <2>1. executions' = executions
    BY <1>7 DEF serverVars, requestVars
  <2>2. ASSUME NEW i \in Calls, send(i) PROVE RPC!Next
    <3>1. /\ message[i] = "new" /\ outcome[i] = "none" /\ outcome' = outcome
          /\ message' = [message EXCEPT ![i] = "queued"]
          /\ \A j \in Calls : j < i => message[j] # "new"
      BY <1>5, <2>2 DEF send, triggerVars
    <3>2. AbstractCalls[i] = "new" /\ \A j \in Calls : j < i => AbstractCalls[j] # "new"
      BY <1>2, <3>1 DEF Seen
    <3>3. AbstractCalls' = [AbstractCalls EXCEPT ![i] = "pending"]
      BY <1>1, <1>2, <3>1 DEF Seen
    <3>4. \A j \in Calls : AbstractCalls[j] \in {"new", "pending", "OK", "failed"}
      BY <1>2 DEF Seen
    <3>5. RPC!Call(i)
      BY <1>3, <1>4, <2>1, <3>1, <3>2, <3>3, <3>4 DEF RPC!Call
    <3> QED
      BY <3>5 DEF RPC!Next
  <2>3. ASSUME \A j \in Calls : message'[j] = "new" <=> message[j] = "new", UNCHANGED outcome
        PROVE  UNCHANGED RPC!vars
    BY <1>2, <1>3, <1>4, <2>1, <2>3 DEF Seen, RPC!vars
  <2>4. ASSUME \A j \in Calls : message'[j] = "new" <=> message[j] = "new",
               NEW i \in Calls, NEW v \in Outcomes \ {"none"},
               outcome[i] = "none", triggered'[i], outcome' = [outcome EXCEPT ![i] = v]
        PROVE  RPC!Next
    <3>1. message[i] # "new"
      <4>1. triggered[i] \/ message[i] # "new"
        BY <1>7, <2>4, NewStep DEF EndsTyped
      <4> QED
        BY <4>1 DEF SentFirst
    <3>2. AbstractCalls[i] = "pending"
      BY <1>2, <2>4, <3>1 DEF Seen
    <3>3. AbstractCalls' = [AbstractCalls EXCEPT ![i] = IF v = "OK" THEN "OK" ELSE "failed"]
      BY <1>1, <1>2, <2>4 DEF Seen
    <3>4. CASE v = "OK"
      <4>1. Results(outcome') = [Results(outcome) EXCEPT ![i] = 1]
        BY <1>1, <2>4, <3>4 DEF Results
      <4>2. 1 \in 1 .. executions[i]
        <5>1. 0 \in Orders(RespPieces) /\ outcome'[i] = "OK"
          BY <1>1, <2>4, <3>4, PiecesAssumption DEF Orders
        <5>2. executions'[i] > 0
          BY <5>1 DEF FirstReceived
        <5> QED
          BY <2>1, <5>2 DEF EndsTyped, SubReactorTypeOK, MessageStateOK
      <4>3. RPC!ReturnOK(i)
        BY <1>3, <1>4, <2>1, <3>2, <3>3, <3>4, <4>1, <4>2 DEF RPC!ReturnOK
      <4> QED
        BY <4>3 DEF RPC!Next
    <3>5. CASE v # "OK"
      <4>1. Results(outcome') = Results(outcome)
        BY <1>1, <2>4, <3>5 DEF Results
      <4>2. RPC!Fail(i)
        BY <1>3, <1>4, <2>1, <3>2, <3>3, <3>5, <4>1 DEF RPC!Fail
      <4> QED
        BY <4>2 DEF RPC!Next
    <3> QED
      BY <3>4, <3>5
  <2> QED
    BY <1>7, <2>2, <2>3, <2>4, NewStep, OutcomeStep DEF EndsTyped
<1>8. CASE SubReactorNext /\ UNCHANGED clientVars
  <2>1. UNCHANGED <<message, outcome>>
    BY <1>8 DEF clientVars, loopVars, triggerVars
  <2>2. ASSUME NEW m \in toServer \cup mainBuffer, m.id \in Calls,
               executions' = [executions EXCEPT ![m.id] = @ + 1]
        PROVE  RPC!Next
    <3>1. AbstractCalls[m.id] # "new"
      BY <1>2, <2>2 DEF Seen, SentFirst
    <3>2. RPC!Execute(m.id)
      BY <1>2, <1>3, <1>4, <2>1, <2>2, <3>1 DEF RPC!Execute
    <3> QED
      BY <2>2, <3>2 DEF RPC!Next
  <2> QED
    BY <1>6, <1>8, <2>1, <2>2, ServerRuns DEF EndsTyped
<1> QED
  BY <1>7, <1>8 DEF EndsStep
================================================================================
