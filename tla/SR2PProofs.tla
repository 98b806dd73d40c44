------------------------------- MODULE SR2PProofs -------------------------------
(***************************************************************************)
(* The types and the safety properties of SR2P, for every number of calls, *)
(* of pieces and of tries, and for every bound on what may go wrong: each  *)
(* follows from an invariant of SR2PInvariants that every step preserves.  *)
(***************************************************************************)
EXTENDS SR2PInvariants, SubReactorProofs

--------------------------------------------------------------------------------
\* A step of the client keeps the types.
LEMMA InvokerTypeStep ==
  ASSUME NetTypeOK, InvokerTypeOK, InvokerNext
  PROVE  NetTypeOK' /\ InvokerTypeOK'
<1> USE PiecesAssumption, CallsAssumption, TryAssumption
<1>1. phase # "idle" => message_id \in Calls
  BY DEF Calls, InvokerTypeOK
<1>2. CASE Request
  <2>1. InvokerTypeOK'
    BY <1>2 DEF Request, InvokerTypeOK
  <2>2. NetTypeOK'
    BY <1>2 DEF Request, NetTypeOK, netVars
  <2> QED
    BY <2>1, <2>2
<1>3. CASE GiveUp
  <2>1. tries' \in 0 .. TryTimes
    BY <1>3 DEF GiveUp, TryLeft, InvokerTypeOK
  <2>2. outcome' \in [Calls -> {"none", "OK"} \cup Reasons]
    BY <1>1, <1>3 DEF GiveUp, Return, Reasons, InvokerTypeOK
  <2>3. InvokerTypeOK'
    BY <1>3, <2>1, <2>2 DEF GiveUp, Return, InvokerTypeOK
  <2>4. NetTypeOK'
    BY <1>3 DEF GiveUp, NetTypeOK, netVars
  <2> QED
    BY <2>3, <2>4
<1>4. CASE Round
  <2>1. RoundSlots \in 0 .. ReqPieces
    BY SendCountIsPositive DEF RoundSlots, InvokerTypeOK
  <2>2. {RequestPiece(message_id, k) : k \in RoundOrders} \subseteq FromClient
    BY <1>1, <1>4, ClientSends DEF Round, RoundOrders
  <2>3. tries' \in 0 .. TryTimes /\ tries' # 0
    BY <1>4 DEF Round, TryLeft, InvokerTypeOK
  <2>4. InvokerTypeOK'
    BY <1>4, <2>1, <2>3 DEF Round, TryLeft, InvokerTypeOK
  <2>5. NetTypeOK'
    BY <1>4, <2>2 DEF Round, NetTypeOK
  <2> QED
    BY <2>4, <2>5
<1>5. CASE EnterPhase2
  <2>1. InvokerTypeOK'
    BY <1>5 DEF EnterPhase2, InvokerTypeOK
  <2>2. NetTypeOK'
    BY <1>5 DEF EnterPhase2, NetTypeOK, netVars
  <2> QED
    BY <2>1, <2>2
<1>6. ASSUME NEW m \in toClient, ReceiveInPhase1(m)
      PROVE  NetTypeOK' /\ InvokerTypeOK'
  <2>1. m \in FromServer(Data \ {NoData})
    BY DEF NetTypeOK
  <2>2. AckAfter(m) \in 0 .. ReqPieces
    BY <2>1, FromServerFields, LargerIsMaximum DEF AckAfter, InvokerTypeOK
  <2>3. SlotsAfter(m) \in 0 .. ReqPieces /\ slots - 1 \in 0 .. ReqPieces
    BY <1>6 DEF ReceiveInPhase1, SlotsAfter, InvokerTypeOK
  <2>4. InvokerTypeOK'
    <3>1. CASE HearInPhase1(m)
      <4>1. outcome' \in [Calls -> {"none", "OK"} \cup Reasons]
        BY <1>1, <1>6, <3>1
        DEF ReceiveInPhase1, HearInPhase1, Return, Reasons, InvokerTypeOK
      <4>2. /\ ack_accept' \in 0 .. ReqPieces
            /\ slots' \in 0 .. ReqPieces
            /\ phase' \in {"idle", "sending", "waiting"}
        BY <1>6, <2>2, <2>3, <3>1
        DEF ReceiveInPhase1, HearInPhase1, Return, InvokerTypeOK
      <4> QED
        BY <1>6, <3>1, <4>1, <4>2 DEF ReceiveInPhase1, HearInPhase1, InvokerTypeOK
    <3>2. CASE SkipInPhase1(m)
      BY <1>6, <2>3, <3>2 DEF ReceiveInPhase1, SkipInPhase1, InvokerTypeOK
    <3> QED
      BY <1>6, <3>1, <3>2 DEF ReceiveInPhase1
  <2>5. toClient' \subseteq toClient /\ dups' \in 0 .. MaxDups
    BY <1>6, TakeType DEF ReceiveInPhase1, NetTypeOK
  <2>6. NetTypeOK'
    BY <1>6, <2>5 DEF ReceiveInPhase1, NetTypeOK
  <2> QED
    BY <2>4, <2>6
<1>7. CASE TimeoutInPhase1
  <2>1. InvokerTypeOK'
    BY <1>7 DEF TimeoutInPhase1, InvokerTypeOK
  <2>2. RequestACK(message_id) \in FromClient
    BY <1>1, <1>7, ClientSends DEF TimeoutInPhase1
  <2>3. NetTypeOK'
    BY <1>7, <2>2 DEF TimeoutInPhase1, NetTypeOK
  <2> QED
    BY <2>1, <2>3
<1>8. ASSUME NEW m \in toClient, ReceiveInPhase2(m)
      PROVE  NetTypeOK' /\ InvokerTypeOK'
  <2>1. toClient' \subseteq toClient /\ dups' \in 0 .. MaxDups
    BY <1>8, TakeType DEF ReceiveInPhase2, NetTypeOK
  <2>2. CASE HearServerAlive(m) \/ SkipInPhase2(m)
    <3>1. InvokerTypeOK'
      BY <1>8, <2>2 DEF ReceiveInPhase2, HearServerAlive, SkipInPhase2, InvokerTypeOK
    <3>2. NetTypeOK'
      BY <1>8, <2>1, <2>2 DEF ReceiveInPhase2, HearServerAlive, SkipInPhase2, NetTypeOK
    <3> QED
      BY <3>1, <3>2
  <2>3. CASE HearResponsePiece(m)
    <3> DEFINE pieces == [piece_data EXCEPT ![m.id][m.order] =
                            IF @ = NoData THEN m.data ELSE @]
               ack == getAckNumber(Stored(pieces, m.id), RespPieces)
    <3>1. m.id \in Calls /\ m.order \in Orders(RespPieces) /\ m.data \in Data
      BY <2>3, FromServerFields DEF HearResponsePiece, NetTypeOK
    <3>2. pieces \in [Calls -> [Orders(RespPieces) -> Data]]
      BY <3>1 DEF InvokerTypeOK
    <3>3. ResponseACK(message_id, ack) \in FromClient
      BY <2>3, <3>1, AckNumberIsPrefix, ClientSends DEF HearResponsePiece, IsMine
    <3>4. /\ tries' = TryTimes
          /\ piece_data' = pieces
          /\ toServer' = toServer \cup {ResponseACK(message_id, ack)}
          /\ Return("OK") \/ UNCHANGED <<phase, outcome>>
      BY <2>3 DEF HearResponsePiece
    <3> HIDE DEF pieces, ack
    <3>5. InvokerTypeOK'
      BY <1>1, <1>8, <3>2, <3>4 DEF ReceiveInPhase2, Return, InvokerTypeOK
    <3>6. NetTypeOK'
      BY <1>8, <2>1, <3>3, <3>4 DEF ReceiveInPhase2, NetTypeOK
    <3> QED
      BY <3>5, <3>6
  <2> QED
    BY <1>8, <2>2, <2>3 DEF ReceiveInPhase2
<1>9. CASE TimeoutInPhase2
  <2>1. InvokerTypeOK'
    BY <1>1, <1>9 DEF TimeoutInPhase2, Return, Reasons, InvokerTypeOK
  <2>2. RequestHeartbeat(message_id) \in FromClient
    BY <1>1, <1>9, ClientSends DEF TimeoutInPhase2
  <2>3. NetTypeOK'
    BY <1>9, <2>2 DEF TimeoutInPhase2, NetTypeOK
  <2> QED
    BY <2>1, <2>3
<1> QED
  BY <1>2, <1>3, <1>4, <1>5, <1>6, <1>7, <1>8, <1>9 DEF InvokerNext

\* Every reachable state satisfies TypeOK: no handler of Invoker::request and of
\* the reactors leaves a counter, a piece order or an acknowledgement outside of
\* its range, whatever the sizes and the bounds.
THEOREM TypeCorrect == Spec => []TypeOK
<1> USE PiecesAssumption, CallsAssumption, NetworkAssumption, TryAssumption,
        ServerAssumption
<1>1. Init => TypeOK
  <2>1. Init => NetTypeOK
    BY DEF Init, NetInit, NetTypeOK
  <2>2. Init => InvokerTypeOK
    <3>1. Init => piece_data \in [Calls -> [Orders(RespPieces) -> Data]]
      BY DEF Init, InvokerInit, Data, NoData
    <3>2. Init => outcome \in [Calls -> {"none", "OK"} \cup Reasons]
      BY DEF Init, InvokerInit
    <3>3. Init => /\ message_id \in 0 .. MaxCalls
                  /\ ack_accept \in 0 .. ReqPieces
                  /\ slots \in 0 .. ReqPieces
                  /\ tries \in 0 .. TryTimes
      BY DEF Init, InvokerInit
    <3>4. Init => phase = "idle" /\ heard \in BOOLEAN
      BY DEF Init, InvokerInit
    <3> QED
      BY <3>1, <3>2, <3>3, <3>4 DEF InvokerTypeOK
  <2>3. Init => SubReactorTypeOK
    BY SubReactorInitType DEF Init
  <2> QED
    BY <2>1, <2>2, <2>3 DEF TypeOK
<1>2. TypeOK /\ [Next]_vars => TypeOK'
  <2> SUFFICES ASSUME TypeOK, [Next]_vars PROVE TypeOK'
    OBVIOUS
  <2>1. UNCHANGED clientVars => InvokerTypeOK'
    BY DEF TypeOK, InvokerTypeOK, clientVars
  <2>2. UNCHANGED serverVars => SubReactorTypeOK'
    BY DEF TypeOK, SubReactorTypeOK, MessageStateOK, serverVars, requestVars,
           responseVars, boundVars
  <2>3. UNCHANGED netVars => NetTypeOK'
    BY DEF TypeOK, NetTypeOK, netVars
  <2>4. Lose => NetTypeOK'
    BY DEF TypeOK, NetTypeOK, Lose
  <2> QED
    BY <2>1, <2>2, <2>3, <2>4, InvokerTypeStep, SubReactorTypeStep
    DEF TypeOK, Next, Finished, vars
<1> QED
  BY <1>1, <1>2, PTL DEF Spec
--------------------------------------------------------------------------------
\* A step of the client only takes datagrams from the server's channel.
LEMMA ClientTakes ==
  ASSUME InvokerNext
  PROVE  toClient' \subseteq toClient
BY DEF InvokerNext, Request, GiveUp, Round, EnterPhase2, ReceiveInPhase1,
       TimeoutInPhase1, ReceiveInPhase2, TimeoutInPhase2, Take, netVars
--------------------------------------------------------------------------------
\* TriggeredOnce holds in every reachable state.
LEMMA TriggeredOnceInvariant == Spec => []TriggeredOnce
<1>1. Init => TriggeredOnce
  BY DEF Init, SubReactorInit, TriggeredOnce
<1>2. TypeOK /\ TriggeredOnce /\ [Next]_vars => TriggeredOnce'
  <2> SUFFICES ASSUME TypeOK, TriggeredOnce, [Next]_vars PROVE TriggeredOnce'
    OBVIOUS
  <2>1. CASE UNCHANGED serverVars
    BY <2>1 DEF TriggeredOnce, serverVars, requestVars, boundVars
  <2>2. CASE SubReactorNext
    BY <2>2, ServerKeepsTriggered DEF TypeOK
  <2> QED
    BY <2>1, <2>2 DEF Next, Finished, vars
<1> QED
  BY <1>1, <1>2, TypeCorrect, PTL DEF Spec

\* A call is executed at most once more than the server forgot its request
\* (trigger and Request::is_trigger).
THEOREM ExecutionsAreBounded == Spec => []ExecutionsBounded
<1>1. TypeOK /\ TriggeredOnce => ExecutionsBounded
  BY DEF TypeOK, SubReactorTypeOK, MessageStateOK, TriggeredOnce, ExecutionsBounded
<1> QED
  BY <1>1, TriggeredOnceInvariant, TypeCorrect, PTL
--------------------------------------------------------------------------------
\* A step of the server keeps RequestInv.
LEMMA ServerKeepsRequestInv ==
  ASSUME TypeOK, RequestInv, SubReactorNext, UNCHANGED clientVars
  PROVE  RequestInv'
<1> SUFFICES ASSUME NothingForgotten'
             PROVE  AcksCoverStored' /\ OnlyExecuted' /\ ExecutedIsWhole' /\ AcceptCoversStored'
  BY DEF RequestInv
<1>1. /\ NothingForgotten
      /\ \A i \in Calls : piece_state[i] \subseteq piece_state'[i]
  BY ServerForgetsNothing DEF TypeOK
<1>2. AcksCoverStored' /\ OnlyExecuted' /\ ExecutedIsWhole'
  BY <1>1, ServerKeepsStored DEF TypeOK, RequestInv, StoredInv
<1>3. AcceptCoversStored'
  BY <1>1, CallsAssumption
  DEF RequestInv, AcceptCoversStored, clientVars, TypeOK, InvokerTypeOK, Calls
<1> QED
  BY <1>2, <1>3

\* A step of the client keeps RequestInv.
LEMMA ClientKeepsRequestInv ==
  ASSUME TypeOK, RequestInv, InvokerNext, UNCHANGED serverVars
  PROVE  RequestInv'
<1> SUFFICES ASSUME NothingForgotten'
             PROVE  AcksCoverStored' /\ OnlyExecuted' /\ ExecutedIsWhole' /\ AcceptCoversStored'
  BY DEF RequestInv
<1>1. /\ UNCHANGED <<piece_state, executions, tasks, results, response>>
      /\ NothingForgotten
      /\ toClient' \subseteq toClient
  BY ClientTakes DEF serverVars, requestVars, responseVars, boundVars, NothingForgotten
<1>2. AcksCoverStored /\ OnlyExecuted /\ ExecutedIsWhole /\ AcceptCoversStored
  BY <1>1 DEF RequestInv
<1>3. AcksCoverStored' /\ OnlyExecuted' /\ ExecutedIsWhole'
  BY <1>1, <1>2 DEF AcksCoverStored, OnlyExecuted, ExecutedIsWhole
<1>4. CASE \/ Round \/ EnterPhase2 \/ TimeoutInPhase1
           \/ \E m \in toClient : ReceiveInPhase2(m)
           \/ TimeoutInPhase2
  <2>1. phase # "idle" /\ UNCHANGED <<message_id, ack_accept>>
    BY <1>4 DEF Round, EnterPhase2, TimeoutInPhase1, ReceiveInPhase2, TimeoutInPhase2
  <2> QED
    BY <1>1, <1>2, <1>3, <2>1 DEF AcceptCoversStored
<1>5. CASE Request
  BY <1>3, <1>5 DEF Request, AcceptCoversStored
<1>6. CASE GiveUp
  BY <1>3, <1>6 DEF GiveUp, Return, AcceptCoversStored
<1>7. ASSUME NEW m \in toClient, ReceiveInPhase1(m)
      PROVE  AcceptCoversStored'
  <2>1. phase # "idle" /\ UNCHANGED message_id
    BY <1>7 DEF ReceiveInPhase1
  <2>2. CASE SkipInPhase1(m)
    BY <1>1, <1>2, <2>1, <2>2 DEF SkipInPhase1, AcceptCoversStored
  <2>3. CASE HearInPhase1(m)
    <3>1. CASE UNCHANGED ack_accept
      BY <1>1, <1>2, <2>1, <3>1 DEF AcceptCoversStored
    <3>2. CASE m.phase = "Response" /\ ack_accept' = ReqPieces
      <4>1. m.id \in Calls /\ m.id = message_id
        BY <2>3, <3>2, FromServerFields DEF HearInPhase1, IsMine, TypeOK, NetTypeOK
      <4>2. piece_state[message_id] = AllRequestPieces
        BY <1>2, <3>2, <4>1 DEF OnlyExecuted, ExecutedIsWhole
      <4> QED
        BY <1>1, <2>1, <3>2, <4>2 DEF AcceptCoversStored, AllRequestPieces, Orders
    <3>3. CASE /\ m.phase = "Request" /\ m.type = "ReceiverACK"
               /\ ack_accept' = Larger(ack_accept, m.order)
      BY <1>1, <1>2, <2>1, <2>3, <3>3
      DEF HearInPhase1, IsMine, AcksCoverStored, AcceptCoversStored, Larger
    <3>4. m.phase \in {"Request", "Response"}
      BY FromServerFields DEF TypeOK, NetTypeOK
    <3> QED
      BY <2>3, <3>1, <3>2, <3>3, <3>4 DEF HearInPhase1, AckAfter
  <2> QED
    BY <1>7, <2>2, <2>3 DEF ReceiveInPhase1
<1> QED
  BY <1>3, <1>4, <1>5, <1>6, <1>7 DEF InvokerNext

\* RequestInv holds in every reachable state.
LEMMA RequestInvariant == Spec => []RequestInv
<1>1. Init => RequestInv
  BY DEF Init, NetInit, InvokerInit, SubReactorInit, RequestInv, AcksCoverStored,
         OnlyExecuted, ExecutedIsWhole, AcceptCoversStored
<1>2. TypeOK /\ RequestInv /\ [Next]_vars => RequestInv'
  <2> SUFFICES ASSUME TypeOK, RequestInv, [Next]_vars PROVE RequestInv'
    OBVIOUS
  <2>1. CASE UNCHANGED <<clientVars, serverVars>> /\ toClient' \subseteq toClient
    BY <2>1
    DEF RequestInv, NothingForgotten, AcksCoverStored, OnlyExecuted, ExecutedIsWhole,
        AcceptCoversStored, clientVars, serverVars, requestVars, responseVars, boundVars
  <2> QED
    BY <2>1, ClientKeepsRequestInv, ServerKeepsRequestInv
    DEF Next, Lose, Finished, vars, netVars
<1> QED
  BY <1>1, <1>2, TypeCorrect, PTL DEF Spec

\* The client only believes acknowledged what the server stored, as long as the
\* server forgot nothing (Invoker::request, the largest acknowledgement).
THEOREM AcknowledgedPiecesAreStored == Spec => []AcknowledgedIsStored
<1>1. RequestInv => AcknowledgedIsStored
  BY DEF RequestInv, NothingForgotten, AcceptCoversStored, AcknowledgedIsStored
<1> QED
  BY <1>1, RequestInvariant, PTL

\* Only a whole request is executed (SubReactor::trigger on both paths).
THEOREM ExecutedRequestsAreWhole == Spec => []ExecutedWhole
<1>1. RequestInv => ExecutedWhole
  BY DEF RequestInv, NothingForgotten, ExecutedIsWhole, ExecutedWhole
<1> QED
  BY <1>1, RequestInvariant, PTL
--------------------------------------------------------------------------------
\* A piece the client stored stays as it is.
LEMMA PiecesStay ==
  ASSUME TypeOK, InvokerNext
  PROVE  \A i \in Calls : \A k \in Orders(RespPieces) :
           piece_data[i][k] # NoData => piece_data'[i][k] = piece_data[i][k]
<1> USE DEF TypeOK, InvokerTypeOK
<1>1. CASE UNCHANGED piece_data
  BY <1>1
<1>2. ASSUME NEW m \in toClient, HearResponsePiece(m)
      PROVE  \A i \in Calls : \A k \in Orders(RespPieces) :
               piece_data[i][k] # NoData => piece_data'[i][k] = piece_data[i][k]
  <2>1. m.id \in Calls /\ m.order \in Orders(RespPieces)
    BY <1>2, FromServerFields DEF HearResponsePiece, NetTypeOK
  <2>2. piece_data' = [piece_data EXCEPT ![m.id][m.order] = IF @ = NoData THEN m.data ELSE @]
    BY <1>2 DEF HearResponsePiece
  <2> QED
    BY <2>1, <2>2
<1> QED
  BY <1>1, <1>2
  DEF InvokerNext, Request, GiveUp, Round, EnterPhase2, ReceiveInPhase1,
      TimeoutInPhase1, ReceiveInPhase2, TimeoutInPhase2, HearServerAlive, SkipInPhase2

\* The acknowledgements a step of the client sends cover stored pieces only.
LEMMA ClientAcknowledges ==
  ASSUME TypeOK, InvokerNext
  PROVE  \A d \in toServer' \ toServer : d.type = "ReceiverACK" =>
           0 .. d.order - 1 \subseteq Stored(piece_data', d.id)
<1>1. CASE UNCHANGED toServer
  BY <1>1
<1>2. CASE Round
  BY <1>2 DEF Round, RequestPiece, Header
<1>3. CASE TimeoutInPhase1 \/ TimeoutInPhase2
  BY <1>3 DEF TimeoutInPhase1, TimeoutInPhase2, RequestACK, RequestHeartbeat, Header
<1>4. ASSUME NEW m \in toClient, HearResponsePiece(m)
      PROVE  \A d \in toServer' \ toServer :
               0 .. d.order - 1 \subseteq Stored(piece_data', d.id)
  <2> DEFINE ack == getAckNumber(Stored(piece_data', m.id), RespPieces)
  <2>1. toServer' = toServer \cup {ResponseACK(m.id, ack)}
    BY <1>4 DEF HearResponsePiece, IsMine
  <2>2. 0 .. ack - 1 \subseteq Stored(piece_data', m.id)
    BY AckNumberIsPrefix, PiecesAssumption
  <2> QED
    BY <2>1, <2>2 DEF ResponseACK, Header
<1> QED
  BY <1>1, <1>2, <1>3, <1>4
  DEF InvokerNext, Request, GiveUp, EnterPhase2, ReceiveInPhase1, ReceiveInPhase2,
      HearServerAlive, SkipInPhase2, netVars

\* The server never takes for delivered what the client does not have
\* (Response::setAckAccept, Invoker::sendResponseACK).
THEOREM DeliveredPiecesAreReceived == Spec => []DeliveredIsReceived
<1>1. Init => ResponseInv
  BY DEF Init, NetInit, SubReactorInit, ResponseInv, DeliveredIsReceived
<1>2. TypeOK /\ ResponseInv /\ [Next]_vars => ResponseInv'
  <2> SUFFICES ASSUME TypeOK, ResponseInv, [Next]_vars PROVE ResponseInv'
    OBVIOUS
  <2>1. CASE /\ UNCHANGED <<piece_data, response_ack>>
             /\ toServer' \cup mainBuffer' \subseteq toServer \cup mainBuffer
    BY <2>1 DEF ResponseInv, DeliveredIsReceived
  <2>2. ASSUME InvokerNext, UNCHANGED serverVars PROVE ResponseInv'
    <3>1. \A i \in Calls : Stored(piece_data, i) \subseteq Stored(piece_data', i)
      BY <2>2, PiecesStay DEF Stored
    <3>2. UNCHANGED <<mainBuffer, response_ack>>
      BY <2>2 DEF serverVars, responseVars
    <3>3. \A m \in toServer \cup mainBuffer : m.id \in Calls
      BY FromClientFields DEF TypeOK, NetTypeOK, SubReactorTypeOK
    <3>4. \A m \in toServer' \cup mainBuffer' : m.type = "ReceiverACK" =>
            0 .. m.order - 1 \subseteq Stored(piece_data', m.id)
      BY <2>2, <3>1, <3>2, <3>3, ClientAcknowledges DEF ResponseInv
    <3>5. DeliveredIsReceived'
      BY <3>1, <3>2 DEF ResponseInv, DeliveredIsReceived
    <3> QED
      BY <3>4, <3>5 DEF ResponseInv
  <2>3. CASE SubReactorNext /\ UNCHANGED clientVars
    <3>1. UNCHANGED piece_data /\ NetTypeOK /\ SubReactorTypeOK
      BY <2>3 DEF clientVars, TypeOK
    <3>2. DeliveredIsReceived'
      BY <2>3, <3>1, ServerTakesDelivered DEF ResponseInv, DeliveredIsReceived
    <3> QED
      BY <2>3, <3>1, <3>2, ServerTakesDelivered DEF ResponseInv
  <2>4. CASE Lose /\ UNCHANGED <<clientVars, serverVars>>
    BY <2>1, <2>4 DEF Lose, clientVars, serverVars, responseVars
  <2> QED
    BY <2>1, <2>2, <2>3, <2>4
    DEF Next, Finished, vars, clientVars, serverVars, responseVars, netVars
<1>3. ResponseInv => DeliveredIsReceived
  BY DEF ResponseInv
<1> QED
  BY <1>1, <1>2, <1>3, TypeCorrect, PTL DEF Spec

\* No step takes back an acknowledgement or a stored piece of a response while
\* the call goes on (the maximum kept by Invoker::request, the guard of
\* ResponseData::setPieceState).
THEOREM NothingIsUnlearned == Spec => NothingUnlearned
<1>1. TypeOK /\ [Next]_vars => [KeepsWhatItLearned]_vars
  <2> SUFFICES ASSUME TypeOK, Next PROVE KeepsWhatItLearned
    OBVIOUS
  <2>1. CASE UNCHANGED clientVars
    BY <2>1 DEF KeepsWhatItLearned, clientVars, TypeOK, InvokerTypeOK
  <2>2. CASE InvokerNext
    <3> SUFFICES ASSUME message_id' = message_id PROVE ack_accept' >= ack_accept
      BY <2>2, PiecesStay DEF KeepsWhatItLearned
    <3> USE DEF TypeOK, InvokerTypeOK
    <3>1. CASE UNCHANGED ack_accept
      BY <3>1
    <3>2. ASSUME NEW m \in toClient, HearInPhase1(m) PROVE ack_accept' >= ack_accept
      <4>1. /\ m.phase \in {"Request", "Response"}
            /\ m.phase = "Request" /\ m.type = "ReceiverACK" => m.order \in 0 .. ReqPieces
        BY FromServerFields DEF NetTypeOK
      <4>2. ack_accept' \in {ack_accept, AckAfter(m)}
        BY <3>2 DEF HearInPhase1
      <4>3. AckAfter(m) >= ack_accept
        BY <4>1, LargerIsMaximum, PiecesAssumption DEF AckAfter
      <4> QED
        BY <4>2, <4>3
    <3>3. ~Request
      BY DEF Request
    <3> QED
      BY <2>2, <3>1, <3>2, <3>3
      DEF InvokerNext, GiveUp, Round, EnterPhase2, ReceiveInPhase1, SkipInPhase1,
          TimeoutInPhase1, ReceiveInPhase2, TimeoutInPhase2
  <2> QED
    BY <2>1, <2>2 DEF Next, Finished, vars
<1> QED
  BY <1>1, TypeCorrect, PTL DEF Spec, NothingUnlearned
--------------------------------------------------------------------------------
\* A step of the server keeps FirstExecutionInv.
LEMMA ServerKeepsFirstExecution ==
  ASSUME TypeOK, TriggeredOnce, FirstExecutionInv, SubReactorNext, UNCHANGED clientVars,
         NothingForgotten', reuses' = 0
  PROVE  FirstInFlight' /\ FirstReceived'
<1>1. /\ NothingForgotten
      /\ \A i \in Calls : executions[i] > 0 => executions'[i] > 0
  BY ServerForgetsNothing DEF TypeOK
<1>2. reuses = 0
  BY ReusesOnlyGrow DEF TypeOK
<1>3. FirstInFlight'
  BY <1>1, <1>2, ServerKeepsFirst DEF TypeOK, FirstExecutionInv
<1>4. FirstReceived'
  BY <1>1, <1>2 DEF FirstExecutionInv, FirstReceived, clientVars
<1> QED
  BY <1>3, <1>4

\* A step of the client keeps FirstExecutionInv.
LEMMA ClientKeepsFirstExecution ==
  ASSUME TypeOK, RequestInv, FirstInFlight, FirstReceived, NothingForgotten,
         InvokerNext, UNCHANGED serverVars
  PROVE  FirstInFlight' /\ FirstReceived'
<1> USE DEF TypeOK, InvokerTypeOK
<1>1. UNCHANGED <<tasks, results, response, executions>> /\ toClient' \subseteq toClient
  BY ClientTakes DEF serverVars, requestVars, responseVars
<1>2. FirstInFlight'
  BY <1>1 DEF FirstInFlight
<1>3. ASSUME UNCHANGED piece_data,
             \A i \in Calls : outcome'[i] = "OK" => outcome[i] = "OK"
      PROVE  FirstReceived'
  BY <1>1, <1>3 DEF FirstReceived
<1>4. ASSUME NEW m \in toClient, ReceiveInPhase2(m), HearResponsePiece(m)
      PROVE  FirstReceived'
  <2>1. /\ m.id \in Calls /\ m.order \in Orders(RespPieces)
        /\ m.id = message_id /\ m.phase = "Response"
    BY <1>4, FromServerFields DEF HearResponsePiece, IsMine, NetTypeOK
  <2>2. m.data = 1 /\ executions[m.id] > 0
    BY <2>1 DEF FirstInFlight, RequestInv, OnlyExecuted
  <2>3. piece_data' = [piece_data EXCEPT ![m.id][m.order] = IF @ = NoData THEN m.data ELSE @]
    BY <1>4 DEF HearResponsePiece
  <2>4. \A i \in Calls : \A k \in Orders(RespPieces) :
          /\ piece_data'[i][k] \in {NoData, 1}
          /\ piece_data'[i][k] # NoData => executions'[i] > 0
          /\ piece_data[i][k] # NoData => piece_data'[i][k] # NoData
    BY <1>1, <2>1, <2>2, <2>3 DEF FirstReceived
  <2>5. ASSUME outcome'[m.id] = "OK", outcome[m.id] # "OK", NEW k \in Orders(RespPieces)
        PROVE  piece_data'[m.id][k] # NoData
    <3>1. getAckNumber(Stored(piece_data', m.id), RespPieces) = RespPieces
      BY <1>4, <2>5 DEF HearResponsePiece
    <3>2. Stored(piece_data', m.id) \in SUBSET Orders(RespPieces)
      BY DEF Stored
    <3> QED
      BY <3>1, <3>2, AckNumberOfWhole, PiecesAssumption DEF Stored
  <2>6. \A i \in Calls : i # m.id => outcome'[i] = outcome[i]
    BY <1>4, <2>1 DEF HearResponsePiece, Return
  <2> QED
    BY <2>4, <2>5, <2>6 DEF FirstReceived
<1>5. ASSUME NEW reason \in Reasons, Return(reason)
      PROVE  \A i \in Calls : outcome'[i] = "OK" => outcome[i] = "OK"
  BY <1>5 DEF Return, Reasons
<1>6. CASE GiveUp \/ TimeoutInPhase2
  <2>1. Return("NetworkTimeout") \/ UNCHANGED outcome
    BY <1>6 DEF GiveUp, TimeoutInPhase2
  <2>2. \A i \in Calls : outcome'[i] = "OK" => outcome[i] = "OK"
    BY <1>5, <2>1 DEF Reasons
  <2>3. UNCHANGED piece_data
    BY <1>6 DEF GiveUp, TimeoutInPhase2
  <2> QED
    BY <1>2, <1>3, <2>2, <2>3
<1>7. ASSUME NEW m \in toClient, ReceiveInPhase1(m)
      PROVE  FirstReceived'
  BY <1>3, <1>5, <1>7 DEF ReceiveInPhase1, HearInPhase1, SkipInPhase1, Reasons
<1> QED
  BY <1>2, <1>3, <1>4, <1>6, <1>7
  DEF InvokerNext, Request, Round, EnterPhase2, TimeoutInPhase1, ReceiveInPhase2,
      HearServerAlive, SkipInPhase2

\* FirstExecutionInv holds in every reachable state.
LEMMA FirstExecutionInvariant == Spec => []FirstExecutionInv
<1>1. Init => FirstExecutionInv
  BY DEF Init, NetInit, InvokerInit, SubReactorInit, FirstExecutionInv,
         FirstInFlight, FirstReceived
<1>2. TypeOK /\ TriggeredOnce /\ RequestInv /\ FirstExecutionInv /\ [Next]_vars
        => FirstExecutionInv'
  <2> SUFFICES ASSUME TypeOK, TriggeredOnce, RequestInv, FirstExecutionInv, [Next]_vars,
                      NothingForgotten', reuses' = 0
               PROVE  FirstInFlight' /\ FirstReceived'
    BY DEF FirstExecutionInv
  <2>1. CASE UNCHANGED serverVars
    <3>1. FirstInFlight /\ FirstReceived /\ NothingForgotten
      BY <2>1 DEF serverVars, boundVars, NothingForgotten, FirstExecutionInv
    <3>2. CASE UNCHANGED clientVars /\ toClient' \subseteq toClient
      BY <2>1, <3>1, <3>2
      DEF clientVars, serverVars, requestVars, responseVars, FirstInFlight, FirstReceived
    <3>3. CASE InvokerNext
      BY <2>1, <3>1, <3>3, ClientKeepsFirstExecution
    <3> QED
      BY <2>1, <3>2, <3>3, ServerKeepsFirstExecution
      DEF Next, Lose, Finished, vars, netVars
  <2> QED
    BY <2>1, ServerKeepsFirstExecution DEF Next, Lose, Finished, vars
<1> QED
  BY <1>1, <1>2, TypeCorrect, TriggeredOnceInvariant, RequestInvariant, PTL DEF Spec

\* A response that is returned is whole and comes from one execution, provided
\* that the server forgets nothing and that no freed buffer is reused: what
\* StoreResponse and judgeDelete would otherwise break.
THEOREM ResponsesComeFromOneExecution ==
  Spec => [](NothingForgotten /\ reuses = 0 => ResponseFromOneExecution)
<1>1. TypeOK /\ FirstExecutionInv
        => (NothingForgotten /\ reuses = 0 => ResponseFromOneExecution)
  <2> SUFFICES ASSUME TypeOK, FirstInFlight, FirstReceived, NEW i \in Calls, outcome[i] = "OK"
               PROVE  \E n \in 1 .. executions[i] :
                        \A k \in Orders(RespPieces) : piece_data[i][k] = n
    BY DEF FirstExecutionInv, ResponseFromOneExecution
  <2>1. 0 \in Orders(RespPieces)
    BY PiecesAssumption DEF Orders
  <2>2. executions[i] \in Nat /\ executions[i] > 0
    BY <2>1 DEF FirstReceived, TypeOK, SubReactorTypeOK, MessageStateOK
  <2>3. \A k \in Orders(RespPieces) : piece_data[i][k] = 1
    BY DEF FirstReceived
  <2> QED
    BY <2>2, <2>3
<1> QED
  BY <1>1, TypeCorrect, FirstExecutionInvariant, PTL
--------------------------------------------------------------------------------
\* A step of the client, as far as its caller sees it.
LEMMA InvokerCases ==
  ASSUME TypeOK, InvokerNext
  PROVE  \/ /\ Request
         \/ /\ UNCHANGED <<message_id, outcome>>
            /\ phase # "idle" /\ phase' # "idle"
         \/ /\ UNCHANGED message_id
            /\ phase # "idle"
            /\ \E reason \in Reasons \cup {"OK"} : Return(reason)
BY DEF InvokerNext, GiveUp, Round, EnterPhase2, ReceiveInPhase1, HearInPhase1,
       SkipInPhase1, TimeoutInPhase1, ReceiveInPhase2, HearServerAlive,
       HearResponsePiece, SkipInPhase2, TimeoutInPhase2, Reasons

\* What the client sends is of the call under way.
LEMMA ClientSendsOwn ==
  ASSUME InvokerNext
  PROVE  \A m \in toServer' \ toServer : m.id = message_id /\ message_id' = message_id
<1> DEFINE Own == \A m \in toServer' \ toServer : m.id = message_id /\ message_id' = message_id
<1>1. CASE Round
  BY <1>1 DEF Round, RequestPiece, Header
<1>2. CASE TimeoutInPhase1
  BY <1>2 DEF TimeoutInPhase1, RequestACK, Header
<1>3. CASE TimeoutInPhase2
  BY <1>3 DEF TimeoutInPhase2, RequestHeartbeat, Header
<1>4. ASSUME NEW m \in toClient, ReceiveInPhase2(m) PROVE Own
  <2>1. message_id' = message_id
    BY <1>4 DEF ReceiveInPhase2
  <2>2. CASE HearResponsePiece(m)
    BY <2>1, <2>2 DEF HearResponsePiece, ResponseACK, Header
  <2> QED
    BY <1>4, <2>1, <2>2 DEF ReceiveInPhase2, HearServerAlive, SkipInPhase2
<1>5. CASE toServer' = toServer
  BY <1>5
<1> QED
  BY <1>1, <1>2, <1>3, <1>4, <1>5
  DEF InvokerNext, Request, GiveUp, EnterPhase2, ReceiveInPhase1, netVars

LEMMA CallsInTurnInvariant == Spec => []CallsInTurn
<1>1. Init => CallsInTurn
  BY DEF Init, InvokerInit, CallsInTurn, Calls
<1>2. TypeOK /\ CallsInTurn /\ [Next]_vars => CallsInTurn'
  <2> SUFFICES ASSUME TypeOK, CallsInTurn, [Next]_vars PROVE CallsInTurn'
    OBVIOUS
  <2> USE CallsAssumption DEF TypeOK, InvokerTypeOK, CallsInTurn, Calls
  <2>1. CASE UNCHANGED clientVars
    BY <2>1 DEF clientVars
  <2>2. CASE Request
    BY <2>2 DEF Request
  <2>3. CASE UNCHANGED <<message_id, outcome>> /\ phase # "idle" /\ phase' # "idle"
    BY <2>3
  <2>4. ASSUME UNCHANGED message_id, phase # "idle",
               NEW reason \in Reasons \cup {"OK"}, Return(reason)
        PROVE  CallsInTurn'
    BY <2>4 DEF Return, Reasons
  <2>5. CASE InvokerNext
    BY <2>2, <2>3, <2>4, <2>5, InvokerCases
  <2> QED
    BY <2>1, <2>5 DEF Next, Finished, vars
<1> QED
  BY <1>1, <1>2, TypeCorrect, PTL DEF Spec

LEMMA HeardOfMadeInvariant == Spec => []HeardOfMade
<1>1. Init => HeardOfMade
  BY DEF Init, NetInit, SubReactorInit, HeardOfMade
<1>2. TypeOK /\ HeardOfMade /\ [Next]_vars => HeardOfMade'
  <2> SUFFICES ASSUME TypeOK, HeardOfMade, [Next]_vars PROVE HeardOfMade'
    OBVIOUS
  <2>1. message_id \in Int
    BY DEF TypeOK, InvokerTypeOK
  <2>2. CASE message_id' = message_id /\ toServer' \cup mainBuffer' \subseteq toServer \cup mainBuffer
    BY <2>2 DEF HeardOfMade
  <2>3. CASE InvokerNext /\ UNCHANGED serverVars
    <3>1. message_id' \in {message_id, message_id + 1}
      BY <2>3, InvokerCases DEF Request
    <3>2. \A m \in FromClient : m.id \in Int
      BY FromClientFields DEF Calls
    <3>3. \A m \in toServer \cup mainBuffer : m.id \in Int
      BY <3>2 DEF TypeOK, NetTypeOK, SubReactorTypeOK
    <3> QED
      BY <2>1, <2>3, <3>1, <3>3, ClientSendsOwn DEF HeardOfMade, serverVars
  <2>4. CASE SubReactorNext /\ UNCHANGED clientVars
    <3>1. message_id' = message_id
      BY <2>4 DEF clientVars
    <3> QED
      BY <2>2, <2>4, <3>1, ServerTakesDelivered DEF TypeOK
  <2> QED
    BY <2>2, <2>3, <2>4
    DEF Next, Lose, Finished, vars, clientVars, serverVars, netVars
<1> QED
  BY <1>1, <1>2, TypeCorrect, PTL DEF Spec

\* While the server forgets nothing, OK is the result of the first execution.
LEMMA ResultIsFirst ==
  ASSUME FirstReceived, NEW i \in Calls
  PROVE  ResultOf(i) = IF outcome[i] = "OK" THEN 1 ELSE 0
<1>1. 0 \in Orders(RespPieces)
  BY PiecesAssumption DEF Orders
<1>2. ASSUME outcome[i] = "OK" PROVE \A k \in Orders(RespPieces) : piece_data[i][k] = 1
  BY <1>2 DEF FirstReceived
<1> QED
  BY <1>1, <1>2 DEF ResultOf

\* A step is one of RpcCall, or changes nothing that RpcCall sees.
LEMMA StepOfRpcCall ==
  ASSUME TypeOK, TypeOK', CallsInTurn, HeardOfMade, FirstReceived, FirstReceived', [Next]_vars
  PROVE  [RPC!Next]_(RPC!vars)
<1> DEFINE Seen(o, i, last) ==
             IF o = "OK" THEN "OK" ELSE IF o # "none" THEN "failed"
             ELSE IF i <= last THEN "pending" ELSE "new"
           Results(o) == [i \in Calls |-> IF o[i] = "OK" THEN 1 ELSE 0]
<1>1. /\ AbstractCalls = [i \in Calls |-> Seen(outcome[i], i, message_id)]
      /\ AbstractCalls' = [i \in Calls |-> Seen(outcome'[i], i, message_id')]
  BY DEF AbstractCalls, TypeOK, InvokerTypeOK, Reasons
<1>2. [i \in Calls |-> ResultOf(i)] = Results(outcome)
  BY ResultIsFirst
<1>3. [i \in Calls |-> ResultOf(i)]' = Results(outcome')
  <2>1. 0 \in Orders(RespPieces)
    BY PiecesAssumption DEF Orders
  <2> QED
    BY <2>1 DEF ResultOf, FirstReceived
<1> HIDE DEF Seen, Results
<1>4. CASE UNCHANGED <<message_id, outcome, executions>>
  BY <1>1, <1>2, <1>3, <1>4 DEF RPC!vars
<1>5. CASE InvokerNext /\ UNCHANGED serverVars
  <2>1. executions' = executions
    BY <1>5 DEF serverVars, requestVars
  <2>2. CASE Request
    <3> DEFINE i == message_id + 1
    <3>1. i \in Calls
      BY <2>2, CallsAssumption DEF Request, Calls, TypeOK, InvokerTypeOK
    <3>2. message_id \in Int /\ message_id' = i /\ outcome' = outcome /\ phase = "idle"
      BY <2>2 DEF Request, TypeOK, InvokerTypeOK
    <3>3. outcome[i] = "none"
      BY <3>1, <3>2 DEF CallsInTurn
    <3>4. \A j \in Calls : j < i => outcome[j] # "none"
      BY <3>2 DEF CallsInTurn, Calls
    <3>5. AbstractCalls[i] = "new"
      BY <1>1, <3>1, <3>2, <3>3 DEF Seen
    <3>6. \A j \in Calls : j < i => AbstractCalls[j] \in {"OK", "failed"}
      BY <1>1, <3>4 DEF Seen
    <3>7. \A j \in Calls : AbstractCalls'[j] =
                             IF j = i THEN "pending" ELSE AbstractCalls[j]
      BY <1>1, <3>2, <3>3 DEF Seen, Calls
    <3>8. AbstractCalls' = [AbstractCalls EXCEPT ![i] = "pending"]
      BY <1>1, <3>7
    <3>9. RPC!Call(i)
      BY <1>2, <1>3, <2>1, <3>2, <3>5, <3>6, <3>8 DEF RPC!Call
    <3> QED
      BY <3>1, <3>9 DEF RPC!Next
  <2>3. ASSUME UNCHANGED message_id, phase # "idle",
               NEW reason \in Reasons \cup {"OK"}, Return(reason)
        PROVE  RPC!Next
    <3> DEFINE i == message_id
    <3>1. i \in Calls /\ outcome[i] = "none" /\ outcome' = [outcome EXCEPT ![i] = reason]
      BY <2>3, CallsAssumption DEF Return, Calls, CallsInTurn, TypeOK, InvokerTypeOK
    <3>2. AbstractCalls[i] = "pending"
      BY <1>1, <3>1 DEF Seen, TypeOK, InvokerTypeOK, Calls
    <3>3. AbstractCalls' = [AbstractCalls EXCEPT ![i] = Seen(reason, i, message_id)]
      <4>1. \A j \in Calls : outcome'[j] = IF j = i THEN reason ELSE outcome[j]
        BY <3>1 DEF TypeOK, InvokerTypeOK
      <4>2. \A j \in Calls : AbstractCalls'[j] =
              IF j = i THEN Seen(reason, i, message_id) ELSE AbstractCalls[j]
        BY <1>1, <2>3, <4>1
      <4> QED
        BY <1>1, <4>2
    <3>4. CASE reason = "OK"
      <4>1. AbstractCalls' = [AbstractCalls EXCEPT ![i] = "OK"]
        BY <3>3, <3>4 DEF Seen
      <4>2. Results(outcome') = [Results(outcome) EXCEPT ![i] = 1]
        BY <3>1, <3>4 DEF Results, TypeOK, InvokerTypeOK
      <4>3. 1 \in 1 .. executions[i]
        <5>1. 0 \in Orders(RespPieces)
          BY PiecesAssumption DEF Orders
        <5>2. outcome'[i] = "OK"
          BY <3>1, <3>4 DEF TypeOK, InvokerTypeOK
        <5>3. executions'[i] > 0
          BY <3>1, <5>1, <5>2 DEF FirstReceived
        <5> QED
          BY <2>1, <3>1, <5>3 DEF TypeOK, SubReactorTypeOK, MessageStateOK
      <4>4. RPC!ReturnOK(i)
        BY <1>2, <1>3, <2>1, <3>2, <4>1, <4>2, <4>3 DEF RPC!ReturnOK
      <4> QED
        BY <3>1, <4>4 DEF RPC!Next
    <3>5. CASE reason # "OK"
      <4>1. AbstractCalls' = [AbstractCalls EXCEPT ![i] = "failed"]
        BY <3>3, <3>5 DEF Seen, Reasons
      <4>2. Results(outcome') = Results(outcome)
        BY <3>1, <3>5 DEF Results, TypeOK, InvokerTypeOK
      <4>3. RPC!Fail(i)
        BY <1>2, <1>3, <2>1, <3>2, <4>1, <4>2 DEF RPC!Fail
      <4> QED
        BY <3>1, <4>3 DEF RPC!Next
    <3> QED
      BY <3>4, <3>5
  <2> QED
    BY <1>4, <1>5, <2>1, <2>2, <2>3, InvokerCases
<1>6. CASE SubReactorNext /\ UNCHANGED clientVars
  <2>1. UNCHANGED <<message_id, outcome>>
    BY <1>6 DEF clientVars
  <2>2. ASSUME NEW m \in toServer \cup mainBuffer, m.id \in Calls,
               executions' = [executions EXCEPT ![m.id] = @ + 1]
        PROVE  RPC!Next
    <3>1. m.id <= message_id
      BY DEF HeardOfMade
    <3>2. AbstractCalls[m.id] # "new"
      BY <1>1, <2>2, <3>1 DEF Seen
    <3>3. RPC!Execute(m.id)
      BY <1>1, <1>2, <1>3, <2>1, <2>2, <3>2 DEF RPC!Execute
    <3> QED
      BY <2>2, <3>3 DEF RPC!Next
  <2> QED
    BY <1>4, <1>6, <2>1, <2>2, ServerRuns DEF TypeOK
<1> QED
  BY <1>4, <1>5, <1>6
  DEF Next, Lose, Finished, vars, clientVars, serverVars, requestVars

\* The protocol keeps what RpcCall promises the caller, as long as the server
\* forgets nothing and no freed buffer is reused: a call is made after the earlier
\* ones returned, executed after it was made, and returns OK only with the result
\* of an execution of its own.
THEOREM RpcCallIsImplemented ==
  Spec /\ [](NothingForgotten /\ reuses = 0) => ImplementsRpcCall
<1>1. Init => RPC!Init
  <2> SUFFICES ASSUME Init PROVE RPC!Init
    OBVIOUS
  <2>1. AbstractCalls = [i \in Calls |-> "new"]
    BY DEF Init, InvokerInit, AbstractCalls, Calls, Reasons
  <2>2. [i \in Calls |-> ResultOf(i)] = [i \in Calls |-> 0]
    BY DEF Init, InvokerInit, ResultOf
  <2>3. executions = [i \in Calls |-> 0]
    BY DEF Init, SubReactorInit
  <2> QED
    BY <2>1, <2>2, <2>3 DEF RPC!Init
<1>2. /\ TypeOK /\ TypeOK' /\ CallsInTurn /\ HeardOfMade
      /\ FirstExecutionInv /\ FirstExecutionInv'
      /\ (NothingForgotten /\ reuses = 0) /\ (NothingForgotten /\ reuses = 0)'
      /\ [Next]_vars
      => [RPC!Next]_(RPC!vars)
  BY StepOfRpcCall DEF FirstExecutionInv
<1> QED
  BY <1>1, <1>2, TypeCorrect, CallsInTurnInvariant, HeardOfMadeInvariant,
     FirstExecutionInvariant, PTL
  DEF Spec, ImplementsRpcCall, RPC!Spec
================================================================================
