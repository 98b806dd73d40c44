-------------------------------- MODULE Invoker --------------------------------
(***************************************************************************)
(* The blocking client: Invoker::request, one call after the other on one  *)
(* socket.  A call sends the pieces of its request in rounds until the     *)
(* server acknowledged them all (phase 1), then collects the pieces of     *)
(* the response (phase 2).                                                 *)
(*                                                                         *)
(* message_id is the millisecond at which the call starts: the model       *)
(* numbers the calls, since a call that reaches the server lasts longer    *)
(* than a millisecond.  MiddlewareChannel (ClientOut, ClientIn) only       *)
(* changes the bytes that are split into pieces.                           *)
(***************************************************************************)
EXTENDS SR2PMessages

CONSTANT TryTimes   \* Invoker::tryTimes

ASSUME TryAssumption == TryTimes \in Nat \ {0}

VARIABLES
  message_id,     \* the current call, 0 before the first one
  phase,          \* "idle", "sending" (phase 1) or "waiting" (phase 2)
  ack_accept,     \* pieces of the request known to be acknowledged
  slots,          \* datagrams the receive loop of this round still takes
  heard,          \* receiveMessageCount # 0
  tries,          \* needTry in phase 1, responseNeedTry in phase 2
  piece_data,     \* ResponseData of each call: what is stored per piece
  outcome         \* how each call ended, "none" while it has not

clientVars == <<message_id, phase, ack_accept, slots, heard, tries,
                piece_data, outcome>>

Reasons == {"NetworkTimeout", "TheServerResourcesExhausted"}

\* ResponseData::piece_state of call i: the orders whose piece is stored.
Stored(pieces, i) == {k \in Orders(RespPieces) : pieces[i][k] # NoData}
--------------------------------------------------------------------------------
InvokerInit ==
  /\ message_id = 0
  /\ phase = "idle"
  /\ ack_accept = 0
  /\ slots = 0
  /\ heard = FALSE
  /\ tries = TryTimes
  /\ piece_data = [i \in Calls |-> [k \in Orders(RespPieces) |-> NoData]]
  /\ outcome = [i \in Calls |-> "none"]

\* A call under way has a number and a try left.
InvokerTypeOK ==
  /\ message_id \in 0 .. MaxCalls
  /\ phase \in {"idle", "sending", "waiting"}
  /\ ack_accept \in 0 .. ReqPieces
  /\ slots \in 0 .. ReqPieces
  /\ heard \in BOOLEAN
  /\ tries \in 0 .. TryTimes
  /\ phase # "idle" => message_id # 0 /\ tries # 0
  /\ piece_data \in [Calls -> [Orders(RespPieces) -> Data]]
  /\ outcome \in [Calls -> {"none", "OK"} \cup Reasons]

\* The caller starts the next call.
Request ==
  /\ phase = "idle"
  /\ message_id < MaxCalls
  /\ message_id' = message_id + 1
  /\ phase' = "sending"
  /\ ack_accept' = 0
  /\ slots' = 0
  /\ heard' = TRUE
  /\ tries' = TryTimes
  /\ UNCHANGED <<piece_data, outcome, netVars>>

Return(result) ==
  /\ phase' = "idle"
  /\ outcome' = [outcome EXCEPT ![message_id] = result]

--------------------------------------------------------------------------------
\* Phase 1.

\* Mutant of TryLeft: one try too many.
TryLeftOffByOne == heard \/ tries > 0

TryLeft == heard \/ tries > 1

\* A round that heard nothing costs a try; no try left ends the call.
GiveUp ==
  /\ phase = "sending"
  /\ slots = 0
  /\ ~TryLeft
  /\ tries' = tries - 1
  /\ Return("NetworkTimeout")
  /\ UNCHANGED <<message_id, ack_accept, slots, heard, piece_data, netVars>>

\* The pieces a round sends, and as many datagrams does it wait for.
RoundOrders ==
  {k \in Orders(ReqPieces) :
     k >= ack_accept /\ k < ack_accept + getSendCount(ReqPieces)}

RoundSlots ==
  IF ack_accept + getSendCount(ReqPieces) < ReqPieces
    THEN getSendCount(ReqPieces)
    ELSE ReqPieces - ack_accept

\* The next round: only one that follows an answered round sends its pieces.
Round ==
  /\ phase = "sending"
  /\ slots = 0
  /\ TryLeft
  /\ ack_accept # ReqPieces
  /\ slots' = RoundSlots
  /\ heard' = FALSE
  /\ IF heard
       THEN /\ toServer' = toServer \cup
                             {RequestPiece(message_id, k) : k \in RoundOrders}
            /\ UNCHANGED tries
       ELSE /\ tries' = tries - 1
            /\ UNCHANGED toServer
  /\ UNCHANGED <<message_id, phase, ack_accept, piece_data, outcome,
                 toClient, dups, losses>>

\* Every piece is acknowledged: wait for the response.
EnterPhase2 ==
  /\ phase = "sending"
  /\ slots = 0
  /\ TryLeft
  /\ ack_accept = ReqPieces
  /\ phase' = "waiting"
  /\ tries' = TryTimes
  /\ UNCHANGED <<message_id, ack_accept, slots, heard, piece_data, outcome,
                 netVars>>
--------------------------------------------------------------------------------
\* Mutant of IsMine: the message id is not compared.
IsMineUnchecked(m) == TRUE

\* A datagram of the current call.
IsMine(m) == m.id = message_id

\* The acknowledgement that datagram m leaves the client with: a response-phase
\* datagram says that the whole request arrived; its content is dropped.
\* StateReset and TimedOutResponseHeartbeat change nothing.
AckAfter(m) ==
  CASE m.phase = "Response"                              -> ReqPieces
    [] m.phase = "Request" /\ m.type = "ReceiverACK"     -> Larger(ack_accept, m.order)
    [] m.phase = "Request" /\ m.type # "ReceiverACK"     -> ack_accept

\* Only an acknowledgement that completes the request leaves the loop early.
SlotsAfter(m) ==
  IF m.phase = "Request" /\ m.type = "ReceiverACK" /\ AckAfter(m) = ReqPieces
    THEN 0
    ELSE slots - 1

\* The receive loop takes a datagram of this call.
HearInPhase1(m) ==
  /\ IsMine(m)
  /\ heard' = TRUE
  /\ tries' = TryTimes
  /\ IF m.phase = "Request" /\ m.type = "TheServerResourcesExhausted"
       THEN /\ Return("TheServerResourcesExhausted")
            /\ slots' = 0
            /\ UNCHANGED ack_accept
       ELSE /\ ack_accept' = AckAfter(m)
            /\ slots' = SlotsAfter(m)
            /\ UNCHANGED <<phase, outcome>>

\* A datagram of another call takes a turn of the loop and nothing else.
SkipInPhase1(m) ==
  /\ ~IsMine(m)
  /\ slots' = slots - 1
  /\ UNCHANGED <<phase, ack_accept, heard, tries, outcome>>

ReceiveInPhase1(m) ==
  /\ phase = "sending"
  /\ slots > 0
  /\ Take(toClient, m, toClient')
  /\ HearInPhase1(m) \/ SkipInPhase1(m)
  /\ UNCHANGED <<message_id, piece_data, toServer, losses>>

\* Nothing came in time: ask for the acknowledgement and end the round.
TimeoutInPhase1 ==
  /\ phase = "sending"
  /\ slots > 0
  /\ slots' = 0
  /\ toServer' = toServer \cup {RequestACK(message_id)}
  /\ UNCHANGED <<message_id, phase, ack_accept, heard, tries, piece_data,
                 outcome, toClient, dups, losses>>
--------------------------------------------------------------------------------
\* Phase 2.

\* A request-phase datagram of this call only shows that the server lives.
HearServerAlive(m) ==
  /\ IsMine(m)
  /\ m.phase = "Request"
  /\ tries' = TryTimes
  /\ UNCHANGED <<phase, outcome, piece_data, toServer>>

\* A piece of the response: stored if new, acknowledged, and the last one
\* ends the call.
HearResponsePiece(m) ==
  LET pieces == [piece_data EXCEPT ![m.id][m.order] =
                   IF @ = NoData THEN m.data ELSE @]
      ack == getAckNumber(Stored(pieces, m.id), RespPieces)
  IN  /\ IsMine(m)
      /\ m.phase = "Response"
      /\ tries' = TryTimes
      /\ piece_data' = pieces
      /\ toServer' = toServer \cup {ResponseACK(message_id, ack)}
      /\ IF ack = RespPieces
           THEN Return("OK")
           ELSE UNCHANGED <<phase, outcome>>

SkipInPhase2(m) ==
  /\ ~IsMine(m)
  /\ UNCHANGED <<phase, tries, outcome, piece_data, toServer>>

ReceiveInPhase2(m) ==
  /\ phase = "waiting"
  /\ Take(toClient, m, toClient')
  /\ HearServerAlive(m) \/ HearResponsePiece(m) \/ SkipInPhase2(m)
  /\ UNCHANGED <<message_id, ack_accept, slots, heard, losses>>

\* Nothing came in time: ask whether the server is still at it.
TimeoutInPhase2 ==
  /\ phase = "waiting"
  /\ tries' = tries - 1
  /\ toServer' = toServer \cup {RequestHeartbeat(message_id)}
  /\ IF tries' <= 0
       THEN Return("NetworkTimeout")
       ELSE UNCHANGED <<phase, outcome>>
  /\ UNCHANGED <<message_id, ack_accept, slots, heard, piece_data, toClient,
                 dups, losses>>
--------------------------------------------------------------------------------
ClientReceive(m) == ReceiveInPhase1(m) \/ ReceiveInPhase2(m)

InvokerNext ==
  \/ Request
  \/ GiveUp
  \/ Round
  \/ EnterPhase2
  \/ \E m \in toClient : ReceiveInPhase1(m)
  \/ TimeoutInPhase1
  \/ \E m \in toClient : ReceiveInPhase2(m)
  \/ TimeoutInPhase2
================================================================================
