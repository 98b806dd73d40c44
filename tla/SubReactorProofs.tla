----------------------------- MODULE SubReactorProofs -----------------------------
(***************************************************************************)
(* The server, whichever client it is composed with: what the operators of *)
(* PieceBuffer and SR2PMessages return, the fields of the datagrams in     *)
(* flight, that every step of SubReactor keeps NetTypeOK and               *)
(* SubReactorTypeOK, and that it keeps the invariants of                   *)
(* SubReactorInvariants.                                                   *)
(***************************************************************************)
EXTENDS SubReactorInvariants, WellFoundedInduction, TLAPS

--------------------------------------------------------------------------------
\* getAckNumber returns the length of the longest prefix that is stored: every
\* order below it is stored and, unless it is n, it is itself missing
\* (Request::getAckNumber, ResponseData::getAckNumber).
LEMMA AckNumberIsPrefix ==
  ASSUME NEW got, NEW n \in Nat
  PROVE  /\ getAckNumber(got, n) \in 0 .. n
         /\ 0 .. getAckNumber(got, n) - 1 \subseteq got
         /\ getAckNumber(got, n) = n \/ getAckNumber(got, n) \notin got
<1> DEFINE Less == {ss \in Nat \X Nat : ss[1] < ss[2]}
           Missing == {k \in 0 .. n : k = n \/ k \notin got}
           First(k) == /\ k = n \/ k \notin got
                       /\ \A j \in 0 .. k - 1 : j \in got
<1>1. PICK k \in Missing : \A j \in Missing : <<j, k>> \notin Less
  <2>1. IsWellFoundedOn(Less, Nat)
    BY NatLessThanWellFounded DEF OpToRel
  <2>2. Missing \subseteq Nat /\ n \in Missing
    OBVIOUS
  <2> HIDE DEF Less, Missing
  <2> QED
    BY <2>1, <2>2, WFMin
<1>2. ASSUME NEW j \in Missing PROVE ~ (j < k)
  <2>1. <<j, k>> \notin Less
    BY <1>1
  <2>2. <<j, k>> \in Nat \X Nat /\ <<j, k>>[1] = j /\ <<j, k>>[2] = k
    OBVIOUS
  <2> QED
    BY <2>1, <2>2
<1>3. First(k)
  BY <1>2
<1>4. getAckNumber(got, n) \in 0 .. n /\ First(getAckNumber(got, n))
  BY <1>3 DEF getAckNumber
<1> QED
  BY <1>4

\* getAckNumber is n exactly when the whole message is stored.
LEMMA AckNumberOfWhole ==
  ASSUME NEW n \in Nat, NEW got \in SUBSET Orders(n)
  PROVE  getAckNumber(got, n) = n <=> got = Orders(n)
<1>1. ASSUME getAckNumber(got, n) = n PROVE got = Orders(n)
  BY <1>1, AckNumberIsPrefix DEF Orders
<1>2. ASSUME got = Orders(n) PROVE getAckNumber(got, n) = n
  BY <1>2, AckNumberIsPrefix DEF Orders
<1> QED
  BY <1>1, <1>2

\* A round of a sender always sends at least one piece.
LEMMA SendCountIsPositive ==
  ASSUME NEW n \in Nat
  PROVE  getSendCount(n) \in Nat \ {0}
BY DEF getSendCount

\* Larger returns one of its arguments and is below neither.
LEMMA LargerIsMaximum ==
  ASSUME NEW a \in Int, NEW b \in Int
  PROVE  /\ Larger(a, b) \in {a, b}
         /\ Larger(a, b) >= a
         /\ Larger(a, b) >= b
BY DEF Larger

--------------------------------------------------------------------------------
\* The fields of a datagram of the client, by its type.
LEMMA FromClientFields ==
  ASSUME NEW m \in FromClient
  PROVE  /\ m.id \in Calls
         /\ m.phase \in {"Request", "Response"}
         /\ m.type = "RequestSend" =>
              m.phase = "Request" /\ m.order \in Orders(ReqPieces)
         /\ m.type = "ReceiverACK" =>
              m.phase = "Response" /\ m.order \in 0 .. RespPieces
BY DEF FromClient

\* The client's datagrams belong to FromClient.
LEMMA ClientSends ==
  ASSUME NEW i \in Calls
  PROVE  /\ \A k \in Orders(ReqPieces) : RequestPiece(i, k) \in FromClient
         /\ RequestACK(i) \in FromClient
         /\ \A a \in 0 .. RespPieces : ResponseACK(i, a) \in FromClient
         /\ RequestHeartbeat(i) \in FromClient
BY DEF FromClient, RequestPiece, RequestACK, ResponseACK, RequestHeartbeat, Header

\* The fields of a datagram of the server, by its phase and type.
LEMMA FromServerFields ==
  ASSUME NEW D, NEW m \in FromServer(D)
  PROVE  /\ m.phase \in {"Request", "Response"}
         /\ m.phase = "Request" /\ m.type = "ReceiverACK" =>
              m.id \in Calls /\ m.order \in 0 .. ReqPieces
         /\ m.phase = "Response" =>
              m.id \in Calls /\ m.order \in Orders(RespPieces) /\ m.data \in D
BY DEF FromServer

\* The server's datagrams belong to FromServer.
LEMMA ServerSends ==
  ASSUME NEW D, NEW i \in Calls
  PROVE  /\ \A a \in 0 .. ReqPieces : ACK(i, a) \in FromServer(D)
         /\ Reset(i) \in FromServer(D)
         /\ Heartbeat(i) \in FromServer(D)
         /\ Exhausted \in FromServer(D)
         /\ \A k \in Orders(RespPieces), d \in D :
              ResponsePiece(i, k, d) \in FromServer(D)
BY DEF FromServer, ACK, Reset, Heartbeat, Exhausted, ResponsePiece, Header
--------------------------------------------------------------------------------
\* Taking a datagram keeps the network's types.
LEMMA TakeType ==
  ASSUME NEW channel, NEW m, NEW rest, Take(channel, m, rest),
         dups \in 0 .. MaxDups
  PROVE  m \in channel /\ rest \subseteq channel /\ dups' \in 0 .. MaxDups
BY NetworkAssumption DEF Take

\* What the main reactor passes on is split between its own socket and the
\* connected one; at most a copy of it is left on either.
LEMMA PassedOn ==
  ASSUME dups \in 0 .. MaxDups, NEW m, AcceptNewPeer(m) \/ ForwardToPeer(m)
  PROVE  /\ m \in toServer \cup mainBuffer
         /\ toServer' \cup mainBuffer' \subseteq toServer \cup mainBuffer
         /\ dups' \in 0 .. MaxDups /\ UNCHANGED losses
         /\ connected' \in BOOLEAN
         /\ HandleQueued(m)
<1>1. CASE AcceptNewPeer(m)
  <2>1. PICK rest \in {toServer, toServer \ {m}} :
          /\ Take(toServer, m, rest)
          /\ mainBuffer' \in SUBSET rest
          /\ toServer' = rest \ mainBuffer'
    BY <1>1 DEF AcceptNewPeer
  <2>2. m \in toServer /\ rest \subseteq toServer /\ dups' \in 0 .. MaxDups
    BY <2>1, TakeType
  <2> QED
    BY <1>1, <2>1, <2>2 DEF AcceptNewPeer
<1>2. CASE ForwardToPeer(m)
  <2>1. CASE Take(mainBuffer, m, mainBuffer') /\ UNCHANGED toServer
    <3>1. m \in mainBuffer /\ mainBuffer' \subseteq mainBuffer /\ dups' \in 0 .. MaxDups
      BY <2>1, TakeType
    <3> QED
      BY <1>2, <2>1, <3>1 DEF ForwardToPeer
  <2>2. CASE /\ m \in mainBuffer /\ dups < MaxDups /\ dups' = dups + 1
             /\ mainBuffer' = mainBuffer \ {m} /\ toServer' = toServer \cup {m}
    <3>1. dups' \in 0 .. MaxDups
      BY <2>2, NetworkAssumption
    <3> QED
      BY <1>2, <2>2, <3>1 DEF ForwardToPeer
  <2> QED
    BY <1>2, <2>1, <2>2 DEF ForwardToPeer
<1> QED
  BY <1>1, <1>2
--------------------------------------------------------------------------------
\* Neither path of the server breaks a type when it handles a datagram.
LEMMA AcceptPieceType ==
  ASSUME NetTypeOK, MessageStateOK,
         NEW m \in FromClient, m.type = "RequestSend",
         NEW ackIfStored \in 0 .. ReqPieces,
         AcceptPiece(m, ackIfStored)
  PROVE  MessageStateOK' /\ toClient' \subseteq FromServer(Data \ {NoData})
<1> DEFINE stored == piece_state[m.id] \cup {m.order}
           ack == IF m.order \in piece_state[m.id]
                    THEN ackIfStored
                    ELSE getAckNumber(stored, ReqPieces)
<1>1. m.id \in Calls /\ stored \in SUBSET Orders(ReqPieces)
  BY FromClientFields DEF MessageStateOK
<1>2. ack \in 0 .. ReqPieces
  BY AckNumberIsPrefix, PiecesAssumption
<1>3. {ACK(m.id, ack), Exhausted} \subseteq FromServer(Data \ {NoData})
  BY <1>1, <1>2, ServerSends
<1>4. /\ piece_state' = [piece_state EXCEPT ![m.id] = stored]
      /\ messages' = IF ack = ReqPieces THEN messages \cup {m.id} ELSE messages
      /\ \/ trigger(m.id, ACK(m.id, ack))
         \/ /\ Reply({ACK(m.id, ack)})
            /\ UNCHANGED <<is_trigger, tasks, executions, rejects>>
      /\ UNCHANGED <<responseVars, expiries, restarts, reuses>>
  BY DEF AcceptPiece
<1> HIDE DEF stored, ack
<1>5. CASE trigger(m.id, ACK(m.id, ack))
  <2>1. /\ is_trigger' \in [Calls -> BOOLEAN]
        /\ tasks' \subseteq Calls \X ExecutionNumbers
        /\ executions' \in [Calls -> Nat]
        /\ rejects' \in 0 .. MaxRejects
    BY <1>1, <1>5, ServerAssumption DEF trigger, MessageStateOK, ExecutionNumbers
  <2>2. toClient' \subseteq FromServer(Data \ {NoData})
    BY <1>3, <1>5 DEF trigger, Reply, NetTypeOK
  <2> QED
    BY <1>1, <1>4, <2>1, <2>2 DEF MessageStateOK, responseVars
<1>6. CASE Reply({ACK(m.id, ack)}) /\ UNCHANGED <<is_trigger, tasks, executions, rejects>>
  BY <1>1, <1>3, <1>4, <1>6
  DEF Reply, NetTypeOK, MessageStateOK, responseVars
<1> QED
  BY <1>4, <1>5, <1>6

LEMMA HandlerType ==
  ASSUME NetTypeOK, MessageStateOK, NEW m \in FromClient,
         HandleQueued(m) \/ HandleConnected(m)
  PROVE  MessageStateOK' /\ toClient' \subseteq FromServer(Data \ {NoData})
<1> DEFINE Typed ==
      MessageStateOK' /\ toClient' \subseteq FromServer(Data \ {NoData})
<1>1. m.id \in Calls
  BY FromClientFields
<1>2. ASSUME NEW ackIfStored \in 0 .. ReqPieces, m.type = "RequestSend",
             AcceptPiece(m, ackIfStored)
      PROVE  Typed
  BY <1>2, AcceptPieceType
<1>3. getAckNumber(piece_state[m.id], ReqPieces) \in 0 .. ReqPieces
  BY AckNumberIsPrefix, PiecesAssumption
<1>4. ASSUME UNCHANGED <<requestVars, responseVars, boundVars>>,
             NEW d \in FromServer(Data \ {NoData}), Reply({d})
      PROVE  Typed
  BY <1>4 DEF Reply, NetTypeOK, MessageStateOK, requestVars, responseVars, boundVars
<1>5. CASE AnswerRequestACK(m)
  BY <1>1, <1>3, <1>4, <1>5, ServerSends DEF AnswerRequestACK
<1>6. CASE /\ Reply({IF HasRequest(m.id) THEN Heartbeat(m.id) ELSE Reset(m.id)})
           /\ UNCHANGED <<requestVars, responseVars, boundVars>>
  BY <1>1, <1>4, <1>6, ServerSends
<1>7. CASE AnswerUnready(m)
  BY <1>1, <1>4, <1>7, ServerSends DEF AnswerUnready
<1>8. ASSUME NEW ack \in 0 .. RespPieces, response[m.id] # NoData
      PROVE  NextPiece(m.id, ack) \subseteq FromServer(Data \ {NoData})
  <2>1. ack < RespPieces => ack \in Orders(RespPieces)
    BY PiecesAssumption DEF Orders
  <2>2. response[m.id] \in Data \ {NoData}
    BY <1>1, <1>8 DEF MessageStateOK
  <2> QED
    BY <1>1, <2>1, <2>2, ServerSends DEF NextPiece
<1>9. CASE m.phase = "Response" /\ AcceptResponseACK(m)
  <2> DEFINE ack == Larger(response_ack[m.id], m.order)
  <2>1. ack \in 0 .. RespPieces
    BY <1>1, <1>9, FromClientFields, LargerIsMaximum
    DEF AcceptResponseACK, MessageStateOK
  <2>2. NextPiece(m.id, ack) \subseteq FromServer(Data \ {NoData})
    BY <1>8, <1>9, <2>1 DEF AcceptResponseACK
  <2>3. /\ response_ack' = [response_ack EXCEPT ![m.id] = ack]
        /\ Reply(NextPiece(m.id, ack))
        /\ UNCHANGED <<requestVars, results, response, boundVars>>
    BY <1>9 DEF AcceptResponseACK
  <2> HIDE DEF ack
  <2> QED
    BY <1>1, <2>1, <2>2, <2>3
    DEF Reply, NetTypeOK, MessageStateOK, requestVars, boundVars
<1>10. CASE AnswerHeartbeat(m)
  <2>1. NextPiece(m.id, response_ack[m.id]) \subseteq FromServer(Data \ {NoData})
    BY <1>1, <1>8, <1>10 DEF AnswerHeartbeat, MessageStateOK
  <2> QED
    BY <1>10, <2>1
    DEF AnswerHeartbeat, Reply, NetTypeOK, MessageStateOK, requestVars,
        responseVars, boundVars
<1>11. CASE HandleQueued(m)
  BY <1>2, <1>5, <1>6, <1>11, PiecesAssumption DEF HandleQueued
<1>12. CASE HandleConnected(m)
  BY <1>2, <1>3, <1>5, <1>7, <1>9, <1>10, <1>12 DEF HandleConnected
<1> QED
  BY <1>11, <1>12
--------------------------------------------------------------------------------
\* The server starts with its types.
LEMMA SubReactorInitType == SubReactorInit => SubReactorTypeOK
<1> USE PiecesAssumption, ServerAssumption
<1>1. SubReactorInit => response \in [Calls -> Data] /\ response_ack \in [Calls -> 0 .. RespPieces]
  BY DEF SubReactorInit, Data, NoData
<1>2. SubReactorInit => /\ piece_state \in [Calls -> SUBSET Orders(ReqPieces)]
              /\ is_trigger \in [Calls -> BOOLEAN]
              /\ executions \in [Calls -> Nat]
  BY DEF SubReactorInit
<1>3. SubReactorInit => /\ expiries \in 0 .. MaxExpiries
              /\ restarts \in 0 .. MaxRestarts
              /\ rejects \in 0 .. MaxRejects
              /\ reuses \in 0 .. MaxReuses
  BY DEF SubReactorInit
<1>4. SubReactorInit => /\ connected \in BOOLEAN
              /\ mainBuffer = {} /\ messages = {} /\ tasks = {} /\ results = {}
  BY DEF SubReactorInit
<1> QED
  BY <1>1, <1>2, <1>3, <1>4 DEF SubReactorTypeOK, MessageStateOK

\* A step of the server keeps the types.
LEMMA SubReactorTypeStep ==
  ASSUME NetTypeOK, SubReactorTypeOK, SubReactorNext
  PROVE  NetTypeOK' /\ SubReactorTypeOK'
<1> USE PiecesAssumption, ServerAssumption
<1>0. MessageStateOK
  BY DEF SubReactorTypeOK
<1>1. ASSUME NEW m \in toServer \cup mainBuffer, AcceptNewPeer(m) \/ ForwardToPeer(m)
      PROVE  NetTypeOK' /\ SubReactorTypeOK'
  <2>1. m \in FromClient /\ dups \in 0 .. MaxDups
    BY DEF NetTypeOK, SubReactorTypeOK
  <2>2. /\ toServer' \cup mainBuffer' \subseteq toServer \cup mainBuffer
        /\ dups' \in 0 .. MaxDups /\ UNCHANGED losses
        /\ connected' \in BOOLEAN /\ HandleQueued(m)
    BY <1>1, <2>1, PassedOn
  <2>3. MessageStateOK' /\ toClient' \subseteq FromServer(Data \ {NoData})
    BY <1>0, <2>1, <2>2, HandlerType
  <2> QED
    BY <2>2, <2>3 DEF NetTypeOK, SubReactorTypeOK
<1>2. ASSUME NEW m \in mainBuffer, ForwardToPeer(m)
      PROVE  NetTypeOK' /\ SubReactorTypeOK'
  BY <1>1, <1>2
<1>3. ASSUME NEW m \in toServer, ReceiveConnected(m)
      PROVE  NetTypeOK' /\ SubReactorTypeOK'
  BY <1>0, <1>3, HandlerType, TakeType DEF ReceiveConnected, NetTypeOK, SubReactorTypeOK
<1>4. ASSUME NEW t \in tasks, FinishTask(t)
      PROVE  NetTypeOK' /\ SubReactorTypeOK'
  <2>1. SubReactorTypeOK'
    BY <1>4 DEF FinishTask, boundVars, SubReactorTypeOK, MessageStateOK
  <2>2. NetTypeOK'
    BY <1>4 DEF FinishTask, netVars, NetTypeOK
  <2> QED
    BY <2>1, <2>2
<1>5. ASSUME NEW t \in results, StoreResponse(t)
      PROVE  NetTypeOK' /\ SubReactorTypeOK'
  <2>1. t \in Calls \X ExecutionNumbers
    BY <1>0 DEF MessageStateOK
  <2>2. t[1] \in Calls /\ t[2] \in Data \ {NoData} /\ 0 \in Orders(RespPieces)
    BY <2>1 DEF ExecutionNumbers, Data, NoData, Orders
  <2>3. ResponsePiece(t[1], 0, t[2]) \in FromServer(Data \ {NoData})
    BY <2>2, ServerSends
  <2>4. NetTypeOK'
    BY <1>5, <2>3 DEF StoreResponse, Reply, NetTypeOK
  <2>5. SubReactorTypeOK'
    BY <1>5, <2>2
    DEF StoreResponse, requestVars, boundVars, SubReactorTypeOK, MessageStateOK
  <2> QED
    BY <2>4, <2>5
<1>6. ASSUME NEW i \in Calls,
             judgeDelete(i) \/ judgeResponseClearTimeout(i) \/ ReuseBuffer(i)
      PROVE  NetTypeOK' /\ SubReactorTypeOK'
  <2>1. NetTypeOK'
    BY <1>6
    DEF judgeDelete, judgeResponseClearTimeout, ReuseBuffer, netVars, NetTypeOK
  <2> USE DEF SubReactorTypeOK, MessageStateOK
  <2>2. CASE judgeDelete(i)
    <3>1. SubReactorTypeOK'
      BY <2>2 DEF judgeDelete, responseVars
    <3> QED
      BY <2>1, <3>1
  <2>3. CASE judgeResponseClearTimeout(i)
    <3>1. SubReactorTypeOK'
      BY <2>3 DEF judgeResponseClearTimeout, Data, NoData
    <3> QED
      BY <2>1, <3>1
  <2>4. CASE ReuseBuffer(i)
    <3>1. SubReactorTypeOK'
      BY <2>4 DEF ReuseBuffer, requestVars, Data
    <3> QED
      BY <2>1, <3>1
  <2> QED
    BY <1>6, <2>2, <2>3, <2>4
<1>7. CASE Restart
  <2>1. NetTypeOK'
    BY <1>7 DEF Restart, netVars, NetTypeOK
  <2>2. SubReactorTypeOK'
    <3>1. restarts' \in 0 .. MaxRestarts
      BY <1>7 DEF Restart, SubReactorTypeOK, MessageStateOK
    <3>2. response' \in [Calls -> Data] /\ response_ack' \in [Calls -> 0 .. RespPieces]
      BY <1>7 DEF Restart, Data, NoData
    <3> QED
      BY <1>7, <3>1, <3>2 DEF Restart, SubReactorTypeOK, MessageStateOK
  <2> QED
    BY <2>1, <2>2
<1> QED
  BY <1>1, <1>2, <1>3, <1>4, <1>5, <1>6, <1>7 DEF SubReactorNext

\* Steps that leave the server, or the network but for a loss, alone.
LEMMA StillTyped ==
  /\ SubReactorTypeOK /\ UNCHANGED serverVars => SubReactorTypeOK'
  /\ NetTypeOK /\ UNCHANGED netVars => NetTypeOK'
  /\ NetTypeOK /\ Lose => NetTypeOK'
<1>1. SubReactorTypeOK /\ UNCHANGED serverVars => SubReactorTypeOK'
  BY DEF SubReactorTypeOK, MessageStateOK, serverVars, requestVars, responseVars, boundVars
<1>2. NetTypeOK /\ UNCHANGED netVars => NetTypeOK'
  BY DEF NetTypeOK, netVars
<1>3. ASSUME NetTypeOK, Lose
      PROVE  NetTypeOK'
  <2>1. losses' \in 0 .. MaxLosses
    BY <1>3, NetworkAssumption DEF NetTypeOK, Lose
  <2>2. /\ toServer' \subseteq toServer /\ toClient' \subseteq toClient
        /\ dups' = dups
    BY <1>3 DEF Lose
  <2> QED
    BY <1>3, <2>1, <2>2 DEF NetTypeOK
<1> QED
  BY <1>1, <1>2, <1>3
--------------------------------------------------------------------------------
(***************************************************************************)
(* What a step does to the state the invariants speak of.                  *)
(***************************************************************************)

\* A request piece is stored; the acknowledgement covers stored pieces only.
Stores(m, ack) ==
  /\ m.type = "RequestSend"
  /\ piece_state' = [piece_state EXCEPT ![m.id] = @ \cup {m.order}]
  /\ 0 .. ack - 1 \subseteq piece_state'[m.id]
  /\ UNCHANGED <<responseVars, expiries, restarts, reuses>>

\* Its request becomes a task.
StartsTask(m, ack) ==
  /\ ~is_trigger[m.id]
  /\ piece_state'[m.id] = AllRequestPieces
  /\ is_trigger' = [is_trigger EXCEPT ![m.id] = TRUE]
  /\ executions' = [executions EXCEPT ![m.id] = @ + 1]
  /\ tasks' = tasks \cup {<<m.id, executions[m.id] + 1>>}
  /\ toClient' = toClient \cup {ACK(m.id, ack)}

StartsNoTask(m, ack) ==
  /\ is_trigger' \in {is_trigger, [is_trigger EXCEPT ![m.id] = TRUE]}
  /\ UNCHANGED <<tasks, executions>>
  /\ toClient' \subseteq toClient \cup {ACK(m.id, ack), Exhausted}

Accepts(m) ==
  \E ack \in 0 .. ReqPieces : Stores(m, ack) /\ (StartsTask(m, ack) \/ StartsNoTask(m, ack))

\* An answer: nothing is stored.  It carries the acknowledgement of the stored
\* pieces, a piece of the stored response, or no content.
Answers(m) ==
  /\ UNCHANGED <<requestVars, results, response, boundVars>>
  /\ \/ UNCHANGED response_ack
     \/ /\ m.type = "ReceiverACK"
        /\ response_ack' =
             [response_ack EXCEPT ![m.id] = Larger(response_ack[m.id], m.order)]
  /\ \E d : /\ toClient' \in {toClient, toClient \cup {d}}
            /\ \/ d.phase = "Request" /\ d.type # "ReceiverACK"
               \/ d = ACK(m.id, getAckNumber(piece_state[m.id], ReqPieces))
               \/ /\ response[m.id] # NoData
                  /\ \E k \in Nat : d = ResponsePiece(m.id, k, response[m.id])

\* A handler stores a piece or answers, and nothing else.
LEMMA HandlerEffect ==
  ASSUME NetTypeOK, SubReactorTypeOK, NEW m \in FromClient, HandleQueued(m) \/ HandleConnected(m)
  PROVE  Accepts(m) \/ Answers(m)
<1> USE PiecesAssumption
<1>1. m.id \in Calls /\ piece_state[m.id] \in SUBSET Orders(ReqPieces)
  BY FromClientFields DEF SubReactorTypeOK, MessageStateOK
<1>2. ASSUME NEW ackIfStored, m.type = "RequestSend", AcceptPiece(m, ackIfStored),
             ackIfStored \in {0, getAckNumber(piece_state[m.id], ReqPieces)}
      PROVE  Accepts(m)
  <2> DEFINE stored == piece_state[m.id] \cup {m.order}
             ack == IF m.order \in piece_state[m.id]
                      THEN ackIfStored
                      ELSE getAckNumber(stored, ReqPieces)
  <2>1. stored \in SUBSET Orders(ReqPieces)
    BY <1>1, <1>2, FromClientFields
  <2>2. ack \in 0 .. ReqPieces /\ 0 .. ack - 1 \subseteq stored
    BY <1>2, AckNumberIsPrefix
  <2>3. ack = ReqPieces => stored = AllRequestPieces
    BY <2>1, <2>2 DEF AllRequestPieces, Orders
  <2>4. /\ piece_state' = [piece_state EXCEPT ![m.id] = stored]
        /\ \/ ack = ReqPieces /\ ~is_trigger[m.id] /\ trigger(m.id, ACK(m.id, ack))
           \/ /\ Reply({ACK(m.id, ack)})
              /\ UNCHANGED <<is_trigger, tasks, executions, rejects>>
        /\ UNCHANGED <<responseVars, expiries, restarts, reuses>>
    BY <1>2 DEF AcceptPiece, Untriggered
  <2>5. piece_state'[m.id] = stored
    BY <1>1, <2>4 DEF SubReactorTypeOK, MessageStateOK
  <2>6. Stores(m, ack)
    BY <1>2, <2>2, <2>4, <2>5 DEF Stores
  <2> HIDE DEF stored, ack
  <2>7. StartsTask(m, ack) \/ StartsNoTask(m, ack)
    BY <2>3, <2>4, <2>5 DEF StartsTask, StartsNoTask, trigger, Reply
  <2> QED
    BY <2>2, <2>6, <2>7 DEF Accepts
<1>3. CASE AnswerRequestACK(m)
  BY <1>3 DEF AnswerRequestACK, Answers, Reply, Reset, Header, requestVars, responseVars, boundVars
<1>4. CASE /\ Reply({IF HasRequest(m.id) THEN Heartbeat(m.id) ELSE Reset(m.id)})
           /\ UNCHANGED <<requestVars, responseVars, boundVars>>
  BY <1>4 DEF Answers, Reply, Reset, Heartbeat, Header, requestVars, responseVars, boundVars
<1>5. CASE AnswerUnready(m)
  BY <1>5 DEF AnswerUnready, Answers, Reply, Reset, Heartbeat, Header, requestVars,
              responseVars, boundVars
<1>6. ASSUME NEW ack \in 0 .. RespPieces, response[m.id] # NoData,
             Reply(NextPiece(m.id, ack))
      PROVE  \E d : /\ toClient' \in {toClient, toClient \cup {d}}
                    /\ \E k \in Nat : d = ResponsePiece(m.id, k, response[m.id])
  BY <1>6 DEF Reply, NextPiece
<1>7. CASE AcceptResponseACK(m)
  <2>1. m.order \in 0 .. RespPieces /\ response_ack[m.id] \in 0 .. RespPieces
    BY <1>1, <1>7, FromClientFields DEF AcceptResponseACK, SubReactorTypeOK, MessageStateOK
  <2>2. Larger(response_ack[m.id], m.order) \in 0 .. RespPieces
    BY <2>1, LargerIsMaximum
  <2> QED
    BY <1>6, <1>7, <2>2 DEF AcceptResponseACK, Answers
<1>8. CASE AnswerHeartbeat(m)
  <2>1. response_ack[m.id] \in 0 .. RespPieces
    BY <1>1 DEF SubReactorTypeOK, MessageStateOK
  <2> QED
    BY <1>6, <1>8, <2>1 DEF AnswerHeartbeat, Answers, responseVars
<1> QED
  BY <1>2, <1>3, <1>4, <1>5, <1>7, <1>8 DEF HandleQueued, HandleConnected

\* A datagram is handled on one of the two paths; only AcceptNewPeer and
\* ReceiveConnected take it out of the network.
Handles(m) ==
  /\ m \in toServer \cup mainBuffer
  /\ Accepts(m) \/ Answers(m)
  /\ toServer' \cup mainBuffer' \subseteq toServer \cup mainBuffer

LEMMA DatagramStep ==
  ASSUME NetTypeOK, SubReactorTypeOK, NEW m, ServerReceive(m)
  PROVE  m \in FromClient /\ Handles(m)
<1>1. CASE AcceptNewPeer(m) \/ ForwardToPeer(m)
  BY <1>1, HandlerEffect, PassedOn DEF Handles, NetTypeOK, SubReactorTypeOK
<1>2. CASE ReceiveConnected(m)
  BY <1>2, HandlerEffect, TakeType
  DEF ReceiveConnected, Handles, NetTypeOK
<1> QED
  BY <1>1, <1>2 DEF ServerReceive

\* The cases of a step of the server.
LEMMA SubReactorCases ==
  ASSUME NetTypeOK, SubReactorTypeOK, SubReactorNext
  PROVE  \/ \E m \in FromClient : Handles(m)
         \/ \E t \in tasks : FinishTask(t)
         \/ \E t \in results : StoreResponse(t)
         \/ \E i \in Calls : judgeDelete(i) \/ judgeResponseClearTimeout(i)
         \/ \E i \in Calls : ReuseBuffer(i)
         \/ Restart
BY DatagramStep DEF SubReactorNext, ServerReceive

\* A step of the server starts no execution, or one of a call it heard of.
LEMMA ServerRuns ==
  ASSUME NetTypeOK, SubReactorTypeOK, SubReactorNext
  PROVE  \/ UNCHANGED executions
         \/ \E m \in toServer \cup mainBuffer :
              m.id \in Calls /\ executions' = [executions EXCEPT ![m.id] = @ + 1]
<1>1. ASSUME NEW m \in FromClient, Handles(m)
      PROVE  \/ UNCHANGED executions
             \/ m.id \in Calls /\ executions' = [executions EXCEPT ![m.id] = @ + 1]
  BY <1>1, FromClientFields
  DEF Handles, Accepts, Answers, StartsTask, StartsNoTask, requestVars
<1> QED
  BY <1>1, SubReactorCases
  DEF Handles, FinishTask, StoreResponse, judgeDelete, judgeResponseClearTimeout,
      ReuseBuffer, Restart, requestVars
--------------------------------------------------------------------------------
(***************************************************************************)
(* What every step of the server keeps.                                    *)
(***************************************************************************)

\* A Request that is triggered stays so until it is forgotten.
LEMMA ServerKeepsTriggered ==
  ASSUME NetTypeOK, SubReactorTypeOK, TriggeredOnce, SubReactorNext
  PROVE  TriggeredOnce'
<1> USE DEF SubReactorTypeOK, MessageStateOK, TriggeredOnce
<1>1. CASE UNCHANGED <<is_trigger, executions, expiries, restarts>>
  BY <1>1
<1>2. ASSUME NEW m \in FromClient, Accepts(m) PROVE TriggeredOnce'
  <2>1. PICK ack \in 0 .. ReqPieces :
          Stores(m, ack) /\ (StartsTask(m, ack) \/ StartsNoTask(m, ack))
    BY <1>2 DEF Accepts
  <2>2. m.id \in Calls /\ UNCHANGED <<expiries, restarts>>
    BY <2>1, FromClientFields DEF Stores
  <2>3. CASE StartsTask(m, ack)
    BY <2>2, <2>3 DEF StartsTask
  <2>4. CASE StartsNoTask(m, ack)
    BY <2>2, <2>4 DEF StartsNoTask
  <2> QED
    BY <2>1, <2>3, <2>4
<1>3. ASSUME NEW m \in FromClient, Answers(m) PROVE TriggeredOnce'
  BY <1>1, <1>3 DEF Answers, requestVars, boundVars
<1>4. ASSUME NEW t, FinishTask(t) \/ StoreResponse(t) PROVE TriggeredOnce'
  BY <1>1, <1>4 DEF FinishTask, StoreResponse, requestVars, boundVars
<1>5. ASSUME NEW i \in Calls, judgeDelete(i) PROVE TriggeredOnce'
  BY <1>5 DEF judgeDelete
<1>6. ASSUME NEW i \in Calls, judgeResponseClearTimeout(i) PROVE TriggeredOnce'
  BY <1>6 DEF judgeResponseClearTimeout
<1>7. ASSUME NEW i \in Calls, ReuseBuffer(i) PROVE TriggeredOnce'
  BY <1>1, <1>7 DEF ReuseBuffer, requestVars
<1>8. CASE Restart
  BY <1>8 DEF Restart
<1> QED
  BY <1>2, <1>3, <1>4, <1>5, <1>6, <1>7, <1>8, SubReactorCases DEF Handles

\* As long as the server forgets nothing, what it stored stays stored, and what
\* it executed stays executed.
LEMMA ServerForgetsNothing ==
  ASSUME NetTypeOK, SubReactorTypeOK, SubReactorNext, NothingForgotten'
  PROVE  /\ NothingForgotten
         /\ \A i \in Calls : piece_state[i] \subseteq piece_state'[i]
         /\ \A i \in Calls : executions[i] > 0 => executions'[i] > 0
<1> USE DEF SubReactorTypeOK, MessageStateOK, NothingForgotten
<1>1. ASSUME NEW m \in FromClient, Accepts(m)
      PROVE  /\ NothingForgotten
             /\ \A i \in Calls : piece_state[i] \subseteq piece_state'[i]
             /\ \A i \in Calls : executions[i] > 0 => executions'[i] > 0
  <2>1. PICK ack \in 0 .. ReqPieces :
          Stores(m, ack) /\ (StartsTask(m, ack) \/ StartsNoTask(m, ack))
    BY <1>1 DEF Accepts
  <2>2. m.id \in Calls
    BY FromClientFields
  <2>3. NothingForgotten /\ \A i \in Calls : piece_state[i] \subseteq piece_state'[i]
    BY <2>1, <2>2 DEF Stores
  <2>4. \A i \in Calls : executions[i] > 0 => executions'[i] > 0
    BY <2>1, <2>2 DEF StartsTask, StartsNoTask
  <2> QED
    BY <2>3, <2>4
<1>2. ASSUME NEW m \in FromClient, Answers(m)
      PROVE  NothingForgotten /\ UNCHANGED <<piece_state, executions>>
  BY <1>2 DEF Answers, requestVars, boundVars
<1>3. ASSUME NEW t, FinishTask(t) \/ StoreResponse(t)
      PROVE  NothingForgotten /\ UNCHANGED <<piece_state, executions>>
  BY <1>3 DEF FinishTask, StoreResponse, requestVars, boundVars
<1>4. ASSUME NEW i \in Calls, judgeDelete(i) \/ judgeResponseClearTimeout(i)
      PROVE  FALSE
  BY <1>4 DEF judgeDelete, judgeResponseClearTimeout
<1>5. ASSUME NEW i \in Calls, ReuseBuffer(i)
      PROVE  NothingForgotten /\ UNCHANGED <<piece_state, executions>>
  BY <1>5 DEF ReuseBuffer, requestVars
<1>6. ~Restart
  BY DEF Restart
<1> HIDE DEF NothingForgotten
<1> QED
  BY <1>1, <1>2, <1>3, <1>4, <1>5, <1>6, SubReactorCases DEF Handles

\* A datagram stored or answered keeps StoredInv.
LEMMA HandlerKeepsStored ==
  ASSUME NetTypeOK, SubReactorTypeOK, AcksCoverStored, OnlyExecuted, ExecutedIsWhole,
         NEW m \in FromClient, Accepts(m) \/ Answers(m)
  PROVE  AcksCoverStored' /\ OnlyExecuted' /\ ExecutedIsWhole'
<1> USE DEF SubReactorTypeOK, MessageStateOK
<1>1. m.id \in Calls
  BY FromClientFields
<1>2. CASE Answers(m)
  <2>1. UNCHANGED <<piece_state, tasks, executions, results, response>>
    BY <1>2 DEF Answers, requestVars
  <2>2. PICK d : /\ toClient' \in {toClient, toClient \cup {d}}
                 /\ \/ d.phase = "Request" /\ d.type # "ReceiverACK"
                    \/ d = ACK(m.id, getAckNumber(piece_state[m.id], ReqPieces))
                    \/ /\ response[m.id] # NoData
                       /\ \E k \in Nat : d = ResponsePiece(m.id, k, response[m.id])
    BY <1>2 DEF Answers
  <2>3. d.phase = "Request" /\ d.type = "ReceiverACK" =>
          0 .. d.order - 1 \subseteq piece_state[d.id]
    BY <2>2, AckNumberIsPrefix, PiecesAssumption DEF ACK, ResponsePiece, Header
  <2>4. d.phase = "Response" => executions[d.id] > 0
    BY <1>1, <2>2 DEF ACK, ResponsePiece, Header, OnlyExecuted
  <2>5. AcksCoverStored'
    BY <2>1, <2>2, <2>3 DEF AcksCoverStored
  <2>6. OnlyExecuted'
    BY <2>1, <2>2, <2>4 DEF OnlyExecuted
  <2>7. ExecutedIsWhole'
    BY <2>1 DEF ExecutedIsWhole
  <2> QED
    BY <2>5, <2>6, <2>7
<1>3. CASE Accepts(m)
  <2>1. PICK ack \in 0 .. ReqPieces :
          Stores(m, ack) /\ (StartsTask(m, ack) \/ StartsNoTask(m, ack))
    BY <1>3 DEF Accepts
  <2>2. /\ UNCHANGED <<results, response>>
        /\ 0 .. ack - 1 \subseteq piece_state'[m.id]
        /\ piece_state' = [piece_state EXCEPT ![m.id] = @ \cup {m.order}]
        /\ m.order \in Orders(ReqPieces)
    BY <2>1, FromClientFields DEF Stores, responseVars
  <2>3. \A i \in Calls : piece_state[i] \subseteq piece_state'[i]
    BY <1>1, <2>2
  <2>4. toClient' \subseteq toClient \cup {ACK(m.id, ack), Exhausted}
    BY <2>1 DEF StartsTask, StartsNoTask
  <2>5. AcksCoverStored'
    <3>1. ASSUME NEW d \in toClient, d.phase = "Request", d.type = "ReceiverACK"
          PROVE  0 .. d.order - 1 \subseteq piece_state'[d.id]
      BY <2>3, <3>1, FromServerFields DEF AcksCoverStored, NetTypeOK
    <3>2. 0 .. ACK(m.id, ack).order - 1 \subseteq piece_state'[ACK(m.id, ack).id]
      BY <2>2 DEF ACK, Header
    <3>3. Exhausted.type # "ReceiverACK"
      BY DEF Exhausted, Header
    <3> QED
      BY <2>4, <3>1, <3>2, <3>3 DEF AcksCoverStored
  <2>6. ACK(m.id, ack).phase = "Request" /\ Exhausted.phase = "Request"
    BY DEF ACK, Exhausted, Header
  <2>7. CASE StartsTask(m, ack)
    <3>1. \A i \in Calls : executions[i] > 0 => executions'[i] > 0
      BY <1>1, <2>7 DEF StartsTask
    <3>2. executions'[m.id] > 0
      BY <1>1, <2>7 DEF StartsTask
    <3>3. \A t \in tasks' : t \in tasks \/ t[1] = m.id
      BY <2>7 DEF StartsTask
    <3> HIDE DEF SubReactorTypeOK
    <3>4. OnlyExecuted'
      <4>1. \A d \in toClient' : d.phase = "Response" => executions'[d.id] > 0
        BY <2>4, <2>6, <3>1, FromServerFields DEF OnlyExecuted, NetTypeOK
      <4>2. \A t \in (tasks \cup results)' : executions'[t[1]] > 0
        <5>1. \A t \in tasks \cup results : t[1] \in Calls
          BY DEF SubReactorTypeOK
        <5> QED
          BY <2>2, <3>1, <3>2, <3>3, <5>1 DEF OnlyExecuted
      <4>3. \A i \in Calls : response'[i] # NoData => executions'[i] > 0
        BY <2>2, <3>1 DEF OnlyExecuted
      <4> QED
        BY <4>1, <4>2, <4>3 DEF OnlyExecuted
    <3>5. ExecutedIsWhole'
      <4> SUFFICES ASSUME NEW i \in Calls, executions'[i] > 0
                   PROVE  piece_state'[i] = AllRequestPieces
        BY DEF ExecutedIsWhole
      <4>1. CASE i = m.id
        BY <2>7, <4>1 DEF StartsTask
      <4>2. CASE i # m.id
        BY <2>2, <2>7, <4>2 DEF StartsTask, ExecutedIsWhole
      <4> QED
        BY <4>1, <4>2
    <3> QED
      BY <2>5, <3>4, <3>5
  <2>8. CASE StartsNoTask(m, ack)
    <3>1. UNCHANGED <<tasks, executions>>
      BY <2>8 DEF StartsNoTask
    <3>2. OnlyExecuted'
      BY <2>2, <2>4, <2>6, <3>1 DEF OnlyExecuted
    <3>3. ExecutedIsWhole'
      BY <2>2, <2>3, <3>1 DEF ExecutedIsWhole, AllRequestPieces
    <3> QED
      BY <2>5, <3>2, <3>3
  <2> QED
    BY <2>1, <2>7, <2>8
<1> QED
  BY <1>2, <1>3

\* The server acknowledges stored pieces only, answers with a response only what
\* it executed, and executes only whole requests.
LEMMA ServerKeepsStored ==
  ASSUME NetTypeOK, SubReactorTypeOK, StoredInv, SubReactorNext
  PROVE  StoredInv'
<1> SUFFICES ASSUME NothingForgotten'
             PROVE  AcksCoverStored' /\ OnlyExecuted' /\ ExecutedIsWhole'
  BY DEF StoredInv
<1>1. AcksCoverStored /\ OnlyExecuted /\ ExecutedIsWhole
  BY ServerForgetsNothing DEF StoredInv
<1>2. ASSUME NEW m \in FromClient, Handles(m)
      PROVE  AcksCoverStored' /\ OnlyExecuted' /\ ExecutedIsWhole'
  BY <1>1, <1>2, HandlerKeepsStored DEF Handles
<1>3. ASSUME NEW t \in tasks, FinishTask(t)
      PROVE  AcksCoverStored' /\ OnlyExecuted' /\ ExecutedIsWhole'
  BY <1>1, <1>3 DEF FinishTask, AcksCoverStored, OnlyExecuted, ExecutedIsWhole, netVars
<1>4. ASSUME NEW t \in results, StoreResponse(t)
      PROVE  AcksCoverStored' /\ OnlyExecuted' /\ ExecutedIsWhole'
  <2>1. UNCHANGED <<piece_state, executions, tasks>>
    BY <1>4 DEF StoreResponse, requestVars
  <2>2. t[1] \in Calls /\ executions[t[1]] > 0
    BY <1>1, <1>4 DEF OnlyExecuted, SubReactorTypeOK, MessageStateOK
  <2>3. /\ toClient' \subseteq toClient \cup {ResponsePiece(t[1], 0, t[2])}
        /\ results' \subseteq results
        /\ response' = [response EXCEPT ![t[1]] = t[2]]
    BY <1>4 DEF StoreResponse, Reply
  <2>4. ResponsePiece(t[1], 0, t[2]).phase = "Response" /\ ResponsePiece(t[1], 0, t[2]).id = t[1]
    BY DEF ResponsePiece, Header
  <2>5. AcksCoverStored'
    BY <1>1, <2>1, <2>3, <2>4 DEF AcksCoverStored
  <2>6. OnlyExecuted'
    BY <1>1, <2>1, <2>2, <2>3, <2>4 DEF OnlyExecuted, SubReactorTypeOK, MessageStateOK
  <2>7. ExecutedIsWhole'
    BY <1>1, <2>1 DEF ExecutedIsWhole
  <2> QED
    BY <2>5, <2>6, <2>7
<1>5. ASSUME NEW i \in Calls, judgeDelete(i) \/ judgeResponseClearTimeout(i)
      PROVE  FALSE
  BY <1>5, ServerForgetsNothing
  DEF judgeDelete, judgeResponseClearTimeout, NothingForgotten, SubReactorTypeOK, MessageStateOK
<1>6. ASSUME NEW i \in Calls, ReuseBuffer(i)
      PROVE  AcksCoverStored' /\ OnlyExecuted' /\ ExecutedIsWhole'
  BY <1>1, <1>6
  DEF ReuseBuffer, AcksCoverStored, OnlyExecuted, ExecutedIsWhole, requestVars, netVars,
      SubReactorTypeOK, MessageStateOK
<1>7. ~Restart
  BY ServerForgetsNothing DEF Restart, NothingForgotten, SubReactorTypeOK, MessageStateOK
<1> QED
  BY <1>2, <1>3, <1>4, <1>5, <1>6, <1>7, SubReactorCases

\* As long as the server forgets nothing and no freed buffer is reused, every
\* call has one execution, and every piece sent comes from it.
LEMMA ServerKeepsFirst ==
  ASSUME NetTypeOK, SubReactorTypeOK, TriggeredOnce, FirstInFlight, SubReactorNext,
         NothingForgotten', reuses' = 0
  PROVE  FirstInFlight'
<1> USE DEF SubReactorTypeOK, MessageStateOK
<1>1. NothingForgotten
  BY ServerForgetsNothing
<1>2. ASSUME NEW m \in FromClient, Accepts(m)
      PROVE  FirstInFlight'
  <2>1. PICK ack \in 0 .. ReqPieces :
          Stores(m, ack) /\ (StartsTask(m, ack) \/ StartsNoTask(m, ack))
    BY <1>2 DEF Accepts
  <2>2. /\ UNCHANGED <<results, response>>
        /\ toClient' \subseteq toClient \cup {ACK(m.id, ack), Exhausted}
    BY <2>1 DEF Stores, StartsTask, StartsNoTask, responseVars
  <2>3. m.id \in Calls
    BY FromClientFields
  <2>4. \A t \in tasks' : t[2] = 1
    <3>1. CASE StartsTask(m, ack)
      <4>1. executions[m.id] = 0
        BY <1>1, <2>3, <3>1 DEF StartsTask, TriggeredOnce, NothingForgotten
      <4> QED
        BY <3>1, <4>1 DEF StartsTask, FirstInFlight
    <3>2. CASE StartsNoTask(m, ack)
      BY <3>2 DEF StartsNoTask, FirstInFlight
    <3> QED
      BY <2>1, <3>1, <3>2
  <2> QED
    BY <2>2, <2>4 DEF FirstInFlight, ACK, Exhausted, Header
<1>3. ASSUME NEW m \in FromClient, Answers(m)
      PROVE  FirstInFlight'
  <2>1. UNCHANGED <<tasks, results, response>>
    BY <1>3 DEF Answers, requestVars
  <2>2. \A d \in toClient' \ toClient : d.phase = "Response" => d.data = response[m.id]
                                                               /\ response[m.id] # NoData
    BY <1>3 DEF Answers, ACK, ResponsePiece, Header
  <2>3. m.id \in Calls
    BY FromClientFields
  <2> QED
    BY <2>1, <2>2, <2>3 DEF FirstInFlight
<1>4. ASSUME NEW t \in tasks, FinishTask(t)
      PROVE  FirstInFlight'
  BY <1>4 DEF FinishTask, FirstInFlight, netVars
<1>5. ASSUME NEW t \in results, StoreResponse(t)
      PROVE  FirstInFlight'
  <2>1. /\ UNCHANGED tasks
        /\ toClient' \subseteq toClient \cup {ResponsePiece(t[1], 0, t[2])}
        /\ results' \subseteq results
        /\ response' = [response EXCEPT ![t[1]] = t[2]]
    BY <1>5 DEF StoreResponse, Reply, requestVars
  <2>2. t[2] = 1
    BY <1>5 DEF FirstInFlight
  <2>3. ResponsePiece(t[1], 0, t[2]).data = 1
    BY <2>2 DEF ResponsePiece, Header
  <2> QED
    BY <2>1, <2>2, <2>3 DEF FirstInFlight
<1>6. ASSUME NEW i \in Calls, judgeDelete(i) \/ judgeResponseClearTimeout(i) \/ ReuseBuffer(i)
      PROVE  FALSE
  BY <1>1, <1>6 DEF judgeDelete, judgeResponseClearTimeout, ReuseBuffer, NothingForgotten
<1>7. ~Restart
  BY <1>1 DEF Restart, NothingForgotten
<1> QED
  BY <1>2, <1>3, <1>4, <1>5, <1>6, <1>7, SubReactorCases DEF Handles

\* The reuses of freed buffers are only counted.
LEMMA ReusesOnlyGrow ==
  ASSUME NetTypeOK, SubReactorTypeOK, SubReactorNext, reuses' = 0
  PROVE  reuses = 0
<1>1. ASSUME NEW m \in FromClient, Handles(m) PROVE reuses' = reuses
  BY <1>1 DEF Handles, Accepts, Stores, Answers, boundVars
<1>2. ASSUME NEW t, FinishTask(t) \/ StoreResponse(t) PROVE reuses' = reuses
  BY <1>2 DEF FinishTask, StoreResponse, boundVars
<1>3. ASSUME NEW i \in Calls, judgeDelete(i) \/ judgeResponseClearTimeout(i)
      PROVE  reuses' = reuses
  BY <1>3 DEF judgeDelete, judgeResponseClearTimeout
<1>4. ASSUME NEW i \in Calls, ReuseBuffer(i) PROVE FALSE
  BY <1>4 DEF ReuseBuffer, SubReactorTypeOK, MessageStateOK
<1>5. CASE Restart
  BY <1>5 DEF Restart
<1> QED
  BY <1>1, <1>2, <1>3, <1>4, <1>5, SubReactorCases

\* The server invents no datagram of the client, and takes as delivered only what
\* an acknowledgement on its way says.
LEMMA ServerTakesDelivered ==
  ASSUME NetTypeOK, SubReactorTypeOK, SubReactorNext
  PROVE  /\ toServer' \cup mainBuffer' \subseteq toServer \cup mainBuffer
         /\ \A i \in Calls :
              \/ response_ack'[i] \in {response_ack[i], 0}
              \/ \E m \in toServer \cup mainBuffer :
                   m.type = "ReceiverACK" /\ m.id = i /\ response_ack'[i] = m.order
<1> DEFINE Fewer == toServer' \cup mainBuffer' \subseteq toServer \cup mainBuffer
<1>1. response_ack \in [Calls -> 0 .. RespPieces]
  BY DEF SubReactorTypeOK, MessageStateOK
<1>2. ASSUME NEW m \in FromClient, Handles(m)
      PROVE  /\ Fewer
             /\ \/ UNCHANGED response_ack
                \/ /\ m \in toServer \cup mainBuffer /\ m.type = "ReceiverACK" /\ m.id \in Calls
                   /\ response_ack' =
                        [response_ack EXCEPT ![m.id] = Larger(response_ack[m.id], m.order)]
  BY <1>2, FromClientFields DEF Handles, Accepts, Stores, Answers, responseVars
<1>3. ASSUME NEW t \in results, StoreResponse(t)
      PROVE  Fewer /\ t[1] \in Calls /\ response_ack' = [response_ack EXCEPT ![t[1]] = 0]
  BY <1>3 DEF StoreResponse, SubReactorTypeOK, MessageStateOK
<1>4. ASSUME NEW t \in tasks, FinishTask(t)
      PROVE  Fewer /\ UNCHANGED response_ack
  BY <1>4 DEF FinishTask, netVars
<1>5. ASSUME NEW i \in Calls, judgeDelete(i) \/ judgeResponseClearTimeout(i) \/ ReuseBuffer(i)
      PROVE  Fewer /\ response_ack' \in {response_ack, [response_ack EXCEPT ![i] = 0]}
  BY <1>5 DEF judgeDelete, judgeResponseClearTimeout, ReuseBuffer, responseVars, netVars
<1>6. CASE Restart
  BY <1>6 DEF Restart, netVars
<1> QED
  BY <1>1, <1>2, <1>3, <1>4, <1>5, <1>6, SubReactorCases DEF Larger
================================================================================
