------------------------------- MODULE SubReactor -------------------------------
(***************************************************************************)
(* The server side of SR2P: what the reactor threads and the worker pool   *)
(* keep for the messages of one client (one peer, one VirtualConnection).  *)
(*                                                                         *)
(* The first datagram of a peer reaches the main reactor, which opens a    *)
(* connected socket and queues the datagram for the sub reactor            *)
(* (dealWithNewConnection); so do the datagrams that were already in the   *)
(* main socket's buffer at that moment.  Later ones arrive on the          *)
(* connected socket (SubReactor::loop).  Each of the two paths has         *)
(* handlers of its own, and they differ.                                   *)
(*                                                                         *)
(* Time is not modelled: a timer may fire whenever it is set, and the      *)
(* timers that need a long silence, the loss of the server's state and     *)
(* the reuse of freed memory are bounded by constants, so that a run can   *)
(* exclude them.                                                           *)
(***************************************************************************)
EXTENDS SR2PMessages

CONSTANTS
  MaxExpiries,   \* bound: inactivity timeouts that erase something
  MaxRestarts,   \* bound: times the server is stopped and started again
  MaxRejects,    \* bound: tasks the worker pool refuses
  MaxReuses      \* bound: freed response buffers handed out again

ASSUME ServerAssumption ==
  /\ MaxExpiries \in Nat
  /\ MaxRestarts \in Nat
  /\ MaxRejects \in Nat
  /\ MaxReuses \in Nat

VARIABLES
  connected,    \* the peer has an entry in con_queue and a VirtualConnection
  mainBuffer,   \* its datagrams left in the main reactor's socket
  piece_state,  \* Request::piece_state per id: stored orders, {} = no Request
  is_trigger,   \* Request::is_trigger per id
  messages,     \* VirtualConnection::messages: ids whose request is complete
  tasks,        \* <<id, execution>> committed to the pool and not finished
  results,      \* <<id, execution>> whose response waits for the 5 ms timer
  response,     \* VirtualConnection::responses: what the buffer of id holds
  response_ack, \* Response::ack_accept per id
  executions,   \* history: executions of each call so far
  expiries, restarts, rejects, reuses   \* how often each bound was used

boundVars == <<expiries, restarts, rejects, reuses>>
requestVars == <<piece_state, is_trigger, messages, tasks, executions>>
responseVars == <<results, response, response_ack>>
serverVars == <<connected, mainBuffer, requestVars, responseVars, boundVars>>

SubReactorInit ==
  /\ connected = FALSE
  /\ mainBuffer = {}
  /\ piece_state = [i \in Calls |-> {}]
  /\ is_trigger = [i \in Calls |-> FALSE]
  /\ messages = {}
  /\ tasks = {}
  /\ results = {}
  /\ response = [i \in Calls |-> NoData]
  /\ response_ack = [i \in Calls |-> 0]
  /\ executions = [i \in Calls |-> 0]
  /\ expiries = 0
  /\ restarts = 0
  /\ rejects = 0
  /\ reuses = 0

ExecutionNumbers == Nat \ {0}

\* What the handlers of a datagram read and write.
MessageStateOK ==
  /\ piece_state \in [Calls -> SUBSET Orders(ReqPieces)]
  /\ is_trigger \in [Calls -> BOOLEAN]
  /\ messages \subseteq Calls
  /\ tasks \subseteq Calls \X ExecutionNumbers
  /\ results \subseteq Calls \X ExecutionNumbers
  /\ response \in [Calls -> Data]
  /\ response_ack \in [Calls -> 0 .. RespPieces]
  /\ executions \in [Calls -> Nat]
  /\ expiries \in 0 .. MaxExpiries
  /\ restarts \in 0 .. MaxRestarts
  /\ rejects \in 0 .. MaxRejects
  /\ reuses \in 0 .. MaxReuses

SubReactorTypeOK ==
  /\ connected \in BOOLEAN
  /\ mainBuffer \subseteq FromClient
  /\ MessageStateOK

Reply(datagrams) == toClient' = toClient \cup datagrams
HasRequest(i) == piece_state[i] # {}
AllRequestPieces == Orders(ReqPieces)
--------------------------------------------------------------------------------
\* Request phase.

\* trigger: the complete request becomes a task of the pool; a pool that
\* refuses it has the client told, with message id 0.
trigger(i, ack) ==
  /\ is_trigger' = [is_trigger EXCEPT ![i] = TRUE]
  /\ \/ /\ executions' = [executions EXCEPT ![i] = @ + 1]
        /\ tasks' = tasks \cup {<<i, executions[i] + 1>>}
        /\ Reply({ack})
        /\ UNCHANGED rejects
     \/ /\ rejects < MaxRejects
        /\ rejects' = rejects + 1
        /\ Reply({ack, Exhausted})
        /\ UNCHANGED <<tasks, executions>>

\* Mutant of Untriggered: is_trigger is not looked at.
UntriggeredUnchecked(i) == TRUE

Untriggered(i) == ~is_trigger[i]

\* A piece of a request: stored in its Request, which the first piece creates,
\* and acknowledged; the piece that completes the request triggers it once.
\* ackIfStored is what a path answers to a piece it has stored before.
AcceptPiece(m, ackIfStored) ==
  LET stored == piece_state[m.id] \cup {m.order}
      ack == IF m.order \in piece_state[m.id]
               THEN ackIfStored
               ELSE getAckNumber(stored, ReqPieces)
  IN  /\ piece_state' = [piece_state EXCEPT ![m.id] = stored]
      /\ messages' = IF ack = ReqPieces THEN messages \cup {m.id} ELSE messages
      /\ IF ack = ReqPieces /\ Untriggered(m.id)
           THEN trigger(m.id, ACK(m.id, ack))
           ELSE /\ Reply({ACK(m.id, ack)})
                /\ UNCHANGED <<is_trigger, tasks, executions, rejects>>
      /\ UNCHANGED <<responseVars, expiries, restarts, reuses>>

\* RequestACK: the first missing order, or StateReset without a Request.
AnswerRequestACK(m) ==
  /\ Reply({IF HasRequest(m.id)
              THEN ACK(m.id, getAckNumber(piece_state[m.id], ReqPieces))
              ELSE Reset(m.id)})
  /\ UNCHANGED <<requestVars, responseVars, boundVars>>
--------------------------------------------------------------------------------
\* Response phase, on the connected socket.

\* Mutant of NextPiece: the client is kept waiting instead.
NextPieceWithheld(i, ack) == {Heartbeat(i)}

\* sendResponseDataToClient: the piece after the last acknowledged one.
NextPiece(i, ack) ==
  IF ack < RespPieces THEN {ResponsePiece(i, ack, response[i])} ELSE {}

\* The message is not known, or its response is not there yet.
AnswerUnready(m) ==
  /\ m.id \notin messages \/ response[m.id] = NoData
  /\ Reply({IF m.id \in messages THEN Heartbeat(m.id) ELSE Reset(m.id)})
  /\ UNCHANGED <<requestVars, responseVars, boundVars>>

\* ReceiverACK: setAckAccept keeps the larger one; the next piece follows.
AcceptResponseACK(m) ==
  /\ m.type = "ReceiverACK"
  /\ m.id \in messages /\ response[m.id] # NoData
  /\ LET ack == Larger(response_ack[m.id], m.order)
     IN  /\ response_ack' = [response_ack EXCEPT ![m.id] = ack]
         /\ Reply(NextPiece(m.id, ack))
  /\ UNCHANGED <<requestVars, results, response, boundVars>>

\* TimedOutRequestHeartbeat: the client waits for a piece, send it again.
AnswerHeartbeat(m) ==
  /\ m.type = "TimedOutRequestHeartbeat"
  /\ m.id \in messages /\ response[m.id] # NoData
  /\ Reply(NextPiece(m.id, response_ack[m.id]))
  /\ UNCHANGED <<requestVars, responseVars, boundVars>>
--------------------------------------------------------------------------------
\* dealWithNewConnection: a piece it has stored before is acknowledged with 0,
\* and what is neither a piece nor a RequestACK is answered whatever its phase.
HandleQueued(m) ==
  \/ m.type = "RequestSend" /\ AcceptPiece(m, 0)
  \/ m.type = "RequestACK" /\ AnswerRequestACK(m)
  \/ /\ m.type \notin {"RequestSend", "RequestACK"}
     /\ Reply({IF HasRequest(m.id) THEN Heartbeat(m.id) ELSE Reset(m.id)})
     /\ UNCHANGED <<requestVars, responseVars, boundVars>>

\* The main reactor meets a peer that is not in con_queue; some of the peer's
\* datagrams are in the main socket's buffer already.
AcceptNewPeer(m) ==
  /\ ~connected
  /\ connected' = TRUE
  /\ \E rest \in {toServer, toServer \ {m}} :
       /\ Take(toServer, m, rest)
       /\ mainBuffer' \in SUBSET rest
       /\ toServer' = rest \ mainBuffer'
  /\ HandleQueued(m)
  /\ UNCHANGED losses

\* The main reactor reads one of those and passes it on; a copy of it may be on
\* the main socket as well, or reach the connected one.
ForwardToPeer(m) ==
  /\ connected
  /\ \/ Take(mainBuffer, m, mainBuffer') /\ UNCHANGED toServer
     \/ /\ m \in mainBuffer
        /\ dups < MaxDups
        /\ dups' = dups + 1
        /\ mainBuffer' = mainBuffer \ {m}
        /\ toServer' = toServer \cup {m}
  /\ HandleQueued(m)
  /\ UNCHANGED <<connected, losses>>

\* SubReactor::loop reads a datagram from the connected socket.
HandleConnected(m) ==
  \/ m.phase = "Request" /\ m.type = "RequestSend" /\
       AcceptPiece(m, getAckNumber(piece_state[m.id], ReqPieces))
  \/ m.phase = "Request" /\ m.type = "RequestACK" /\ AnswerRequestACK(m)
  \/ m.phase = "Response" /\ AnswerUnready(m)
  \/ m.phase = "Response" /\ AcceptResponseACK(m)
  \/ m.phase = "Response" /\ AnswerHeartbeat(m)

ReceiveConnected(m) ==
  /\ connected
  /\ Take(toServer, m, toServer')
  /\ HandleConnected(m)
  /\ UNCHANGED <<connected, mainBuffer, losses>>
--------------------------------------------------------------------------------
\* A worker of the pool finishes triggerTask: the result waits for a timer.
FinishTask(t) ==
  /\ t \in tasks
  /\ tasks' = tasks \ {t}
  /\ results' = results \cup {t}
  /\ UNCHANGED <<connected, mainBuffer, piece_state, is_trigger, messages,
                 executions, response, response_ack, boundVars, netVars>>

\* The timer stores the Response and sends its first piece, but not when it
\* replaced the Response of an earlier execution.
StoreResponse(t) ==
  LET i == t[1] IN
  /\ t \in results
  /\ results' = results \ {t}
  /\ response' = [response EXCEPT ![i] = t[2]]
  /\ response_ack' = [response_ack EXCEPT ![i] = 0]
  /\ Reply(IF response[i] = NoData THEN {ResponsePiece(i, 0, t[2])} ELSE {})
  /\ UNCHANGED <<connected, mainBuffer, requestVars, boundVars,
                 toServer, dups, losses>>

\* judgeDelete: a Request that heard nothing for RequestTimeOut is erased.
judgeDelete(i) ==
  /\ HasRequest(i)
  /\ expiries < MaxExpiries
  /\ expiries' = expiries + 1
  /\ piece_state' = [piece_state EXCEPT ![i] = {}]
  /\ is_trigger' = [is_trigger EXCEPT ![i] = FALSE]
  /\ UNCHANGED <<connected, mainBuffer, messages, tasks, executions,
                 responseVars, restarts, rejects, reuses, netVars>>

\* judgeResponseClearTimeout: the same for a Response and ResponseTimeOut.
judgeResponseClearTimeout(i) ==
  /\ response[i] # NoData
  /\ expiries < MaxExpiries
  /\ expiries' = expiries + 1
  /\ messages' = messages \ {i}
  /\ response' = [response EXCEPT ![i] = NoData]
  /\ response_ack' = [response_ack EXCEPT ![i] = 0]
  /\ UNCHANGED <<connected, mainBuffer, piece_state, is_trigger, tasks,
                 executions, results, restarts, rejects, reuses, netVars>>

\* The timer's local Response is destroyed after its copy was stored, and
\* ~Response gives the buffer they share back to the pool: any later
\* allocation may overwrite the bytes of the stored copy.
ReuseBuffer(i) ==
  /\ response[i] # NoData
  /\ reuses < MaxReuses
  /\ reuses' = reuses + 1
  /\ response' = [response EXCEPT ![i] = Overwritten]
  /\ UNCHANGED <<connected, mainBuffer, requestVars, results, response_ack,
                 expiries, restarts, rejects, netVars>>

\* The server is stopped and started again: nothing it keeps survives.
Restart ==
  /\ restarts < MaxRestarts
  /\ restarts' = restarts + 1
  /\ connected' = FALSE
  /\ mainBuffer' = {}
  /\ piece_state' = [i \in Calls |-> {}]
  /\ is_trigger' = [i \in Calls |-> FALSE]
  /\ messages' = {}
  /\ tasks' = {}
  /\ results' = {}
  /\ response' = [i \in Calls |-> NoData]
  /\ response_ack' = [i \in Calls |-> 0]
  /\ UNCHANGED <<executions, expiries, rejects, reuses, netVars>>
--------------------------------------------------------------------------------
ServerReceive(m) == AcceptNewPeer(m) \/ ForwardToPeer(m) \/ ReceiveConnected(m)

SubReactorNext ==
  \/ \E m \in toServer : AcceptNewPeer(m)
  \/ \E m \in mainBuffer : ForwardToPeer(m)
  \/ \E m \in toServer : ReceiveConnected(m)
  \/ \E t \in tasks : FinishTask(t)
  \/ \E t \in results : StoreResponse(t)
  \/ \E i \in Calls : judgeDelete(i)
  \/ \E i \in Calls : judgeResponseClearTimeout(i)
  \/ \E i \in Calls : ReuseBuffer(i)
  \/ Restart
================================================================================
