------------------------------- MODULE LinkReactor -------------------------------
(***************************************************************************)
(* The server as a client: Reactor::send starts a call to another server   *)
(* from the server's own port.  TransmitterLinkReactor is a Transmitter    *)
(* without a socket of its own: the main reactor reads the answers, and    *)
(* hands those whose servlet is in active_queue to its loop.  Windows,     *)
(* handlers, timers and trigger are the Transmitter's; what differs is     *)
(* where a datagram comes from, what happens to one of an unknown message, *)
(* and that the end of a call takes it out of active_queue.                *)
(*                                                                         *)
(* All calls go to one peer.  A datagram of it that is not in active_queue *)
(* is a new client for the main reactor: it opens a socket connected to    *)
(* the peer, and the kernel then prefers this socket for every datagram of *)
(* the peer, until it was silent for two minutes, which is not modelled.   *)
(* GlobalSecondsId is taken to give every call an id of its own.           *)
(*                                                                         *)
(* Reactor::stop does not stop the transmitter: its loop never ends here.  *)
(***************************************************************************)
EXTENDS Transmitter, Sequences

CONSTANT MaxQueue   \* bound: datagrams in newData

ASSUME QueueAssumption == MaxQueue \in Nat \ {0}

VARIABLES
  active_queue,  \* GlobalEntry: the servlets (here: calls) Reactor::send entered
  erasures,      \* GlobalEntry::timerTree: calls to be taken out of active_queue
  newData,       \* datagrams for the loop
  pass,          \* a pass of the loop works off newData ("drain"), then "timers"
  spinning,      \* the loop is caught at the head of newData and holds queue_mtx
  blocked,       \* the main reactor waits for queue_mtx for ever
  captured,      \* the main reactor has a socket that is connected to the peer
  unread         \* what the main socket had of the peer's datagrams before that

mainVars == <<active_queue, erasures, blocked, captured, unread>>
queueVars == <<newData, pass, spinning>>
linkVars == <<mainVars, queueVars>>

LinkInit ==
  /\ active_queue = {}
  /\ erasures = {}
  /\ newData = <<>>
  /\ pass = "drain"
  /\ spinning = FALSE
  /\ blocked = FALSE
  /\ captured = FALSE
  /\ unread = {}

LinkTypeOK ==
  /\ active_queue \subseteq Calls
  /\ erasures \subseteq Calls
  /\ newData \in Seq(FromServer(Data \ {NoData}))
  /\ Len(newData) <= MaxQueue
  /\ pass \in {"drain", "timers"}
  /\ spinning \in BOOLEAN
  /\ blocked \in BOOLEAN
  /\ captured \in BOOLEAN
  /\ unread \subseteq FromServer(Data \ {NoData})
--------------------------------------------------------------------------------
\* Reactor::send: the servlet is entered before the message is put into the map.

\* Mutant of Entered: the message may be sent first.
EnteredOrNot(i) == TRUE

Entered(i) == i \in active_queue

EnterServlet(i) ==
  /\ message[i] = "new"
  /\ \A j \in Calls : j < i => message[j] # "new"
  /\ active_queue' = active_queue \cup {i}
  /\ UNCHANGED <<erasures, blocked, captured, unread, queueVars, clientVars, netVars>>

SendEvent(i) ==
  /\ Entered(i)
  /\ send(i)
  /\ UNCHANGED linkVars
--------------------------------------------------------------------------------
\* The main reactor.

\* The main reactor reads a datagram of the peer from the main socket.
Read(m) ==
  /\ ~blocked
  /\ captured => m \in unread
  /\ Take(toClient, m, toClient')
  /\ UNCHANGED <<clientVars, toServer, losses, active_queue, erasures, pass, spinning>>

\* acceptNewData: it is put into newData, for which the main reactor needs
\* queue_mtx.
Claim(m) ==
  /\ Read(m)
  /\ m.id \in active_queue
  /\ IF spinning
       THEN blocked' = TRUE /\ UNCHANGED newData
       ELSE /\ Len(newData) < MaxQueue
            /\ newData' = Append(newData, m)
            /\ UNCHANGED blocked
  /\ unread' = unread \ {m}
  /\ UNCHANGED captured

\* It is taken for a new client's, which gets a socket; some datagrams are in the
\* main socket's buffer already.
Capture(m) ==
  /\ ~captured
  /\ Read(m)
  /\ m.id \notin active_queue
  /\ captured' = TRUE
  /\ unread' \in SUBSET toClient'
  /\ UNCHANGED <<blocked, newData>>

\* From then on the peer's datagrams reach a sub reactor, as a client's: on the
\* new socket, or passed on by the main reactor.  What it answers is left out: it
\* takes a piece for one of a request and acknowledges it, and the called server
\* meets that with a StateReset, which ends here again.
Misdeliver(m) ==
  /\ captured
  /\ m \in unread => ~blocked /\ m.id \notin active_queue
  /\ Take(toClient, m, toClient')
  /\ unread' = unread \ {m}
  /\ UNCHANGED <<clientVars, toServer, losses, active_queue, erasures, blocked, captured,
                 queueVars>>

\* The timer that try_trigger set.
EraseServlet(i) ==
  /\ ~blocked
  /\ i \in erasures
  /\ active_queue' = active_queue \ {i}
  /\ erasures' = erasures \ {i}
  /\ UNCHANGED <<blocked, captured, unread, queueVars, clientVars, netVars>>
--------------------------------------------------------------------------------
\* The loop.

\* Mutant of Finished: a call counts as finished when its request is acknowledged.
FinishedSending(i) == phase'[i] = "Response"

Finished(i) == triggered'[i]

\* try_trigger also sets the timer that takes the call out of active_queue.
Forget ==
  /\ erasures' = erasures \cup {i \in Calls : Finished(i) /\ ~triggered[i]}
  /\ UNCHANGED <<active_queue, blocked, captured, unread>>

\* The first datagram of the queue, of a message in the map.
HandleHead ==
  /\ loopPc = "receive" /\ pass = "drain" /\ ~spinning
  /\ newData # <<>>
  /\ LET m == Head(newData)
     IN  \/ HearACK(m) \/ HearNothingNew(m) \/ HearReset(m)
         \/ OvertakenACK(m) \/ HearResponsePiece(m)
  /\ newData' = Tail(newData)
  /\ Forget
  /\ UNCHANGED <<pass, spinning, toClient, dups, losses>>

\* The loop continues with the same datagram if its message is not in the map.
Spin ==
  /\ loopPc = "receive" /\ pass = "drain" /\ ~spinning
  /\ newData # <<>>
  /\ ~Known(Head(newData))
  /\ spinning' = TRUE
  /\ UNCHANGED <<newData, pass, mainVars, clientVars, netVars>>

\* The queue is empty: the timers' turn.
EndDrain ==
  /\ loopPc = "receive" /\ pass = "drain"
  /\ newData = <<>>
  /\ pass' = "timers"
  /\ UNCHANGED <<newData, spinning, mainVars, clientVars, netVars>>

\* A timer of the Transmitter; one after which a message is to be sent ends the
\* pass early, since no other timer has to do with that message: the code runs what
\* else is due before it sends, here it runs in the next pass.
InTimers ==
  /\ pass = "timers"
  /\ pass' = IF loopPc' = "receive" THEN "timers" ELSE "drain"
  /\ Forget
  /\ UNCHANGED <<newData, spinning>>

EndPass ==
  /\ loopPc = "receive" /\ pass = "timers"
  /\ pass' = "drain"
  /\ loopPc' = NextPass
  /\ UNCHANGED <<newData, spinning, mainVars, run_state, message, taskVars, timerVars,
                 piece_data, triggerVars, netVars>>

TimeOut(i) ==
  /\ (\E a \in 0 .. ReqPieces : timeout_event(i, a)) \/ response_timeout_event(i)
  /\ InTimers

ClearTimer(i) ==
  /\ (\E a \in 0 .. ReqPieces : staleTimeout(i, a)) \/ delete_message(i)
  /\ InTimers

\* The steps between which the main reactor's state does not matter.
SendOrSleep ==
  /\ Park \/ Sleep \/ SendPass
  /\ UNCHANGED linkVars

\* A worker of the pool.
Work(i) ==
  /\ Decode(i) \/ CallBack(i) \/ Dismiss(i)
  /\ UNCHANGED linkVars
--------------------------------------------------------------------------------
\* A step other than a timer that finds that nothing came.
LinkProceeds ==
  \/ \E i \in Calls : EnterServlet(i)
  \/ \E i \in Calls : SendEvent(i)
  \/ \E m \in toClient : Claim(m)
  \/ \E m \in toClient : Capture(m)
  \/ \E m \in toClient : Misdeliver(m)
  \/ \E i \in Calls : EraseServlet(i)
  \/ HandleHead
  \/ Spin
  \/ EndDrain
  \/ EndPass
  \/ \E i \in Calls : ClearTimer(i)
  \/ SendOrSleep
  \/ \E i \in Calls : Work(i)

LinkNext == LinkProceeds \/ \E i \in Calls : TimeOut(i)
================================================================================
