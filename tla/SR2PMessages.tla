----------------------------- MODULE SR2PMessages -----------------------------
(***************************************************************************)
(* The datagrams of the Simple Request-Response Protocol and the network   *)
(* that carries them.  A datagram keeps the header fields that the two     *)
(* ends read: the message id (timePoint), the phase, the type, the piece   *)
(* order or the accept order, and for a piece of a response which          *)
(* execution of the method its bytes come from.                            *)
(*                                                                         *)
(* A channel is the set of the datagrams in flight, so datagrams overtake  *)
(* each other freely.  Delivering one takes it out of the set, or leaves   *)
(* it there (the network duplicated it) while fewer than MaxDups have been *)
(* duplicated; the network loses up to MaxLosses of them.                  *)
(***************************************************************************)
EXTENDS PieceBuffer

CONSTANTS
  MaxCalls,     \* how many calls the client makes, one after the other
  ReqPieces,    \* pieces of every request
  RespPieces,   \* pieces of every response
  MaxDups,      \* bound: datagrams the network duplicates
  MaxLosses,    \* bound: datagrams the network loses
  Overwritten   \* the bytes of a buffer that was freed and handed out again

ASSUME PiecesAssumption == ReqPieces \in Nat \ {0} /\ RespPieces \in Nat \ {0}
ASSUME CallsAssumption == MaxCalls \in Nat
ASSUME NetworkAssumption == MaxDups \in Nat /\ MaxLosses \in Nat
ASSUME OverwrittenAssumption == Overwritten \notin Nat

VARIABLES
  toServer,   \* datagrams in flight from the client
  toClient,   \* datagrams in flight from the server
  dups,       \* datagrams duplicated so far
  losses      \* datagrams lost so far

netVars == <<toServer, toClient, dups, losses>>
--------------------------------------------------------------------------------
Calls == 1 .. MaxCalls

\* What a response piece carries: NoData, the number of the execution that
\* produced the bytes, or Overwritten.
NoData == 0
Data == Nat \cup {Overwritten}

Header(i, ph, ty, ord, d) ==
  [id |-> i, phase |-> ph, type |-> ty, order |-> ord, data |-> d]

\* What the client sends.
RequestPiece(i, k) == Header(i, "Request", "RequestSend", k, NoData)
RequestACK(i) == Header(i, "Request", "RequestACK", 0, NoData)

\* Mutant of ResponseACK: acknowledges a piece too many.
ResponseACKOfNext(i, a) == Header(i, "Response", "ReceiverACK", a + 1, NoData)

ResponseACK(i, a) == Header(i, "Response", "ReceiverACK", a, NoData)
RequestHeartbeat(i) ==
  Header(i, "Response", "TimedOutRequestHeartbeat", 0, NoData)

FromClient ==
  LET Sort(ph, ty, ord) ==
        [id : Calls, phase : {ph}, type : {ty}, order : ord, data : {NoData}]
  IN  Sort("Request", "RequestSend", Orders(ReqPieces))
        \cup Sort("Request", "RequestACK", {0})
        \cup Sort("Response", "ReceiverACK", 0 .. RespPieces)
        \cup Sort("Response", "TimedOutRequestHeartbeat", {0})

\* What the server sends.  Reset and Heartbeat never leave phase Request:
\* sendReset ignores its phase, sendHeartbeat sets it after the write.
\* Exhausted has message id 0.
ACK(i, a) == Header(i, "Request", "ReceiverACK", a, NoData)
Reset(i) == Header(i, "Request", "StateReset", 0, NoData)
Heartbeat(i) == Header(i, "Request", "TimedOutResponseHeartbeat", 0, NoData)
Exhausted == Header(0, "Request", "TheServerResourcesExhausted", 0, NoData)
ResponsePiece(i, k, d) == Header(i, "Response", "RequestSend", k, d)

\* The pieces among them carry data from D.
FromServer(D) ==
  LET Sort(ids, ph, ty, ord, d) ==
        [id : ids, phase : {ph}, type : {ty}, order : ord, data : d]
  IN  Sort(Calls, "Request", "ReceiverACK", 0 .. ReqPieces, {NoData})
        \cup Sort(Calls, "Request", "StateReset", {0}, {NoData})
        \cup Sort(Calls, "Request", "TimedOutResponseHeartbeat", {0}, {NoData})
        \cup Sort({0}, "Request", "TheServerResourcesExhausted", {0}, {NoData})
        \cup Sort(Calls, "Response", "RequestSend", Orders(RespPieces), D)
--------------------------------------------------------------------------------
NetInit ==
  /\ toServer = {}
  /\ toClient = {}
  /\ dups = 0
  /\ losses = 0

NetTypeOK ==
  /\ toServer \subseteq FromClient
  /\ toClient \subseteq FromServer(Data \ {NoData})
  /\ dups \in 0 .. MaxDups
  /\ losses \in 0 .. MaxLosses

\* Taking datagram m out of a channel leaves rest behind; a receiver passes
\* the primed channel as rest.
Take(channel, m, rest) ==
  /\ m \in channel
  /\ \/ /\ rest = channel \ {m}
        /\ UNCHANGED dups
     \/ /\ dups < MaxDups
        /\ rest = channel
        /\ dups' = dups + 1

\* The network loses a datagram.
Lose ==
  /\ losses < MaxLosses
  /\ losses' = losses + 1
  /\ \/ \E m \in toServer : toServer' = toServer \ {m} /\ UNCHANGED toClient
     \/ \E m \in toClient : toClient' = toClient \ {m} /\ UNCHANGED toServer
  /\ UNCHANGED dups
================================================================================
