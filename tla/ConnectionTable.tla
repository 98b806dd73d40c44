---------------------------- MODULE ConnectionTable ----------------------------
(***************************************************************************)
(* How datagrams of several peers reach their connections: the main        *)
(* reactor (Reactor::loop, con_queue), one sub reactor (its connection     *)
(* slots, newConnections, epoll set and checkDeleteSocket timers) and the  *)
(* descriptors of the kernel that both open and close.                     *)
(*                                                                         *)
(* What a datagram says does not matter here, only whose it is.  A socket  *)
(* connected to a peer receives the peer's datagrams, everything else      *)
(* arrives at the main socket, or at a socket that is bound to the same    *)
(* port and not connected yet.  Time is not modelled: a connection falls   *)
(* silent for ConnectionTimeOut when Silence says so, and a timer that is  *)
(* set may be found due in every pass of the loop.                         *)
(***************************************************************************)
EXTENDS Integers, Sequences, FiniteSets

CONSTANTS
  Peers,              \* addresses of clients
  openMaxConnection,  \* slots of the sub reactor
  Fds,                \* descriptor numbers
  None,               \* no descriptor, no slot, no peer
  MaxSends,           \* bound: datagrams the peers send
  MaxSilences,        \* bound: times a connection falls silent
  MaxErrors,          \* bound: pending socket errors (EPOLLERR)
  MaxFailures         \* bound: connect calls that fail

ASSUME TableAssumption ==
  /\ openMaxConnection \in Nat \ {0}
  /\ IsFiniteSet(Peers) /\ IsFiniteSet(Fds)
  /\ None \notin Peers /\ None \notin Fds /\ None \notin Nat
  /\ "closed" \notin Peers /\ "unconnected" \notin Peers
ASSUME BoundAssumption ==
  MaxSends \in Nat /\ MaxSilences \in Nat /\ MaxErrors \in Nat /\ MaxFailures \in Nat

VARIABLES
  socket,      \* per descriptor: "closed", "unconnected" or its peer
  inbox,       \* per descriptor: peers with a datagram waiting on it
  failing,     \* descriptors with a pending error
  epoll,       \* per descriptor: the slot its events point to, None = not in
  mainBuffer,  \* peers with a datagram waiting on the main socket
  mainPc,      \* the main reactor: "timer", "receive", "connect" or "accept"
  mainEntry,   \* the datagram it is about to hand over
  con_queue,   \* per peer: the descriptor of its connection, or None
  erasures,    \* per peer: global timers set that erase it from con_queue
  subPc,       \* the sub reactor: "off", "starting", "wait", "timers", "deal",
               \* "events"
  newConnections, \* datagrams handed over by the main reactor
  turns,       \* iterations dealWithNewConnection still makes
  clearing,    \* clearTimeoutConnections is going through the slots
  switched,    \* epoll_switch_fd asks for EPOLLOUT, which wakes epoll_wait
  ready,       \* slots with EPOLLIN in the epollQueue of this pass
  errored,     \* slots with EPOLLERR in it
  sawSwitch,   \* the switch is in it
  socket_fd,   \* VirtualConnection::socket_fd per slot, None for -1
  addr,        \* VirtualConnection::addr per slot
  idle,        \* last_active is older than ConnectionTimeOut
  checks,      \* per slot: checkDeleteSocket timers set for it
  lastEmptyPlace, activeConnectionsCount,
  gaveUp,      \* history: dealWithNewConnection could not serve an entry
  sends, silences, errors, failures   \* how often each bound was used

kernelVars == <<socket, inbox, failing, epoll>>
mainVars == <<mainBuffer, mainPc, mainEntry, con_queue>>
loopVars == <<subPc, turns, clearing, ready, errored, sawSwitch>>
queueVars == <<newConnections, switched>>
slotVars == <<socket_fd, addr, idle, checks>>
placeVars == <<lastEmptyPlace, activeConnectionsCount>>
countVars == <<sends, silences, errors, failures>>
vars == <<kernelVars, mainVars, erasures, loopVars, queueVars, slotVars,
          placeVars, gaveUp, countVars>>
--------------------------------------------------------------------------------
Slots == 0 .. openMaxConnection - 1
Entries == [fd : Fds, peer : Peers, is_new : BOOLEAN]
Entry(f, p, new) == [fd |-> f, peer |-> p, is_new |-> new]

TypeOK ==
  /\ socket \in [Fds -> Peers \cup {"closed", "unconnected"}]
  /\ inbox \in [Fds -> SUBSET Peers]
  /\ failing \subseteq Fds
  /\ epoll \in [Fds -> Slots \cup {None}]
  /\ mainBuffer \subseteq Peers
  /\ mainPc \in {"timer", "receive", "connect", "accept"}
  /\ mainEntry \in Entries \cup {None}
  /\ mainPc \in {"connect", "accept"} => mainEntry \in Entries
  /\ con_queue \in [Peers -> Fds \cup {None}]
  /\ erasures \in [Peers -> Nat]
  /\ subPc \in {"off", "starting", "wait", "timers", "deal", "events"}
  /\ newConnections \in Seq(Entries)
  /\ turns \in 0 .. Len(newConnections)
  /\ clearing \in BOOLEAN /\ switched \in BOOLEAN /\ sawSwitch \in BOOLEAN
  /\ ready \subseteq Slots /\ errored \subseteq Slots
  /\ socket_fd \in [Slots -> Fds \cup {None}]
  /\ addr \in [Slots -> Peers \cup {None}]
  /\ \A k \in Slots : socket_fd[k] # None => addr[k] # None
  /\ idle \in [Slots -> BOOLEAN]
  /\ checks \in [Slots -> Nat]
  /\ lastEmptyPlace \in Slots
  /\ activeConnectionsCount \in Int
  /\ gaveUp \in BOOLEAN
  /\ sends \in 0 .. MaxSends /\ silences \in 0 .. MaxSilences
  /\ errors \in 0 .. MaxErrors /\ failures \in 0 .. MaxFailures

Init ==
  /\ socket = [f \in Fds |-> "closed"]
  /\ inbox = [f \in Fds |-> {}]
  /\ failing = {}
  /\ epoll = [f \in Fds |-> None]
  /\ mainBuffer = {}
  /\ mainPc = "timer"
  /\ mainEntry = None
  /\ con_queue = [p \in Peers |-> None]
  /\ erasures = [p \in Peers |-> 0]
  /\ subPc = "off"
  /\ newConnections = <<>>
  /\ turns = 0
  /\ clearing = FALSE
  /\ switched = FALSE
  /\ ready = {}
  /\ errored = {}
  /\ sawSwitch = FALSE
  /\ socket_fd = [k \in Slots |-> None]
  /\ addr = [k \in Slots |-> None]
  /\ idle = [k \in Slots |-> FALSE]
  /\ checks = [k \in Slots |-> 0]
  /\ lastEmptyPlace = 0
  /\ activeConnectionsCount = 0
  /\ gaveUp = FALSE
  /\ sends = 0 /\ silences = 0 /\ errors = 0 /\ failures = 0
--------------------------------------------------------------------------------
\* The kernel and the peers.

\* close: what waits on the descriptor is lost, and epoll forgets it; closing
\* one that is closed fails and changes nothing.
CloseFd(f) ==
  /\ socket' = [socket EXCEPT ![f] = "closed"]
  /\ inbox' = [inbox EXCEPT ![f] = {}]
  /\ failing' = failing \ {f}
  /\ epoll' = [epoll EXCEPT ![f] = None]

\* A peer sends a datagram: to the socket connected to it, if there is one.
Send(p) ==
  /\ sends < MaxSends
  /\ sends' = sends + 1
  /\ IF \E f \in Fds : socket[f] = p
       THEN /\ \E f \in Fds : /\ socket[f] = p
                              /\ inbox' = [inbox EXCEPT ![f] = @ \cup {p}]
            /\ UNCHANGED mainBuffer
       ELSE \/ /\ mainBuffer' = mainBuffer \cup {p}
               /\ UNCHANGED inbox
            \/ /\ \E f \in Fds : /\ socket[f] = "unconnected"
                                 /\ inbox' = [inbox EXCEPT ![f] = @ \cup {p}]
               /\ UNCHANGED mainBuffer
  /\ UNCHANGED <<socket, failing, epoll, mainPc, mainEntry, con_queue, erasures,
                 loopVars, queueVars, slotVars, placeVars, gaveUp,
                 silences, errors, failures>>

\* The peer of a socket is gone: what was sent to it comes back as an error.
FailSocket(f) ==
  /\ socket[f] \in Peers
  /\ f \notin failing
  /\ errors < MaxErrors
  /\ errors' = errors + 1
  /\ failing' = failing \cup {f}
  /\ UNCHANGED <<socket, inbox, epoll, mainVars, erasures, loopVars, queueVars,
                 slotVars, placeVars, gaveUp, sends, silences, failures>>

\* A connection has heard nothing for ConnectionTimeOut.
Silence(k) ==
  /\ socket_fd[k] # None
  /\ ~idle[k]
  /\ silences < MaxSilences
  /\ silences' = silences + 1
  /\ idle' = [idle EXCEPT ![k] = TRUE]
  /\ UNCHANGED <<kernelVars, mainVars, erasures, loopVars, queueVars, socket_fd,
                 addr, checks, placeVars, gaveUp, sends, errors, failures>>
--------------------------------------------------------------------------------
\* Reactor::loop.  One global timer a pass, then one datagram at most.

ErasePeer(p) ==
  /\ mainPc = "timer"
  /\ erasures[p] > 0
  /\ erasures' = [erasures EXCEPT ![p] = @ - 1]
  /\ con_queue' = [con_queue EXCEPT ![p] = None]
  /\ mainPc' = "receive"
  /\ UNCHANGED <<kernelVars, mainBuffer, mainEntry, loopVars, queueVars, slotVars,
                 placeVars, gaveUp, countVars>>

NothingToErase ==
  /\ mainPc = "timer"
  /\ \A p \in Peers : erasures[p] = 0
  /\ mainPc' = "receive"
  /\ UNCHANGED <<kernelVars, mainBuffer, mainEntry, con_queue, erasures, loopVars,
                 queueVars, slotVars, placeVars, gaveUp, countVars>>

\* epoll_wait returns after 10 ms without a datagram.
ReceiveNothing ==
  /\ mainPc = "receive"
  /\ mainBuffer = {}
  /\ mainPc' = "timer"
  /\ UNCHANGED <<kernelVars, mainBuffer, mainEntry, con_queue, erasures, loopVars,
                 queueVars, slotVars, placeVars, gaveUp, countVars>>

\* A peer in con_queue: the datagram is for the connection it has.
ReceiveFromKnown(p) ==
  /\ mainPc = "receive"
  /\ p \in mainBuffer
  /\ con_queue[p] # None
  /\ mainBuffer' = mainBuffer \ {p}
  /\ mainEntry' = Entry(con_queue[p], p, FALSE)
  /\ mainPc' = "accept"
  /\ UNCHANGED <<kernelVars, con_queue, erasures, loopVars, queueVars, slotVars,
                 placeVars, gaveUp, countVars>>

\* An unknown peer: a socket is created and bound to the server's port; without
\* a descriptor the datagram is dropped.
ReceiveFromNew(p) ==
  /\ mainPc = "receive"
  /\ p \in mainBuffer
  /\ con_queue[p] = None
  /\ mainBuffer' = mainBuffer \ {p}
  /\ \/ \E f \in Fds :
          /\ socket[f] = "closed"
          /\ socket' = [socket EXCEPT ![f] = "unconnected"]
          /\ mainEntry' = Entry(f, p, TRUE)
          /\ mainPc' = "connect"
     \/ /\ \A f \in Fds : socket[f] # "closed"
        /\ mainPc' = "timer"
        /\ UNCHANGED <<socket, mainEntry>>
  /\ UNCHANGED <<inbox, failing, epoll, con_queue, erasures, loopVars, queueVars,
                 slotVars, placeVars, gaveUp, countVars>>

Connect ==
  /\ mainPc = "connect"
  /\ socket[mainEntry.fd] = "unconnected"
  /\ socket' = [socket EXCEPT ![mainEntry.fd] = mainEntry.peer]
  /\ mainPc' = "accept"
  /\ UNCHANGED <<inbox, failing, epoll, mainBuffer, mainEntry, con_queue, erasures,
                 loopVars, queueVars, slotVars, placeVars, gaveUp, countVars>>

\* connect fails, of itself or because the sub reactor closed the descriptor
\* meanwhile; the socket is left open.
ConnectFails ==
  /\ mainPc = "connect"
  /\ IF socket[mainEntry.fd] = "unconnected"
       THEN failures < MaxFailures /\ failures' = failures + 1
       ELSE UNCHANGED failures
  /\ mainPc' = "timer"
  /\ UNCHANGED <<kernelVars, mainBuffer, mainEntry, con_queue, erasures, loopVars,
                 queueVars, slotVars, placeVars, gaveUp, sends, silences, errors>>

\* Mutant of Awake: acceptConnection does not switch EPOLLOUT on.
AwakeNot == switched

\* acceptConnection asks epoll_switch_fd for EPOLLOUT; nobody notices that this
\* fails while the switch is not in the epoll set yet.
Awake == subPc # "starting"

\* acceptConnection, with newConLocker: the sub reactor gets the datagram and is
\* woken; a new peer enters con_queue.
Accept ==
  /\ mainPc = "accept"
  /\ subPc \notin {"off", "deal"}
  /\ newConnections' = Append(newConnections, mainEntry)
  /\ switched' = Awake
  /\ con_queue' = IF mainEntry.is_new
                    THEN [con_queue EXCEPT ![mainEntry.peer] = mainEntry.fd]
                    ELSE con_queue
  /\ mainPc' = "timer"
  /\ UNCHANGED <<kernelVars, mainBuffer, mainEntry, erasures, loopVars, slotVars,
                 placeVars, gaveUp, countVars>>

\* Mutant of AcceptRefused: the socket of the refused datagram is left open.
AcceptRefusedOpen ==
  /\ mainPc = "accept"
  /\ subPc = "off"
  /\ mainPc' = "timer"
  /\ UNCHANGED <<kernelVars, mainBuffer, mainEntry, con_queue, erasures, loopVars,
                 queueVars, slotVars, placeVars, gaveUp, countVars>>

\* The sub reactor's thread has not set runState yet: the socket is closed.
AcceptRefused ==
  /\ mainPc = "accept"
  /\ subPc = "off"
  /\ IF mainEntry.is_new THEN CloseFd(mainEntry.fd) ELSE UNCHANGED kernelVars
  /\ mainPc' = "timer"
  /\ UNCHANGED <<mainBuffer, mainEntry, con_queue, erasures, loopVars, queueVars,
                 slotVars, placeVars, gaveUp, countVars>>
--------------------------------------------------------------------------------
\* SubReactor::loop.

\* runState is set: from now on acceptConnection takes entries.
Start ==
  /\ subPc = "off"
  /\ subPc' = "starting"
  /\ UNCHANGED <<kernelVars, mainVars, erasures, turns, clearing, ready, errored,
                 sawSwitch, queueVars, slotVars, placeVars, gaveUp, countVars>>

\* epoll_switch_fd is created and added to the epoll set, with EPOLLIN only.
AddSwitch ==
  /\ subPc = "starting"
  /\ subPc' = "wait"
  /\ UNCHANGED <<kernelVars, mainVars, erasures, turns, clearing, ready, errored,
                 sawSwitch, queueVars, slotVars, placeVars, gaveUp, countVars>>

\* epoll_wait returns, with openMaxConnection of the events at most (None stands
\* for the switch's), or with none because a timer of the tree is near.
Poll ==
  LET Signalled(F) == {k \in Slots : \E f \in F : epoll[f] = k}
      input == Signalled({f \in Fds : inbox[f] # {}})
      error == Signalled(failing)
      pending == input \cup error \cup {n \in {None} : switched}
  IN
  /\ subPc = "wait"
  /\ pending # {} \/ \E k \in Slots : checks[k] > 0
  /\ \E reported \in SUBSET pending :
       /\ Cardinality(reported) <= openMaxConnection
       /\ reported = pending \/ Cardinality(reported) = openMaxConnection
       /\ ready' = input \cap reported
       /\ errored' = error \cap reported
       /\ sawSwitch' = (None \in reported)
  /\ subPc' = "timers"
  /\ UNCHANGED <<kernelVars, mainVars, erasures, turns, clearing, queueVars,
                 slotVars, placeVars, gaveUp, countVars>>

\* Mutant of closeSocket: epoll and the descriptor are forgotten.
closeSocketNot(k) ==
  /\ UNCHANGED kernelVars
  /\ erasures' = [erasures EXCEPT ![addr[k]] = @ + 1]

\* Mutant of closeSocket: con_queue is not told.
closeSocketQuietly(k) ==
  /\ IF socket_fd[k] \in Fds THEN CloseFd(socket_fd[k]) ELSE UNCHANGED kernelVars
  /\ UNCHANGED erasures

\* closeSocket leaves socket_fd as it is, and has con_queue told.
closeSocket(k) ==
  /\ IF socket_fd[k] \in Fds THEN CloseFd(socket_fd[k]) ELSE UNCHANGED kernelVars
  /\ erasures' = [erasures EXCEPT ![addr[k]] = @ + 1]

\* A checkDeleteSocket timer runs: on a free slot it ends, on a silent connection
\* it closes it and ends.  Otherwise it is set again, which changes nothing here.
checkDeleteSocket(k) ==
  /\ subPc = "timers"
  /\ checks[k] > 0
  /\ checks' = [checks EXCEPT ![k] = @ - 1]
  /\ \/ /\ socket_fd[k] = None
        /\ UNCHANGED <<kernelVars, erasures, socket_fd>>
     \/ /\ socket_fd[k] # None /\ idle[k]
        /\ closeSocket(k)
        /\ socket_fd' = [socket_fd EXCEPT ![k] = None]
  /\ UNCHANGED <<mainVars, loopVars, queueVars, addr, idle, placeVars, gaveUp,
                 countVars>>

\* Mutant of BeginDeal: an off-by-one in the bound of the loop.
BeginDealOneMore ==
  /\ subPc = "timers"
  /\ subPc' = "deal"
  /\ turns' = Len(newConnections) + 1
  /\ UNCHANGED <<kernelVars, mainVars, erasures, clearing, ready, errored,
                 sawSwitch, queueVars, slotVars, placeVars, gaveUp, countVars>>

\* dealWithNewConnection takes newConLocker and counts the entries.
BeginDeal ==
  /\ subPc = "timers"
  /\ subPc' = "deal"
  /\ turns' = Len(newConnections)
  /\ UNCHANGED <<kernelVars, mainVars, erasures, clearing, ready, errored,
                 sawSwitch, queueVars, slotVars, placeVars, gaveUp, countVars>>

Dealing(new) == subPc = "deal" /\ turns > 0 /\ Head(newConnections).is_new = new

\* Mutant of TableLooksFull: an off-by-one in the test that precedes the clearing.
TableLooksOverfull == activeConnectionsCount > openMaxConnection

\* findConnectionsEmptyPlace clears before it looks when the counter says full.
TableLooksFull == activeConnectionsCount >= openMaxConnection

\* clearTimeoutConnections closes the silent connections one by one.
ClearConnection(k) ==
  /\ Dealing(TRUE)
  /\ TableLooksFull \/ clearing
  /\ socket_fd[k] # None /\ idle[k]
  /\ clearing' = TRUE
  /\ closeSocket(k)
  /\ socket_fd' = [socket_fd EXCEPT ![k] = None]
  /\ activeConnectionsCount' = activeConnectionsCount - 1
  /\ UNCHANGED <<mainVars, subPc, turns, ready, errored, sawSwitch, queueVars, addr,
                 idle, checks, lastEmptyPlace, gaveUp, countVars>>

Cleared ==
  TableLooksFull \/ clearing => \A k \in Slots : socket_fd[k] # None => ~idle[k]

\* The first free slot at or after lastEmptyPlace, going round.
IsEmptyPlace(k) ==
  LET Distance(j) == (j + openMaxConnection - lastEmptyPlace) % openMaxConnection
  IN  /\ socket_fd[k] = None
      /\ \A j \in Slots : socket_fd[j] = None => Distance(k) <= Distance(j)

\* An entry that cannot be served stays at the head of the queue: continue
\* passes over the pop at the end of the loop.
SkipEntry ==
  /\ turns' = turns - 1
  /\ clearing' = FALSE
  /\ gaveUp' = TRUE
  /\ UNCHANGED <<subPc, ready, errored, sawSwitch, queueVars>>

PopEntry ==
  /\ turns' = turns - 1
  /\ clearing' = FALSE
  /\ newConnections' = Tail(newConnections)
  /\ UNCHANGED <<subPc, ready, errored, sawSwitch, switched, gaveUp>>

\* No free slot: the peer is sent TheServerResourcesExhausted, its socket closed.
RefusePeer ==
  /\ Dealing(TRUE)
  /\ Cleared
  /\ \A k \in Slots : socket_fd[k] # None
  /\ CloseFd(Head(newConnections).fd)
  /\ SkipEntry
  /\ UNCHANGED <<mainVars, erasures, slotVars, placeVars, countVars>>

\* Mutant of Watch: the timer of a new connection is left out.
Unwatched(k) == checks

\* setTimeout of checkDeleteSocket for slot k.
Watch(k) == [checks EXCEPT ![k] = @ + 1]

TakePlace(k) ==
  LET e == Head(newConnections) IN
  /\ Dealing(TRUE)
  /\ Cleared
  /\ IsEmptyPlace(k)
  /\ socket_fd' = [socket_fd EXCEPT ![k] = e.fd]
  /\ addr' = [addr EXCEPT ![k] = e.peer]
  /\ idle' = [idle EXCEPT ![k] = FALSE]
  /\ lastEmptyPlace' = k
  /\ activeConnectionsCount' = activeConnectionsCount + 1

\* A new peer gets a slot, its datagram is handled, its socket watched by epoll.
AddConnection(k) ==
  LET f == Head(newConnections).fd IN
  /\ TakePlace(k)
  /\ socket[f] # "closed" /\ epoll[f] = None
  /\ epoll' = [epoll EXCEPT ![f] = k]
  /\ checks' = Watch(k)
  /\ PopEntry
  /\ UNCHANGED <<socket, inbox, failing, mainVars, erasures, countVars>>

\* EPOLL_CTL_ADD fails: the socket was closed, or is in the set for another slot.
AddFails(k) ==
  LET f == Head(newConnections).fd IN
  /\ TakePlace(k)
  /\ socket[f] = "closed" \/ epoll[f] # None
  /\ CloseFd(f)
  /\ SkipEntry
  /\ UNCHANGED <<checks, mainVars, erasures, countVars>>

HasSlot(f) == \E k \in Slots : socket_fd[k] = f

\* A datagram of a known peer is handled on the connection of its descriptor.
HandOver ==
  /\ Dealing(FALSE)
  /\ HasSlot(Head(newConnections).fd)
  /\ PopEntry
  /\ UNCHANGED <<kernelVars, mainVars, erasures, slotVars, placeVars, countVars>>

\* No connection has it (any more).
MissConnection ==
  /\ Dealing(FALSE)
  /\ ~HasSlot(Head(newConnections).fd)
  /\ SkipEntry
  /\ UNCHANGED <<kernelVars, mainVars, erasures, slotVars, placeVars, countVars>>

EndDeal ==
  /\ subPc = "deal"
  /\ turns = 0
  /\ subPc' = "events"
  /\ UNCHANGED <<kernelVars, mainVars, erasures, turns, clearing, ready, errored,
                 sawSwitch, queueVars, slotVars, placeVars, gaveUp, countVars>>

\* EPOLLERR: the socket is closed, the slot stays as it is.
HandleError(k) ==
  /\ subPc = "events"
  /\ k \in errored
  /\ errored' = errored \ {k}
  /\ closeSocket(k)
  /\ UNCHANGED <<mainVars, subPc, turns, clearing, ready, sawSwitch, queueVars,
                 slotVars, placeVars, gaveUp, countVars>>

\* EPOLLIN: one datagram is read from the socket the slot has by now.  From a
\* closed one nothing comes; one without a datagram blocks the thread.
HandleInput(k) ==
  LET f == socket_fd[k] IN
  /\ subPc = "events"
  /\ k \in ready /\ k \notin errored
  /\ ready' = ready \ {k}
  /\ idle' = [idle EXCEPT ![k] = FALSE]
  /\ IF f = None \/ (f \in Fds /\ socket[f] = "closed")
       THEN UNCHANGED inbox
       ELSE \E p \in inbox[f] : inbox' = [inbox EXCEPT ![f] = @ \ {p}]
  /\ UNCHANGED <<socket, failing, epoll, mainVars, erasures, subPc, turns, clearing,
                 errored, sawSwitch, queueVars, socket_fd, addr, checks, placeVars,
                 gaveUp, countVars>>

\* EPOLLOUT of the switch: it is set back to EPOLLIN.
ResetSwitch ==
  /\ subPc = "events"
  /\ sawSwitch
  /\ sawSwitch' = FALSE
  /\ switched' = FALSE
  /\ UNCHANGED <<kernelVars, mainVars, erasures, subPc, turns, clearing, ready,
                 errored, newConnections, slotVars, placeVars, gaveUp, countVars>>

EndPass ==
  /\ subPc = "events"
  /\ ready = {} /\ errored = {} /\ ~sawSwitch
  /\ subPc' = "wait"
  /\ UNCHANGED <<kernelVars, mainVars, erasures, turns, clearing, ready, errored,
                 sawSwitch, queueVars, slotVars, placeVars, gaveUp, countVars>>
--------------------------------------------------------------------------------
MainStep ==
  \/ \E p \in Peers : ErasePeer(p)
  \/ NothingToErase
  \/ ReceiveNothing
  \/ \E p \in Peers : ReceiveFromKnown(p)
  \/ \E p \in Peers : ReceiveFromNew(p)
  \/ Connect
  \/ ConnectFails
  \/ Accept
  \/ AcceptRefused

SubStep ==
  \/ Start
  \/ AddSwitch
  \/ Poll
  \/ BeginDeal
  \/ \E k \in Slots : ClearConnection(k)
  \/ RefusePeer
  \/ \E k \in Slots : AddConnection(k)
  \/ \E k \in Slots : AddFails(k)
  \/ HandOver
  \/ MissConnection
  \/ EndDeal
  \/ \E k \in Slots : HandleError(k)
  \/ \E k \in Slots : HandleInput(k)
  \/ ResetSwitch
  \/ EndPass

Next ==
  \/ \E p \in Peers : Send(p)
  \/ \E f \in Fds : FailSocket(f)
  \/ \E k \in Slots : Silence(k)
  \/ MainStep
  \/ SubStep
  \/ \E k \in Slots : checkDeleteSocket(k)

Spec == Init /\ [][Next]_vars

\* Both threads run, and a timer that stays set is found due in some pass.
Fairness ==
  /\ WF_vars(MainStep)
  /\ WF_vars(SubStep)
  /\ \A k \in Slots : SF_vars(checkDeleteSocket(k))

FairSpec == Spec /\ Fairness
--------------------------------------------------------------------------------
\* The safety properties.

\* A descriptor whose events epoll reports as slot k is the descriptor slot k
\* has: no connection is served with the events of another one, although
\* closeSocket leaves socket_fd in place after an error, timers of an earlier
\* connection close what the slot holds later, and descriptor numbers come back.
EpollFollowsSlot ==
  \A f \in Fds, k \in Slots : epoll[f] = k => socket_fd[k] = f

\* Every connection that epoll watches has a checkDeleteSocket timer, whichever
\* timers of the slot's earlier connections have run out on it: none is kept
\* open for ever because nobody looks whether it fell silent.
ConnectionsAreWatched ==
  \A f \in Fds, k \in Slots : epoll[f] = k => checks[k] > 0

\* What a run needs for the table and con_queue to agree: no entry had to be
\* given up, and no socket failed.
Clean == ~gaveUp /\ errors = 0

\* The first datagram of peer p, with its socket f, waits for a slot.
Queued(f, p) ==
  \E n \in 1 .. Len(newConnections) : newConnections[n] = Entry(f, p, TRUE)

\* The main reactor is about to hand the socket over.
InHand(f) ==
  /\ mainPc \in {"connect", "accept"}
  /\ mainEntry.is_new
  /\ mainEntry.fd = f

\* As long as no entry is given up, a peer the main reactor believes connected
\* is: its descriptor is the one of a slot that has its address, or of an entry
\* that waits for one, unless the timer that erases the peer is pending.
KnownPeersAreConnected ==
  Clean => \A p \in Peers, f \in Fds :
    con_queue[p] = f /\ erasures[p] = 0 =>
      \/ \E k \in Slots : socket_fd[k] = f /\ addr[k] = p
      \/ Queued(f, p)

\* As long as no entry is given up and no connect fails, no descriptor is lost:
\* an open one belongs to a slot or to a datagram on its way to one.
NoStraySockets ==
  Clean /\ failures = 0 => \A f \in Fds :
    socket[f] # "closed" =>
      \/ \E k \in Slots : socket_fd[k] = f
      \/ InHand(f)
      \/ \E p \in Peers : Queued(f, p)

\* A peer is refused, with TheServerResourcesExhausted, only when every slot has
\* a connection that was heard of within ConnectionTimeOut: activeConnectionsCount,
\* which checkDeleteSocket does not lower, never hides a silent one.
RefusedOnlyWhenFull ==
  [][RefusePeer => \A k \in Slots : socket_fd[k] # None /\ ~idle[k]]_vars

\* The sub reactor waits in recvfrom for a datagram the kernel does not have: the
\* EPOLLIN was for an earlier connection of the slot.
Blocked ==
  /\ subPc = "events"
  /\ \E k \in ready : socket_fd[k] \in Fds /\ inbox[socket_fd[k]] = {}

\* The sub reactor has no timer left, so only the switch or a socket wakes it.
OutOfTimers ==
  /\ \E k \in Slots : addr[k] # None
  /\ \A k \in Slots : checks[k] = 0

\* An entry came before the loop had its switch, and nothing tells the loop.
MissedAtStart == subPc = "starting" /\ newConnections # <<>>

\* A datagram that the main reactor handed over is dealt with in some pass, as
\* long as no entry is given up, no read blocks and none came while the loop
\* started: the wake-up that ResetSwitch may take back is made up for by the
\* timers, while there are any.
QueueIsWorkedOff ==
  [](~gaveUp /\ ~Blocked /\ ~OutOfTimers /\ ~MissedAtStart)
    => []<>(newConnections = <<>>)

\* A connection that is silent for ConnectionTimeOut is closed, unless it is heard
\* of after all: its slot and descriptor are not lost.
IdleConnectionsAreClosed ==
  [](Clean /\ ~Blocked) =>
    \A k \in Slots : (socket_fd[k] # None /\ idle[k])
                        ~> (socket_fd[k] = None \/ ~idle[k])
================================================================================
