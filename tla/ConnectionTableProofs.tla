------------------------- MODULE ConnectionTableProofs -------------------------
(***************************************************************************)
(* Proofs of the safety properties of ConnectionTable, for any number of   *)
(* peers, descriptors and slots, and however often each bound is used.     *)
(***************************************************************************)
EXTENDS ConnectionTable, FiniteSetTheorems, TLAPS

\* The slots that have a connection.
UsedSlots == {k \in Slots : socket_fd[k] # None}

\* activeConnectionsCount may be too high, since checkDeleteSocket does not lower
\* it, and is never too low.
CountCovers == Cardinality(UsedSlots) <= activeConnectionsCount

\* A socket that is being connected is connected to nobody yet.
ConnectHolds ==
  mainPc = "connect" => mainEntry.is_new /\ socket[mainEntry.fd] \notin Peers
--------------------------------------------------------------------------------
\* Descriptors, slots and peers are told from None.
LEMMA Distinct == None \notin Fds /\ None \notin Peers /\ None \notin Slots /\ openMaxConnection \in Nat
  BY TableAssumption DEF Slots

LEMMA InitTyped == Init => TypeOK
  <1> SUFFICES ASSUME Init PROVE TypeOK
    OBVIOUS
  <1>1. erasures \in [Peers -> Nat] /\ checks \in [Slots -> Nat] /\ newConnections = <<>> /\ newConnections \in Seq(Entries)
    BY DEF Init
  <1>2. 0 \in Slots
    BY TableAssumption DEF Slots
  <1>3. /\ clearing \in BOOLEAN /\ switched \in BOOLEAN /\ sawSwitch \in BOOLEAN
        /\ gaveUp \in BOOLEAN
    BY Zenon DEF Init
  <1>4. /\ socket \in [Fds -> Peers \cup {"closed", "unconnected"}]
        /\ inbox \in [Fds -> SUBSET Peers]
        /\ failing \subseteq Fds
        /\ epoll \in [Fds -> Slots \cup {None}]
        /\ mainBuffer \subseteq Peers
        /\ mainPc \in {"timer", "receive", "connect", "accept"}
        /\ mainEntry \in Entries \cup {None}
        /\ mainPc \in {"connect", "accept"} => mainEntry \in Entries
        /\ con_queue \in [Peers -> Fds \cup {None}]
        /\ subPc \in {"off", "starting", "wait", "timers", "deal", "events"}
        /\ ready \subseteq Slots /\ errored \subseteq Slots
    BY DEF Init
  <1>5. /\ socket_fd \in [Slots -> Fds \cup {None}]
        /\ addr \in [Slots -> Peers \cup {None}]
        /\ \A k \in Slots : socket_fd[k] # None => addr[k] # None
        /\ idle \in [Slots -> BOOLEAN]
    BY DEF Init
  <1>6. /\ turns \in 0 .. Len(newConnections)
        /\ lastEmptyPlace \in Slots
        /\ activeConnectionsCount \in Int
        /\ sends \in 0 .. MaxSends /\ silences \in 0 .. MaxSilences
        /\ errors \in 0 .. MaxErrors /\ failures \in 0 .. MaxFailures
    BY <1>1, <1>2, BoundAssumption DEF Init
  <1>7. QED  BY <1>1, <1>3, <1>4, <1>5, <1>6, Zenon DEF TypeOK

\* Closing a descriptor keeps the types of the kernel's state.
LEMMA CloseTyped ==
  ASSUME TypeOK, NEW f, CloseFd(f)
  PROVE  /\ socket' \in [Fds -> Peers \cup {"closed", "unconnected"}]
         /\ inbox' \in [Fds -> SUBSET Peers]
         /\ failing' \subseteq Fds
         /\ epoll' \in [Fds -> Slots \cup {None}]
  BY DEF TypeOK, CloseFd

LEMMA CloseSocketTyped ==
  ASSUME TypeOK, NEW k \in Slots, closeSocket(k)
  PROVE  /\ socket' \in [Fds -> Peers \cup {"closed", "unconnected"}]
         /\ inbox' \in [Fds -> SUBSET Peers]
         /\ failing' \subseteq Fds
         /\ epoll' \in [Fds -> Slots \cup {None}]
         /\ erasures' \in [Peers -> Nat]
  <1>1. erasures' \in [Peers -> Nat]
    <2>1. erasures \in [Peers -> Nat]
      BY DEF TypeOK
    <2>2. erasures' = [erasures EXCEPT ![addr[k]] = @ + 1]
      BY DEF closeSocket
    <2>3. CASE addr[k] \in Peers     BY <2>1, <2>2, <2>3
    <2>4. CASE addr[k] \notin Peers  BY <2>1, <2>2, <2>4
    <2>5. QED  BY <2>3, <2>4
  <1>2. CASE socket_fd[k] \in Fds
    <2>1. CloseFd(socket_fd[k])
      BY <1>2 DEF closeSocket
    <2>2. QED  BY <2>1, <1>1, CloseTyped
  <1>3. CASE socket_fd[k] \notin Fds
    <2>1. UNCHANGED kernelVars
      BY <1>3 DEF closeSocket
    <2>2. QED  BY <2>1, <1>1 DEF TypeOK, kernelVars
  <1>4. QED  BY <1>2, <1>3

LEMMA OutsideTyped ==
  ASSUME TypeOK,
         \/ \E p \in Peers : Send(p)
         \/ \E f \in Fds : FailSocket(f)
         \/ \E k \in Slots : Silence(k)
  PROVE  TypeOK'
  <1> USE DEF TypeOK, kernelVars, mainVars, loopVars, queueVars, slotVars, placeVars, countVars
  <1>1. ASSUME NEW p \in Peers, Send(p) PROVE TypeOK'
    <2>1. inbox' \in [Fds -> SUBSET Peers]
      BY <1>1 DEF Send
    <2>2. mainBuffer' \subseteq Peers /\ sends' \in 0 .. MaxSends
      BY <1>1, BoundAssumption DEF Send
    <2>3. QED  BY <1>1, <2>1, <2>2 DEF Send
  <1>2. ASSUME NEW f \in Fds, FailSocket(f) PROVE TypeOK'
    BY <1>2, BoundAssumption DEF FailSocket
  <1>3. ASSUME NEW k \in Slots, Silence(k) PROVE TypeOK'
    BY <1>3, BoundAssumption DEF Silence
  <1>4. QED  BY <1>1, <1>2, <1>3

LEMMA MainTyped ==
  ASSUME TypeOK, MainStep
  PROVE  TypeOK'
  <1> USE DEF TypeOK, kernelVars, mainVars, loopVars, queueVars, slotVars, placeVars, countVars
  <1>1. ASSUME NEW p \in Peers, ErasePeer(p) PROVE TypeOK'
    BY <1>1 DEF ErasePeer
  <1>2. CASE NothingToErase   BY <1>2 DEF NothingToErase
  <1>3. CASE ReceiveNothing   BY <1>3 DEF ReceiveNothing
  <1>4. ASSUME NEW p \in Peers, ReceiveFromKnown(p) PROVE TypeOK'
    BY <1>4 DEF ReceiveFromKnown, Entry, Entries
  <1>5. ASSUME NEW p \in Peers, ReceiveFromNew(p) PROVE TypeOK'
    <2>1. CASE \A f \in Fds : socket[f] # "closed"
      BY <1>5, <2>1 DEF ReceiveFromNew
    <2>2. CASE \E f \in Fds : socket[f] = "closed"
      <3>1. PICK f \in Fds : /\ socket' = [socket EXCEPT ![f] = "unconnected"]
                             /\ mainEntry' = Entry(f, p, TRUE)
                             /\ mainPc' = "connect"
        BY <1>5, <2>2 DEF ReceiveFromNew
      <3>2. Entry(f, p, TRUE) \in Entries
        BY DEF Entry, Entries
      <3>3. QED  BY <1>5, <3>1, <3>2 DEF ReceiveFromNew
    <2>3. QED  BY <2>1, <2>2
  <1>6. CASE Connect          BY <1>6 DEF Connect, Entries
  <1>7. CASE ConnectFails
    <2>1. failures' \in 0 .. MaxFailures
      BY <1>7, BoundAssumption DEF ConnectFails
    <2>2. QED  BY <1>7, <2>1 DEF ConnectFails
  <1>8. CASE Accept
    <2>1. newConnections' \in Seq(Entries) /\ turns' \in 0 .. Len(newConnections')
      BY <1>8 DEF Accept
    <2>2. con_queue' \in [Peers -> Fds \cup {None}]
      BY <1>8 DEF Accept, Entries
    <2>3. switched' \in BOOLEAN
      BY <1>8, Zenon DEF Accept, Awake
    <2>4. QED  BY <1>8, <2>1, <2>2, <2>3 DEF Accept
  <1>9. CASE AcceptRefused
    BY <1>9, CloseTyped DEF AcceptRefused
  <1>10. QED
    BY <1>1, <1>2, <1>3, <1>4, <1>5, <1>6, <1>7, <1>8, <1>9 DEF MainStep

\* The head of the queue is an entry, and may be taken off, while turns are left.
LEMMA HeadTyped ==
  ASSUME TypeOK, turns > 0
  PROVE  /\ newConnections # <<>> /\ Head(newConnections) \in Entries
         /\ Tail(newConnections) \in Seq(Entries)
         /\ Len(Tail(newConnections)) = Len(newConnections) - 1
         /\ turns - 1 \in 0 .. Len(newConnections) - 1
  BY DEF TypeOK

\* Passing over an entry and popping it both keep the types of the loop.
LEMMA SkipTyped ==
  ASSUME TypeOK, turns > 0, SkipEntry \/ PopEntry
  PROVE  /\ newConnections' \in Seq(Entries)
         /\ turns' \in 0 .. Len(newConnections')
         /\ subPc' \in {"off", "starting", "wait", "timers", "deal", "events"}
         /\ clearing' \in BOOLEAN /\ switched' \in BOOLEAN /\ sawSwitch' \in BOOLEAN
         /\ ready' \subseteq Slots /\ errored' \subseteq Slots
         /\ gaveUp' \in BOOLEAN
  <1>1. clearing' \in BOOLEAN /\ gaveUp' \in BOOLEAN
    BY Zenon DEF SkipEntry, PopEntry, TypeOK
  <1>2. CASE SkipEntry
    BY <1>1, <1>2, HeadTyped DEF SkipEntry, queueVars, TypeOK
  <1>3. CASE PopEntry
    BY <1>1, <1>3, HeadTyped DEF PopEntry, TypeOK
  <1>4. QED  BY <1>2, <1>3

LEMMA TakePlaceTyped ==
  ASSUME TypeOK, NEW k \in Slots, TakePlace(k)
  PROVE  /\ socket_fd' \in [Slots -> Fds \cup {None}]
         /\ addr' \in [Slots -> Peers \cup {None}]
         /\ \A j \in Slots : socket_fd'[j] # None => addr'[j] # None
         /\ idle' \in [Slots -> BOOLEAN]
         /\ lastEmptyPlace' \in Slots
         /\ activeConnectionsCount' \in Int
  <1>1. Head(newConnections) \in Entries
    BY HeadTyped DEF TakePlace, Dealing
  <1>2. QED  BY <1>1, Distinct DEF TakePlace, TypeOK, Entries

LEMMA SubTyped ==
  ASSUME TypeOK, SubStep
  PROVE  TypeOK'
  <1> USE DEF TypeOK, kernelVars, mainVars, loopVars, queueVars, slotVars, placeVars, countVars
  <1>1. CASE Start \/ AddSwitch  BY <1>1 DEF Start, AddSwitch
  <1>2. CASE Poll
    <2>1. PICK reported : /\ sawSwitch' = (None \in reported)
                          /\ ready' \subseteq Slots /\ errored' \subseteq Slots
      BY <1>2 DEF Poll
    <2>2. sawSwitch' \in BOOLEAN
      <3>1. CASE None \in reported
        BY <2>1, <3>1
      <3>2. CASE None \notin reported
        BY <2>1, <3>2
      <3>3. QED  BY <3>1, <3>2
    <2>3. QED  BY <1>2, <2>1, <2>2 DEF Poll
  <1>3. CASE BeginDeal   BY <1>3 DEF BeginDeal
  <1>4. ASSUME NEW k \in Slots, ClearConnection(k) PROVE TypeOK'
    <2>1. clearing' \in BOOLEAN
      BY <1>4, Zenon DEF ClearConnection
    <2>2. closeSocket(k)
      BY <1>4 DEF ClearConnection
    <2>3. QED  BY <1>4, <2>1, <2>2, CloseSocketTyped DEF ClearConnection
  <1>5. CASE RefusePeer
    <2>1. turns > 0 /\ SkipEntry /\ CloseFd(Head(newConnections).fd)
      BY <1>5 DEF RefusePeer, Dealing
    <2>2. QED  BY <1>5, <2>1, SkipTyped, CloseTyped DEF RefusePeer
  <1>6. ASSUME NEW k \in Slots, AddConnection(k) PROVE TypeOK'
    <2>1. turns > 0 /\ PopEntry /\ TakePlace(k)
      BY <1>6 DEF AddConnection, TakePlace, Dealing
    <2>2. epoll' \in [Fds -> Slots \cup {None}] /\ checks' \in [Slots -> Nat]
      <3>1. /\ epoll' = [epoll EXCEPT ![Head(newConnections).fd] = k]
            /\ checks' = [checks EXCEPT ![k] = @ + 1]
        BY <1>6 DEF AddConnection, Watch
      <3>2. epoll' \in [Fds -> Slots \cup {None}]
        <4> HIDE DEF TypeOK
        <4>1. epoll \in [Fds -> Slots \cup {None}]
          BY DEF TypeOK
        <4>2. QED  BY <3>1, <4>1
      <3>3. checks' \in [Slots -> Nat]
        <4> HIDE DEF TypeOK
        <4>1. checks \in [Slots -> Nat]
          BY DEF TypeOK
        <4>2. QED  BY <3>1, <4>1
      <3>4. QED  BY <3>2, <3>3
    <2>3. QED  BY <1>6, <2>1, <2>2, SkipTyped, TakePlaceTyped DEF AddConnection
  <1>7. ASSUME NEW k \in Slots, AddFails(k) PROVE TypeOK'
    <2>1. turns > 0 /\ SkipEntry /\ TakePlace(k) /\ CloseFd(Head(newConnections).fd)
      BY <1>7 DEF AddFails, TakePlace, Dealing
    <2>2. QED  BY <1>7, <2>1, SkipTyped, TakePlaceTyped, CloseTyped DEF AddFails
  <1>8. CASE HandOver
    <2>1. turns > 0 /\ PopEntry
      BY <1>8 DEF HandOver, Dealing
    <2>2. QED  BY <1>8, <2>1, SkipTyped DEF HandOver
  <1>9. CASE MissConnection
    <2>1. turns > 0 /\ SkipEntry
      BY <1>9 DEF MissConnection, Dealing
    <2>2. QED  BY <1>9, <2>1, SkipTyped DEF MissConnection
  <1>10. CASE EndDeal    BY <1>10 DEF EndDeal
  <1>11. ASSUME NEW k \in Slots, HandleError(k) PROVE TypeOK'
    BY <1>11, CloseSocketTyped DEF HandleError
  <1>12. ASSUME NEW k \in Slots, HandleInput(k) PROVE TypeOK'
    <2>1. inbox' \in [Fds -> SUBSET Peers]
      BY <1>12 DEF HandleInput
    <2>2. idle' \in [Slots -> BOOLEAN]
      BY <1>12 DEF HandleInput
    <2>3. QED  BY <1>12, <2>1, <2>2 DEF HandleInput
  <1>13. CASE ResetSwitch
    <2>1. sawSwitch' \in BOOLEAN /\ switched' \in BOOLEAN
      BY <1>13, Zenon DEF ResetSwitch
    <2>2. QED  BY <1>13, <2>1 DEF ResetSwitch
  <1>14. CASE EndPass    BY <1>14 DEF EndPass
  <1>15. QED
    BY <1>1, <1>2, <1>3, <1>4, <1>5, <1>6, <1>7, <1>8, <1>9, <1>10, <1>11, <1>12,
       <1>13, <1>14 DEF SubStep

LEMMA CheckTyped ==
  ASSUME TypeOK, NEW k \in Slots, checkDeleteSocket(k)
  PROVE  TypeOK'
  <1> USE DEF TypeOK, kernelVars, mainVars, loopVars, queueVars, slotVars, placeVars, countVars
  <1>1. checks' \in [Slots -> Nat]
    BY DEF checkDeleteSocket
  <1>2. CASE socket_fd[k] = None
    BY <1>1, <1>2 DEF checkDeleteSocket
  <1>3. CASE socket_fd[k] # None
    <2>1. closeSocket(k)
      BY <1>3 DEF checkDeleteSocket
    <2>2. QED  BY <1>1, <1>3, <2>1, CloseSocketTyped DEF checkDeleteSocket
  <1>4. QED  BY <1>2, <1>3

LEMMA StepTyped == TypeOK /\ [Next]_vars => TypeOK'
  <1> SUFFICES ASSUME TypeOK, [Next]_vars PROVE TypeOK'
    OBVIOUS
  <1>1. CASE UNCHANGED vars
    BY <1>1 DEF vars, TypeOK, kernelVars, mainVars, loopVars, queueVars, slotVars,
         placeVars, countVars
  <1>2. CASE Next
    BY <1>2, OutsideTyped, MainTyped, SubTyped, CheckTyped DEF Next
  <1>3. QED  BY <1>1, <1>2

\* Every variable keeps its type: descriptors, slots and timers are what the two
\* reactors take them for.
THEOREM TableTyped == Spec => []TypeOK
  BY InitTyped, StepTyped, PTL DEF Spec
--------------------------------------------------------------------------------
\* What the steps do to descriptors and slots, for the invariants below.

\* Steps of the kernel, of the peers and of the main reactor leave the slots, the
\* timers and the epoll set alone, but for the descriptors they close.
LEMMA ForeignSteps ==
  ASSUME TypeOK,
         \/ \E p \in Peers : Send(p)
         \/ \E f \in Fds : FailSocket(f)
         \/ \E k \in Slots : Silence(k)
         \/ MainStep
  PROVE  /\ UNCHANGED <<socket_fd, addr, checks, activeConnectionsCount, gaveUp>>
         /\ \A f \in Fds : epoll'[f] = epoll[f] \/ epoll'[f] = None
  <1> USE DEF kernelVars, slotVars, placeVars, loopVars, queueVars, mainVars, countVars
  <1>1. ASSUME NEW p \in Peers, Send(p) PROVE UNCHANGED <<epoll, slotVars, placeVars, gaveUp>>
    BY <1>1 DEF Send
  <1>2. ASSUME NEW f \in Fds, FailSocket(f) PROVE UNCHANGED <<epoll, slotVars, placeVars, gaveUp>>
    BY <1>2 DEF FailSocket
  <1>3. ASSUME NEW k \in Slots, Silence(k)
        PROVE  UNCHANGED <<epoll, socket_fd, addr, checks, placeVars, gaveUp>>
    BY <1>3 DEF Silence
  <1>4. CASE AcceptRefused
    <2>1. UNCHANGED <<slotVars, placeVars, gaveUp>>
      BY <1>4 DEF AcceptRefused
    <2>2. \A f \in Fds : epoll'[f] = epoll[f] \/ epoll'[f] = None
      BY <1>4 DEF AcceptRefused, CloseFd, TypeOK
    <2>3. QED  BY <2>1, <2>2
  <1>5. ASSUME MainStep, ~AcceptRefused PROVE UNCHANGED <<epoll, slotVars, placeVars, gaveUp>>
    BY <1>5 DEF MainStep, ErasePeer, NothingToErase, ReceiveNothing, ReceiveFromKnown,
         ReceiveFromNew, Connect, ConnectFails, Accept
  <1>6. QED  BY <1>1, <1>2, <1>3, <1>4, <1>5

\* closeSocket takes the slot's descriptor, and no other, out of the epoll set.
LEMMA CloseSocketForgets ==
  ASSUME TypeOK, NEW k \in Slots, closeSocket(k)
  PROVE  \A f \in Fds : epoll'[f] = IF f = socket_fd[k] THEN None ELSE epoll[f]
  <1>1. CASE socket_fd[k] \in Fds
    BY <1>1 DEF closeSocket, CloseFd, TypeOK
  <1>2. CASE socket_fd[k] \notin Fds
    BY <1>2 DEF closeSocket, kernelVars
  <1>3. QED  BY <1>1, <1>2

\* epoll's entries and the slots and timers they rely on.
WatchInv == EpollFollowsSlot /\ ConnectionsAreWatched

LEMMA InitWatched == Init => WatchInv
  <1>1. Init => \A f \in Fds : epoll[f] = None
    BY DEF Init
  <1>2. QED
    BY <1>1, Distinct DEF WatchInv, EpollFollowsSlot, ConnectionsAreWatched

LEMMA WatchKept ==
  ASSUME TypeOK, WatchInv, [Next]_vars
  PROVE  WatchInv'
  <1> USE DEF WatchInv, EpollFollowsSlot, ConnectionsAreWatched
  <1> USE Distinct
  <1>0. /\ socket_fd \in [Slots -> Fds \cup {None}]
        /\ epoll \in [Fds -> Slots \cup {None}]
        /\ checks \in [Slots -> Nat]
    BY DEF TypeOK
  <1>1. CASE UNCHANGED vars
    BY <1>1 DEF vars, kernelVars, slotVars
  <1>2. CASE \/ \E p \in Peers : Send(p)
             \/ \E f \in Fds : FailSocket(f)
             \/ \E k \in Slots : Silence(k)
             \/ MainStep
    BY <1>2, ForeignSteps
  <1>3. ASSUME NEW k \in Slots, checkDeleteSocket(k) PROVE WatchInv'
    <2>1. CASE socket_fd[k] = None
      <3>1. \A f \in Fds : epoll[f] # k
        BY <2>1
      <3>2. UNCHANGED <<epoll, socket_fd>> /\ checks' = [checks EXCEPT ![k] = @ - 1]
        BY <1>3, <2>1 DEF checkDeleteSocket, kernelVars
      <3>3. QED  BY <1>0, <3>1, <3>2
    <2>2. CASE socket_fd[k] # None
      <3>1. closeSocket(k) /\ socket_fd' = [socket_fd EXCEPT ![k] = None]
            /\ checks' = [checks EXCEPT ![k] = @ - 1]
        BY <1>3, <2>2 DEF checkDeleteSocket
      <3>2. \A f \in Fds : epoll'[f] = IF f = socket_fd[k] THEN None ELSE epoll[f]
        BY <3>1, CloseSocketForgets
      <3>3. QED  BY <1>0, <3>1, <3>2
    <2>3. QED  BY <1>0, <2>1, <2>2
  <1>4. ASSUME NEW k \in Slots, ClearConnection(k) PROVE WatchInv'
    <2>1. closeSocket(k) /\ socket_fd' = [socket_fd EXCEPT ![k] = None] /\ UNCHANGED checks
      BY <1>4 DEF ClearConnection
    <2>2. \A f \in Fds : epoll'[f] = IF f = socket_fd[k] THEN None ELSE epoll[f]
      BY <2>1, CloseSocketForgets
    <2>3. QED  BY <1>0, <2>1, <2>2
  <1>5. ASSUME NEW k \in Slots, HandleError(k) PROVE WatchInv'
    <2>1. closeSocket(k) /\ UNCHANGED <<socket_fd, checks>>
      BY <1>5 DEF HandleError, slotVars
    <2>2. \A f \in Fds : epoll'[f] = IF f = socket_fd[k] THEN None ELSE epoll[f]
      BY <2>1, CloseSocketForgets
    <2>3. QED  BY <1>0, <2>1, <2>2
  <1>6. ASSUME NEW k \in Slots, AddConnection(k) PROVE WatchInv'
    <2> DEFINE f == Head(newConnections).fd
    <2>1. f \in Fds
      BY <1>6, HeadTyped DEF AddConnection, TakePlace, Dealing, Entries
    <2>2. /\ socket_fd[k] = None
          /\ socket_fd' = [socket_fd EXCEPT ![k] = f]
          /\ epoll' = [epoll EXCEPT ![f] = k]
          /\ checks' = [checks EXCEPT ![k] = @ + 1]
      BY <1>6 DEF AddConnection, TakePlace, IsEmptyPlace, Watch
    <2>3. \A g \in Fds : epoll[g] # k
      BY <2>2
    <2>4. QED  BY <2>1, <2>2, <2>3, <1>0
  <1>7. ASSUME NEW k \in Slots, AddFails(k) PROVE WatchInv'
    <2> DEFINE f == Head(newConnections).fd
    <2>1. f \in Fds
      BY <1>7, HeadTyped DEF AddFails, TakePlace, Dealing, Entries
    <2>2. /\ socket_fd[k] = None
          /\ socket_fd' = [socket_fd EXCEPT ![k] = f]
          /\ epoll' = [epoll EXCEPT ![f] = None]
          /\ UNCHANGED checks
      BY <1>7 DEF AddFails, TakePlace, IsEmptyPlace, CloseFd
    <2>3. \A g \in Fds : epoll[g] # k
      BY <2>2
    <2>4. QED  BY <1>0, <2>1, <2>2, <2>3
  <1>8. CASE RefusePeer
    <2>1. UNCHANGED <<socket_fd, checks>>
      BY <1>8 DEF RefusePeer, slotVars
    <2>2. \A f \in Fds : epoll'[f] = epoll[f] \/ epoll'[f] = None
      BY <1>8 DEF RefusePeer, CloseFd, TypeOK
    <2>3. QED  BY <1>0, <2>1, <2>2
  <1>9. CASE Start \/ AddSwitch \/ Poll \/ BeginDeal \/ HandOver \/ MissConnection \/ EndDeal
             \/ (\E k \in Slots : HandleInput(k)) \/ ResetSwitch \/ EndPass
    <2>1. UNCHANGED <<epoll, socket_fd, checks>>
      BY <1>9 DEF Start, AddSwitch, Poll, BeginDeal, HandOver, MissConnection, EndDeal, HandleInput,
           ResetSwitch, EndPass, kernelVars, slotVars
    <2>2. QED  BY <2>1
  <1>10. QED
    BY <1>1, <1>2, <1>3, <1>4, <1>5, <1>6, <1>7, <1>8, <1>9 DEF Next, SubStep

\* Events that epoll reports for a slot are those of the slot's descriptor.
THEOREM EventsFollowSlots == Spec => []EpollFollowsSlot
  <1>1. Init => WatchInv
    BY InitWatched
  <1>2. WatchInv => EpollFollowsSlot
    BY DEF WatchInv
  <1>3. QED  BY <1>1, <1>2, WatchKept, TableTyped, PTL DEF Spec

\* A connection that epoll watches has a timer that will look whether it is silent.
THEOREM WatchedConnections == Spec => []ConnectionsAreWatched
  <1>1. Init => WatchInv
    BY InitWatched
  <1>2. WatchInv => ConnectionsAreWatched
    BY DEF WatchInv
  <1>3. QED  BY <1>1, <1>2, WatchKept, TableTyped, PTL DEF Spec
--------------------------------------------------------------------------------
\* What con_queue and the descriptors rely on: entries of the queue.

\* Handing an entry over keeps the others in the queue and adds it.
LEMMA AcceptQueues ==
  ASSUME TypeOK, Accept
  PROVE  /\ \A f \in Fds, p \in Peers : Queued(f, p) => Queued(f, p)'
         /\ \A f \in Fds, p \in Peers :
              mainEntry.is_new /\ f = mainEntry.fd /\ p = mainEntry.peer => Queued(f, p)'
  <1> DEFINE n == Len(newConnections)
  <1>1. newConnections \in Seq(Entries) /\ mainEntry \in Entries
    BY DEF TypeOK, Accept
  <1>2. newConnections' = Append(newConnections, mainEntry)
    BY DEF Accept
  <1>3. /\ n \in Nat /\ Len(newConnections') = n + 1
        /\ \A j \in 1 .. n : newConnections'[j] = newConnections[j]
        /\ newConnections'[n + 1] = mainEntry
    BY <1>1, <1>2
  <1>4. \A f \in Fds, p \in Peers : Queued(f, p) => Queued(f, p)'
    BY <1>3 DEF Queued, Entry
  <1>5. \A f \in Fds, p \in Peers :
          mainEntry.is_new /\ f = mainEntry.fd /\ p = mainEntry.peer
            => mainEntry = Entry(f, p, TRUE)
    BY <1>1 DEF Entries, Entry
  <1>6. n + 1 \in 1 .. Len(newConnections')
    BY <1>3
  <1>7. \A f \in Fds, p \in Peers : mainEntry = Entry(f, p, TRUE) => Queued(f, p)'
    BY <1>3, <1>6 DEF Queued, Entry
  <1>8. QED  BY <1>4, <1>5, <1>7

\* Popping an entry loses no other one.
LEMMA PopQueues ==
  ASSUME TypeOK, turns > 0, PopEntry,
         NEW f \in Fds, NEW p \in Peers, Queued(f, p)
  PROVE  Queued(f, p)' \/ Head(newConnections) = Entry(f, p, TRUE)
  <1>1. newConnections \in Seq(Entries) /\ newConnections # <<>>
    BY HeadTyped DEF TypeOK
  <1>2. newConnections' = Tail(newConnections)
    BY DEF PopEntry
  <1>3. PICK j \in 1 .. Len(newConnections) : newConnections[j] = Entry(f, p, TRUE)
    BY DEF Queued
  <1>4. CASE j = 1
    <2>1. Head(newConnections) = newConnections[1]
      BY <1>1
    <2>2. QED  BY <1>3, <1>4, <2>1
  <1>5. CASE j # 1
    <2>1. j - 1 \in 1 .. Len(newConnections') /\ newConnections'[j - 1] = newConnections[j]
      BY <1>1, <1>2, <1>5
    <2>2. QED  BY <1>3, <2>1 DEF Queued, Entry
  <1>6. QED  BY <1>4, <1>5

\* What is given up, or failed, stays so.
LEMMA CleanBefore ==
  ASSUME TypeOK, Next
  PROVE  (Clean' => Clean) /\ (failures' = 0 => failures = 0)
  <1> USE DEF countVars, PopEntry, SkipEntry
  <1>1. errors \in Nat /\ failures \in Nat
    BY BoundAssumption DEF TypeOK
  <1>2. CASE \/ \E p \in Peers : Send(p)
             \/ \E f \in Fds : FailSocket(f)
             \/ \E k \in Slots : Silence(k)
    <2>1. errors' >= errors /\ failures' >= failures
      BY <1>1, <1>2 DEF Send, FailSocket, Silence
    <2>2. gaveUp => gaveUp'
      BY <1>2, Zenon DEF Send, FailSocket, Silence
    <2>3. QED  BY <1>1, <2>1, <2>2 DEF Clean
  <1>3. CASE MainStep
    <2>1. errors' >= errors /\ failures' >= failures
      <3>1. CASE ConnectFails
        BY <1>1, <3>1 DEF ConnectFails
      <3>2. CASE ~ConnectFails
        <4>1. errors' = errors /\ failures' = failures
          BY <1>3, <3>2 DEF MainStep, ErasePeer, NothingToErase, ReceiveNothing,
               ReceiveFromKnown, ReceiveFromNew, Connect, Accept, AcceptRefused
        <4>2. QED  BY <1>1, <4>1
      <3>3. QED  BY <3>1, <3>2
    <2>2. gaveUp => gaveUp'
      BY <1>3, Zenon DEF MainStep, ErasePeer, NothingToErase, ReceiveNothing,
           ReceiveFromKnown, ReceiveFromNew, Connect, ConnectFails, Accept, AcceptRefused
    <2>3. QED  BY <1>1, <2>1, <2>2 DEF Clean
  <1>4. CASE SubStep \/ \E k \in Slots : checkDeleteSocket(k)
    <2>1. errors' = errors /\ failures' = failures
      BY <1>4 DEF SubStep, Start, AddSwitch, Poll, BeginDeal, ClearConnection, RefusePeer,
           AddConnection, AddFails, HandOver, MissConnection, EndDeal, HandleError,
           HandleInput, ResetSwitch, EndPass, checkDeleteSocket
    <2>2. gaveUp => gaveUp'
      BY <1>4, Zenon DEF SubStep, Start, AddSwitch, Poll, BeginDeal, ClearConnection, RefusePeer,
           AddConnection, AddFails, HandOver, MissConnection, EndDeal, HandleError,
           HandleInput, ResetSwitch, EndPass, checkDeleteSocket
    <2>3. QED  BY <2>1, <2>2 DEF Clean
  <1>5. QED  BY <1>2, <1>3, <1>4 DEF Next

\* Peer p, which con_queue sends to descriptor f, has a slot with it or waits for
\* one.
Served(f, p) == (\E k \in Slots : socket_fd[k] = f /\ addr[k] = p) \/ Queued(f, p)

LEMMA KnownKept ==
  ASSUME TypeOK, KnownPeersAreConnected, [Next]_vars
  PROVE  KnownPeersAreConnected'
  <1> USE DEF kernelVars, slotVars, mainVars, loopVars, queueVars, placeVars, countVars
  <1>0. /\ socket_fd \in [Slots -> Fds \cup {None}] /\ addr \in [Slots -> Peers \cup {None}]
        /\ con_queue \in [Peers -> Fds \cup {None}] /\ erasures \in [Peers -> Nat]
    BY DEF TypeOK
  <1>1. CASE UNCHANGED vars
    BY <1>1 DEF vars, KnownPeersAreConnected, Clean, Queued
  <1> SUFFICES ASSUME Next, Clean', NEW p \in Peers, NEW f \in Fds,
                      con_queue'[p] = f, erasures'[p] = 0
               PROVE  Served(f, p)'
    BY <1>1 DEF KnownPeersAreConnected, Served
  <1>2. con_queue[p] = f /\ erasures[p] = 0 => Served(f, p)
    BY CleanBefore DEF KnownPeersAreConnected, Served
  <1>3. ASSUME UNCHANGED <<con_queue, erasures, socket_fd, addr, newConnections>>
        PROVE  Served(f, p)'
    BY <1>2, <1>3 DEF Served, Queued
  <1>4. CASE \/ \E q \in Peers : Send(q)
             \/ \E g \in Fds : FailSocket(g)
             \/ \E k \in Slots : Silence(k)
    BY <1>3, <1>4 DEF Send, FailSocket, Silence
  <1>5. ASSUME NEW q \in Peers, ErasePeer(q) PROVE Served(f, p)'
    <2>1. p # q
      BY <1>0, <1>5, Distinct DEF ErasePeer
    <2>2. con_queue[p] = f /\ erasures[p] = 0 /\ UNCHANGED <<socket_fd, addr, newConnections>>
      BY <1>0, <1>5, <2>1 DEF ErasePeer
    <2>3. QED  BY <1>2, <2>2 DEF Served, Queued
  <1>6. CASE Accept
    <2>1. CASE con_queue[p] = f
      <3>1. UNCHANGED <<erasures, socket_fd, addr>>
        BY <1>6 DEF Accept
      <3>2. QED  BY <1>2, <1>6, <2>1, <3>1, AcceptQueues DEF Served
    <2>2. CASE con_queue[p] # f
      <3>1. mainEntry.is_new /\ p = mainEntry.peer /\ f = mainEntry.fd
        BY <1>0, <1>6, <2>2 DEF Accept
      <3>2. QED  BY <1>6, <3>1, AcceptQueues DEF Served
    <2>3. QED  BY <2>1, <2>2
  <1>7. ASSUME MainStep, ~Accept, \A q \in Peers : ~ErasePeer(q) PROVE Served(f, p)'
    <2>1. UNCHANGED <<con_queue, erasures, socket_fd, addr, newConnections>>
      BY <1>7 DEF MainStep, NothingToErase, ReceiveNothing, ReceiveFromKnown,
           ReceiveFromNew, Connect, ConnectFails, AcceptRefused
    <2>2. QED  BY <1>3, <2>1
  <1>8. ASSUME NEW k \in Slots, closeSocket(k), UNCHANGED <<con_queue, addr, newConnections>>,
               socket_fd' = [socket_fd EXCEPT ![k] = None]
        PROVE  Served(f, p)'
    <2>1. erasures' = [erasures EXCEPT ![addr[k]] = @ + 1]
      BY <1>8 DEF closeSocket
    <2>2. addr[k] # p
      BY <1>0, <2>1
    <2>3. con_queue[p] = f /\ erasures[p] = 0
      BY <1>0, <1>8, <2>1, <2>2
    <2>4. QED  BY <1>0, <1>2, <1>8, <2>2, <2>3 DEF Served, Queued
  <1>9. ASSUME NEW k \in Slots, checkDeleteSocket(k) PROVE Served(f, p)'
    <2>1. CASE socket_fd[k] = None
      BY <1>3, <1>9, <2>1 DEF checkDeleteSocket
    <2>2. CASE socket_fd[k] # None
      BY <1>8, <1>9, <2>2 DEF checkDeleteSocket
    <2>3. QED  BY <2>1, <2>2
  <1>10. ASSUME NEW k \in Slots, ClearConnection(k) PROVE Served(f, p)'
    BY <1>8, <1>10 DEF ClearConnection
  <1>11. ASSUME NEW k \in Slots, HandleError(k) PROVE Served(f, p)'
    <2>1. erasures' = [erasures EXCEPT ![addr[k]] = @ + 1] /\ UNCHANGED <<con_queue, addr, newConnections, socket_fd>>
      BY <1>11 DEF closeSocket, HandleError
    <2>2. erasures[p] = 0
      <3>1. CASE addr[k] = p   BY <1>0, <2>1, <3>1
      <3>2. CASE addr[k] # p   BY <1>0, <2>1, <3>2
      <3>3. QED  BY <3>1, <3>2
    <2>3. QED  BY <1>2, <2>1, <2>2 DEF Served, Queued
  <1>12. ASSUME NEW k \in Slots, AddConnection(k) PROVE Served(f, p)'
    <2> DEFINE e == Head(newConnections)
    <2>1. /\ turns > 0 /\ PopEntry /\ UNCHANGED <<con_queue, erasures>>
          /\ socket_fd[k] = None
          /\ socket_fd' = [socket_fd EXCEPT ![k] = e.fd]
          /\ addr' = [addr EXCEPT ![k] = e.peer]
      BY <1>12 DEF AddConnection, TakePlace, Dealing, IsEmptyPlace
    <2>2. Served(f, p)
      BY <1>2, <2>1
    <2>3. CASE \E j \in Slots : socket_fd[j] = f /\ addr[j] = p
      BY <1>0, <2>1, <2>3, Distinct DEF Served
    <2>4. CASE Queued(f, p)
      <3>1. CASE Queued(f, p)'   BY <3>1 DEF Served
      <3>2. CASE e = Entry(f, p, TRUE)
        BY <1>0, <2>1, <3>2 DEF Served, Entry
      <3>3. QED  BY <2>1, <2>4, <3>1, <3>2, PopQueues
    <2>5. QED  BY <2>2, <2>3, <2>4 DEF Served
  <1>13. CASE HandOver
    <2>1. turns > 0 /\ PopEntry /\ ~Head(newConnections).is_new
      BY <1>13 DEF HandOver, Dealing
    <2>2. UNCHANGED <<con_queue, erasures, socket_fd, addr>>
      BY <1>13 DEF HandOver
    <2>3. Head(newConnections) # Entry(f, p, TRUE)
      BY <2>1 DEF Entry
    <2>4. QED  BY <1>2, <2>1, <2>2, <2>3, PopQueues DEF Served
  <1>14. CASE RefusePeer \/ (\E k \in Slots : AddFails(k)) \/ MissConnection
    BY <1>14, Zenon DEF RefusePeer, AddFails, MissConnection, SkipEntry, Clean
  <1>15. CASE Start \/ AddSwitch \/ Poll \/ BeginDeal \/ EndDeal \/ (\E k \in Slots : HandleInput(k))
              \/ ResetSwitch \/ EndPass
    BY <1>3, <1>15 DEF Start, AddSwitch, Poll, BeginDeal, EndDeal, HandleInput, ResetSwitch, EndPass
  <1>16. QED
    BY <1>4, <1>5, <1>6, <1>7, <1>9, <1>10, <1>11, <1>12, <1>13, <1>14, <1>15
       DEF Next, SubStep

\* While no entry is given up, the main reactor sends no peer's datagrams to a
\* descriptor that is not the peer's connection.
THEOREM KnownPeers == Spec => []KnownPeersAreConnected
  <1>1. Init => KnownPeersAreConnected
    <2>1. Init => \A p \in Peers : con_queue[p] = None
      BY DEF Init
    <2>2. QED  BY <2>1, Distinct DEF KnownPeersAreConnected
  <1>2. QED  BY <1>1, KnownKept, TableTyped, PTL DEF Spec
--------------------------------------------------------------------------------
\* Descriptor f is the one of a slot, or on its way to one.
Kept(f) ==
  \/ \E k \in Slots : socket_fd[k] = f
  \/ InHand(f)
  \/ \E p \in Peers : Queued(f, p)

StrayInv == NoStraySockets /\ ConnectHolds

\* Closing a descriptor opens none.
LEMMA CloseOpensNone ==
  ASSUME TypeOK, NEW g, CloseFd(g)
  PROVE  \A f \in Fds : /\ socket'[f] # "closed" => socket[f] # "closed" /\ f # g
                        /\ socket'[f] \in Peers => socket[f] \in Peers
  BY TableAssumption DEF CloseFd, TypeOK

LEMMA CloseSocketOpensNone ==
  ASSUME TypeOK, NEW k \in Slots, closeSocket(k)
  PROVE  \A f \in Fds :
           /\ socket'[f] # "closed" => socket[f] # "closed" /\ f # socket_fd[k]
           /\ socket'[f] \in Peers => socket[f] \in Peers
  <1>1. CASE socket_fd[k] \in Fds
    BY <1>1, CloseOpensNone DEF closeSocket
  <1>2. CASE socket_fd[k] \notin Fds
    BY <1>2 DEF closeSocket, kernelVars
  <1>3. QED  BY <1>1, <1>2

LEMMA ConnectKept ==
  ASSUME TypeOK, ConnectHolds, Next
  PROVE  ConnectHolds'
  <1> USE DEF kernelVars, slotVars, mainVars, loopVars, queueVars, placeVars, countVars
  <1>1. CASE MainStep
    <2>1. ASSUME NEW p \in Peers, ReceiveFromNew(p) PROVE ConnectHolds'
      <3>1. CASE mainPc' = "connect"
        <4>1. PICK f \in Fds : /\ socket' = [socket EXCEPT ![f] = "unconnected"]
                               /\ mainEntry' = Entry(f, p, TRUE)
          BY <2>1, <3>1 DEF ReceiveFromNew
        <4>2. socket'[f] = "unconnected"
          BY <4>1 DEF TypeOK
        <4>3. mainEntry'.is_new /\ mainEntry'.fd = f
          BY <4>1 DEF Entry
        <4>4. QED  BY <4>2, <4>3, TableAssumption DEF ConnectHolds
      <3>2. CASE mainPc' # "connect"
        BY <3>2 DEF ConnectHolds
      <3>3. QED  BY <3>1, <3>2
    <2>2. ASSUME \A p \in Peers : ~ReceiveFromNew(p) PROVE mainPc' # "connect"
      BY <1>1, <2>2 DEF MainStep, ErasePeer, NothingToErase, ReceiveNothing,
           ReceiveFromKnown, Connect, ConnectFails, Accept, AcceptRefused
    <2>3. QED  BY <2>1, <2>2 DEF ConnectHolds
  <1>2. ASSUME UNCHANGED <<mainPc, mainEntry>>,
               \A f \in Fds : socket'[f] \in Peers => socket[f] \in Peers
        PROVE  ConnectHolds'
    BY <1>2 DEF ConnectHolds, TypeOK, Entries
  <1>3. CASE \/ \E p \in Peers : Send(p)
             \/ \E f \in Fds : FailSocket(f)
             \/ \E k \in Slots : Silence(k)
    BY <1>2, <1>3 DEF Send, FailSocket, Silence
  <1>4. ASSUME NEW k \in Slots, checkDeleteSocket(k) \/ ClearConnection(k) \/ HandleError(k)
        PROVE  ConnectHolds'
    <2>1. UNCHANGED <<mainPc, mainEntry>> /\ (closeSocket(k) \/ UNCHANGED socket)
      BY <1>4 DEF checkDeleteSocket, ClearConnection, HandleError
    <2>2. QED  BY <1>2, <2>1, CloseSocketOpensNone
  <1>5. CASE RefusePeer \/ \E k \in Slots : AddFails(k)
    <2>1. UNCHANGED <<mainPc, mainEntry>> /\ CloseFd(Head(newConnections).fd)
      BY <1>5 DEF RefusePeer, AddFails
    <2>2. QED  BY <1>2, <2>1, CloseOpensNone
  <1>6. CASE Start \/ AddSwitch \/ Poll \/ BeginDeal \/ (\E k \in Slots : AddConnection(k)) \/ HandOver
             \/ MissConnection \/ EndDeal \/ (\E k \in Slots : HandleInput(k))
             \/ ResetSwitch \/ EndPass
    <2>1. UNCHANGED <<mainPc, mainEntry, socket>>
      BY <1>6 DEF Start, AddSwitch, Poll, BeginDeal, AddConnection, HandOver, MissConnection, EndDeal,
           HandleInput, ResetSwitch, EndPass
    <2>2. QED  BY <1>2, <2>1
  <1>7. QED  BY <1>1, <1>3, <1>4, <1>5, <1>6 DEF Next, SubStep

LEMMA StrayKept ==
  ASSUME TypeOK, StrayInv, Next
  PROVE  NoStraySockets'
  <1> USE DEF kernelVars, slotVars, mainVars, loopVars, queueVars, placeVars, countVars
  <1>0. /\ socket_fd \in [Slots -> Fds \cup {None}]
        /\ socket \in [Fds -> Peers \cup {"closed", "unconnected"}]
    BY DEF TypeOK
  <1> SUFFICES ASSUME Clean', failures' = 0, NEW f \in Fds, socket'[f] # "closed"
               PROVE  Kept(f)'
    BY DEF NoStraySockets, Kept
  <1>1. socket[f] # "closed" => Kept(f)
    BY CleanBefore DEF StrayInv, NoStraySockets, Kept
  <1>2. ASSUME socket[f] # "closed",
               UNCHANGED <<socket_fd, mainPc, mainEntry, newConnections>>
        PROVE  Kept(f)'
    BY <1>1, <1>2 DEF Kept, InHand, Queued
  <1>3. CASE \/ \E p \in Peers : Send(p)
             \/ \E g \in Fds : FailSocket(g)
             \/ \E k \in Slots : Silence(k)
    BY <1>2, <1>3 DEF Send, FailSocket, Silence
  <1>4. CASE (\E p \in Peers : ErasePeer(p) \/ ReceiveFromKnown(p)) \/ NothingToErase
             \/ ReceiveNothing
    <2>1. UNCHANGED <<socket, socket_fd, newConnections>> /\ ~InHand(f)
      BY <1>4 DEF ErasePeer, ReceiveFromKnown, NothingToErase, ReceiveNothing, InHand
    <2>2. QED  BY <1>1, <2>1 DEF Kept, Queued
  <1>5. ASSUME NEW p \in Peers, ReceiveFromNew(p) PROVE Kept(f)'
    <2>1. UNCHANGED <<socket_fd, newConnections>> /\ ~InHand(f)
      BY <1>5 DEF ReceiveFromNew, InHand
    <2>2. CASE socket[f] # "closed"
      BY <1>1, <2>1, <2>2 DEF Kept, Queued
    <2>3. CASE socket[f] = "closed"
      <3>1. PICK g \in Fds : /\ socket' = [socket EXCEPT ![g] = "unconnected"]
                             /\ mainEntry' = Entry(g, p, TRUE)
                             /\ mainPc' = "connect"
        BY <1>5, <2>3 DEF ReceiveFromNew
      <3>2. f = g
        BY <1>0, <2>3, <3>1
      <3>3. QED  BY <3>1, <3>2 DEF Kept, InHand, Entry
    <2>4. QED  BY <2>2, <2>3
  <1>6. CASE Connect
    <2>1. socket[f] # "closed"
      BY <1>0, <1>6 DEF Connect
    <2>2. /\ UNCHANGED <<socket_fd, newConnections, mainEntry>>
          /\ mainPc = "connect" /\ mainPc' = "accept"
      BY <1>6 DEF Connect
    <2>3. QED  BY <1>1, <2>1, <2>2 DEF Kept, InHand, Queued
  <1>7. CASE ConnectFails
    <2>1. UNCHANGED <<socket, socket_fd, newConnections>>
      BY <1>7 DEF ConnectFails
    <2>2. socket[mainEntry.fd] = "closed"
      <3>1. failures \in Nat /\ mainEntry.fd \in Fds
        BY <1>7, BoundAssumption DEF TypeOK, ConnectFails, Entries
      <3>2. socket[mainEntry.fd] # "unconnected"
        BY <1>7, <3>1 DEF ConnectFails
      <3>3. socket[mainEntry.fd] \notin Peers
        BY <1>7 DEF ConnectFails, StrayInv, ConnectHolds
      <3>4. QED  BY <1>0, <3>1, <3>2, <3>3
    <2>3. ~InHand(f)
      BY <2>1, <2>2 DEF InHand
    <2>4. QED  BY <1>1, <2>1, <2>3 DEF Kept, Queued
  <1>8. CASE Accept
    <2>1. UNCHANGED <<socket, socket_fd>>
      BY <1>8 DEF Accept
    <2>2. InHand(f) => \E p \in Peers : Queued(f, p)'
      BY <1>8, AcceptQueues DEF InHand, Accept, TypeOK, Entries
    <2>3. \A p \in Peers : Queued(f, p) => Queued(f, p)'
      BY <1>8, AcceptQueues
    <2>4. QED  BY <1>1, <2>1, <2>2, <2>3 DEF Kept
  <1>9. CASE AcceptRefused
    <2>1. UNCHANGED <<socket_fd, newConnections>>
      BY <1>9 DEF AcceptRefused
    <2>2. socket[f] # "closed" /\ ~InHand(f)
      <3>1. CASE mainEntry.is_new
        <4>1. CloseFd(mainEntry.fd)
          BY <1>9, <3>1 DEF AcceptRefused
        <4>2. QED  BY <4>1, CloseOpensNone DEF InHand
      <3>2. CASE ~mainEntry.is_new
        BY <1>9, <3>2 DEF AcceptRefused, InHand
      <3>3. QED  BY <3>1, <3>2
    <2>3. QED  BY <1>1, <2>1, <2>2 DEF Kept, Queued
  <1>10. ASSUME NEW k \in Slots, closeSocket(k),
                UNCHANGED <<mainPc, mainEntry, newConnections>>,
                socket_fd' = [socket_fd EXCEPT ![k] = None]
         PROVE  Kept(f)'
    <2>1. socket[f] # "closed" /\ f # socket_fd[k]
      BY <1>10, CloseSocketOpensNone
    <2>2. CASE \E j \in Slots : socket_fd[j] = f
      BY <1>0, <1>10, <2>1, <2>2 DEF Kept
    <2>3. CASE InHand(f) \/ \E p \in Peers : Queued(f, p)
      BY <1>10, <2>3 DEF Kept, InHand, Queued
    <2>4. QED  BY <1>1, <2>1, <2>2, <2>3 DEF Kept
  <1>11. ASSUME NEW k \in Slots, checkDeleteSocket(k) PROVE Kept(f)'
    <2>1. CASE socket_fd[k] = None
      BY <1>2, <1>11, <2>1 DEF checkDeleteSocket
    <2>2. CASE socket_fd[k] # None
      BY <1>10, <1>11, <2>2 DEF checkDeleteSocket
    <2>3. QED  BY <2>1, <2>2
  <1>12. ASSUME NEW k \in Slots, ClearConnection(k) PROVE Kept(f)'
    BY <1>10, <1>12 DEF ClearConnection
  <1>13. ASSUME NEW k \in Slots, HandleError(k) PROVE Kept(f)'
    <2>1. UNCHANGED <<socket_fd, mainPc, mainEntry, newConnections>> /\ closeSocket(k)
      BY <1>13 DEF HandleError
    <2>2. QED  BY <1>2, <2>1, CloseSocketOpensNone
  <1>14. ASSUME NEW k \in Slots, AddConnection(k) PROVE Kept(f)'
    <2> DEFINE e == Head(newConnections)
    <2>1. /\ turns > 0 /\ PopEntry /\ UNCHANGED <<socket, mainPc, mainEntry>>
          /\ socket_fd[k] = None
          /\ socket_fd' = [socket_fd EXCEPT ![k] = e.fd]
      BY <1>14 DEF AddConnection, TakePlace, Dealing, IsEmptyPlace
    <2>2. Kept(f)
      BY <1>1, <2>1
    <2>3. CASE \E j \in Slots : socket_fd[j] = f
      BY <1>0, <2>1, <2>3, Distinct DEF Kept
    <2>4. CASE InHand(f)
      BY <2>1, <2>4 DEF Kept, InHand
    <2>5. ASSUME NEW p \in Peers, Queued(f, p) PROVE Kept(f)'
      <3>1. CASE Queued(f, p)'   BY <3>1 DEF Kept
      <3>2. CASE e = Entry(f, p, TRUE)
        BY <1>0, <2>1, <3>2 DEF Kept, Entry
      <3>3. QED  BY <2>1, <2>5, <3>1, <3>2, PopQueues
    <2>6. QED  BY <2>2, <2>3, <2>4, <2>5 DEF Kept
  <1>15. CASE HandOver
    <2>1. turns > 0 /\ PopEntry /\ ~Head(newConnections).is_new
      BY <1>15 DEF HandOver, Dealing
    <2>2. UNCHANGED <<socket, socket_fd, mainPc, mainEntry>>
      BY <1>15 DEF HandOver
    <2>3. \A p \in Peers : Queued(f, p) => Queued(f, p)'
      BY <2>1, PopQueues DEF Entry
    <2>4. QED  BY <1>1, <2>2, <2>3 DEF Kept, InHand
  <1>16. CASE RefusePeer \/ (\E k \in Slots : AddFails(k)) \/ MissConnection
    BY <1>16, Zenon DEF RefusePeer, AddFails, MissConnection, SkipEntry, Clean
  <1>17. CASE Start \/ AddSwitch \/ Poll \/ BeginDeal \/ EndDeal \/ (\E k \in Slots : HandleInput(k))
              \/ ResetSwitch \/ EndPass
    BY <1>2, <1>17 DEF Start, AddSwitch, Poll, BeginDeal, EndDeal, HandleInput, ResetSwitch, EndPass
  <1>18. QED
    BY <1>3, <1>4, <1>5, <1>6, <1>7, <1>8, <1>9, <1>11, <1>12, <1>13, <1>14, <1>15,
       <1>16, <1>17 DEF Next, MainStep, SubStep

\* While no entry is given up and no connect fails, every open descriptor belongs
\* to a connection or to a datagram on its way to one.
THEOREM NoStrays == Spec => []NoStraySockets
  <1>1. Init => StrayInv
    <2>1. Init => mainPc = "timer" /\ \A f \in Fds : socket[f] = "closed"
      BY DEF Init
    <2>2. QED  BY <2>1 DEF StrayInv, NoStraySockets, ConnectHolds
  <1>2. TypeOK /\ StrayInv /\ [Next]_vars => StrayInv'
    <2>1. CASE Next
      BY <2>1, StrayKept, ConnectKept DEF StrayInv
    <2>2. CASE UNCHANGED vars
      BY <2>2 DEF vars, kernelVars, mainVars, queueVars, slotVars, countVars, StrayInv,
           NoStraySockets, ConnectHolds, Clean, InHand, Queued
    <2>3. QED  BY <2>1, <2>2
  <1>3. StrayInv => NoStraySockets
    BY DEF StrayInv
  <1>4. QED  BY <1>1, <1>2, <1>3, TableTyped, PTL DEF Spec
--------------------------------------------------------------------------------
\* One slot more or less changes the number of used slots by one.
LEMMA UsedFinite ==
  IsFiniteSet(Slots) /\ Cardinality(Slots) = openMaxConnection
  BY FS_Interval, Distinct DEF Slots

LEMMA TakingOne ==
  ASSUME TypeOK, CountCovers, NEW k \in Slots, NEW f \in Fds, socket_fd[k] = None,
         socket_fd' = [socket_fd EXCEPT ![k] = f],
         activeConnectionsCount' = activeConnectionsCount + 1
  PROVE  CountCovers'
  <1>1. IsFiniteSet(UsedSlots) /\ k \notin UsedSlots
    BY UsedFinite, FS_Subset DEF UsedSlots
  <1>2. UsedSlots' = UsedSlots \cup {k}
    BY Distinct DEF UsedSlots, TypeOK
  <1>3. Cardinality(UsedSlots') = Cardinality(UsedSlots) + 1 /\ Cardinality(UsedSlots) \in Nat
    BY <1>1, <1>2, FS_AddElement, FS_CardinalityType
  <1>4. QED  BY <1>3 DEF CountCovers, TypeOK

LEMMA FreeingOne ==
  ASSUME TypeOK, CountCovers, NEW k \in Slots, socket_fd[k] # None,
         socket_fd' = [socket_fd EXCEPT ![k] = None],
         activeConnectionsCount' >= activeConnectionsCount - 1,
         activeConnectionsCount' \in Int
  PROVE  CountCovers'
  <1>1. IsFiniteSet(UsedSlots) /\ k \in UsedSlots
    BY UsedFinite, FS_Subset DEF UsedSlots
  <1>2. UsedSlots' = UsedSlots \ {k}
    BY DEF UsedSlots, TypeOK
  <1>3. Cardinality(UsedSlots') = Cardinality(UsedSlots) - 1 /\ Cardinality(UsedSlots) \in Nat
    BY <1>1, <1>2, FS_RemoveElement, FS_CardinalityType
  <1>4. QED  BY <1>3 DEF CountCovers, TypeOK

LEMMA CountKept ==
  ASSUME TypeOK, CountCovers, [Next]_vars
  PROVE  CountCovers'
  <1> USE DEF kernelVars, slotVars, placeVars
  <1>1. ASSUME UNCHANGED <<socket_fd, activeConnectionsCount>> PROVE CountCovers'
    BY <1>1 DEF CountCovers, UsedSlots
  <1>2. CASE UNCHANGED vars
    BY <1>1, <1>2 DEF vars
  <1>3. CASE \/ \E p \in Peers : Send(p)
             \/ \E f \in Fds : FailSocket(f)
             \/ \E k \in Slots : Silence(k)
             \/ MainStep
    BY <1>1, <1>3, ForeignSteps
  <1>4. ASSUME NEW k \in Slots, AddConnection(k) \/ AddFails(k) PROVE CountCovers'
    <2>1. TakePlace(k) /\ turns > 0
      BY <1>4 DEF AddConnection, AddFails, TakePlace, Dealing
    <2>2. Head(newConnections).fd \in Fds
      BY <2>1, HeadTyped DEF Entries
    <2>3. QED  BY <2>1, <2>2, TakingOne DEF TakePlace, IsEmptyPlace
  <1>5. ASSUME NEW k \in Slots, ClearConnection(k) PROVE CountCovers'
    <2>1. /\ socket_fd[k] # None /\ socket_fd' = [socket_fd EXCEPT ![k] = None]
          /\ activeConnectionsCount' = activeConnectionsCount - 1
      BY <1>5 DEF ClearConnection
    <2>2. activeConnectionsCount \in Int
      BY DEF TypeOK
    <2>3. activeConnectionsCount' >= activeConnectionsCount - 1 /\ activeConnectionsCount' \in Int
      BY <2>1, <2>2
    <2>4. QED  BY <2>1, <2>3, FreeingOne
  <1>6. ASSUME NEW k \in Slots, checkDeleteSocket(k) PROVE CountCovers'
    <2>1. UNCHANGED activeConnectionsCount /\ activeConnectionsCount \in Int
      BY <1>6 DEF checkDeleteSocket, TypeOK
    <2>0. activeConnectionsCount' >= activeConnectionsCount - 1 /\ activeConnectionsCount' \in Int
      BY <2>1
    <2>2. CASE socket_fd[k] = None
      BY <1>1, <1>6, <2>1, <2>2 DEF checkDeleteSocket
    <2>3. CASE socket_fd[k] # None
      <3>1. socket_fd' = [socket_fd EXCEPT ![k] = None]
        BY <1>6, <2>3 DEF checkDeleteSocket
      <3>2. QED  BY <2>0, <2>3, <3>1, FreeingOne
    <2>4. QED  BY <2>2, <2>3
  <1>7. CASE \/ Start \/ AddSwitch \/ Poll \/ BeginDeal \/ RefusePeer \/ HandOver \/ MissConnection
             \/ EndDeal \/ (\E k \in Slots : HandleError(k) \/ HandleInput(k))
             \/ ResetSwitch \/ EndPass
    <2>1. UNCHANGED <<socket_fd, activeConnectionsCount>>
      BY <1>7 DEF Start, AddSwitch, Poll, BeginDeal, RefusePeer, HandOver, MissConnection, EndDeal,
           HandleError, HandleInput, ResetSwitch, EndPass
    <2>2. QED  BY <1>1, <2>1
  <1>8. QED
    BY <1>2, <1>3, <1>4, <1>5, <1>6, <1>7 DEF Next, SubStep

\* A new peer is turned away only if every slot has a connection that was heard of
\* within ConnectionTimeOut: the clearing that the counter guards is never left out
\* while the table is full.
THEOREM RefusedPeers == Spec => RefusedOnlyWhenFull
  <1>1. Init => CountCovers
    <2> SUFFICES ASSUME Init PROVE CountCovers
      OBVIOUS
    <2>1. socket_fd = [k \in Slots |-> None] /\ activeConnectionsCount = 0
      BY DEF Init
    <2>2. UsedSlots = {}
      BY <2>1 DEF UsedSlots
    <2>3. QED  BY <2>1, <2>2, FS_EmptySet DEF CountCovers
  <1>2. TypeOK /\ CountCovers /\ [Next]_vars
          => [RefusePeer => \A k \in Slots : socket_fd[k] # None /\ ~idle[k]]_vars
    <2> SUFFICES ASSUME TypeOK, CountCovers, RefusePeer
                 PROVE  \A k \in Slots : socket_fd[k] # None /\ ~idle[k]
      OBVIOUS
    <2>1. UsedSlots = Slots
      BY DEF RefusePeer, UsedSlots
    <2>2. TableLooksFull
      BY <2>1, UsedFinite, Distinct DEF CountCovers, TableLooksFull, TypeOK
    <2>3. QED  BY <2>2 DEF RefusePeer, Cleared
  <1>3. QED
    BY <1>1, <1>2, CountKept, TableTyped, PTL DEF Spec, RefusedOnlyWhenFull
================================================================================
