---------------------------- MODULE LinkReactorProofs ----------------------------
(***************************************************************************)
(* Proofs about the calls that a server makes, for any number of calls,    *)
(* pieces, tries, timers and refusals: the main reactor claims the answers *)
(* of a call as long as the call waits for some, only what comes after the *)
(* callback was called can catch the loop or the main reactor, and the     *)
(* calls implement RpcCall as those of a Transmitter do.                   *)
(***************************************************************************)
EXTENDS SR2PLink, TransmitterProofs, SequenceTheorems

--------------------------------------------------------------------------------
\* The fields of the state of the main reactor and of the queue that a step which
\* leaves newData alone can change.
LEMMA QueueStillTyped ==
  ASSUME LinkTypeOK, UNCHANGED newData,
         active_queue' \subseteq Calls, erasures' \subseteq Calls,
         pass' \in {"drain", "timers"}, spinning' \in BOOLEAN, blocked' \in BOOLEAN,
         captured' \in BOOLEAN, unread' \subseteq FromServer(Data \ {NoData})
  PROVE  LinkTypeOK'
BY DEF LinkTypeOK

\* A timer of the loop, and whatever else lets Forget set erasures, keeps them.
LEMMA ForgetType ==
  ASSUME LinkTypeOK, Forget
  PROVE  /\ active_queue' \subseteq Calls /\ erasures' \subseteq Calls
         /\ blocked' \in BOOLEAN /\ captured' \in BOOLEAN
         /\ unread' \subseteq FromServer(Data \ {NoData})
BY DEF LinkTypeOK, Forget

\* The first datagram of the queue is one of the server, and the rest are too.
LEMMA HeadType ==
  ASSUME LinkTypeOK, newData # <<>>
  PROVE  /\ Head(newData) \in FromServer(Data \ {NoData})
         /\ Tail(newData) \in Seq(FromServer(Data \ {NoData}))
         /\ Len(Tail(newData)) <= MaxQueue
<1>1. newData \in Seq(FromServer(Data \ {NoData})) /\ Len(newData) <= MaxQueue
  BY DEF LinkTypeOK
<1>2. /\ Head(newData) \in FromServer(Data \ {NoData})
      /\ Tail(newData) \in Seq(FromServer(Data \ {NoData}))
      /\ Len(Tail(newData)) = Len(newData) - 1
  BY <1>1, HeadTailProperties
<1> QED
  BY <1>1, <1>2, LenProperties, QueueAssumption

\* The main reactor's steps keep the types.
LEMMA MainReactorType ==
  ASSUME TypeOK,
         \/ \E i \in Calls : EnterServlet(i) \/ EraseServlet(i)
         \/ \E m \in toClient : Claim(m) \/ Capture(m) \/ Misdeliver(m)
  PROVE  NetTypeOK' /\ TransmitterTypeOK' /\ LinkTypeOK'
<1> DEFINE Goal == NetTypeOK' /\ TransmitterTypeOK' /\ LinkTypeOK'
<1>0. NetTypeOK /\ TransmitterTypeOK /\ LinkTypeOK
  BY DEF TypeOK
<1>1. ASSUME UNCHANGED clientVars PROVE TransmitterTypeOK'
  BY <1>0, <1>1
  DEF TransmitterTypeOK, clientVars, loopVars, taskVars, timerVars, triggerVars
<1>2. ASSUME NEW i \in Calls, EnterServlet(i) PROVE Goal
  <2>1. LinkTypeOK'
    BY <1>0, <1>2, QueueStillTyped DEF EnterServlet, queueVars, LinkTypeOK
  <2> QED
    BY <1>0, <1>1, <1>2, <2>1, StillTyped DEF EnterServlet
<1>3. ASSUME NEW i \in Calls, EraseServlet(i) PROVE Goal
  <2>1. LinkTypeOK'
    BY <1>0, <1>3, QueueStillTyped DEF EraseServlet, queueVars, LinkTypeOK
  <2> QED
    BY <1>0, <1>1, <1>3, <2>1, StillTyped DEF EraseServlet
<1>4. ASSUME NEW m \in toClient, Take(toClient, m, toClient'), UNCHANGED <<toServer, losses>>
      PROVE  NetTypeOK'
  BY <1>0, <1>4, TakeType DEF NetTypeOK
<1>5. ASSUME NEW m \in toClient, Claim(m) PROVE Goal
  <2>1. NetTypeOK' /\ TransmitterTypeOK'
    BY <1>1, <1>4, <1>5 DEF Claim, Read
  <2>2. /\ UNCHANGED <<active_queue, erasures, pass, spinning, captured>>
        /\ unread' \subseteq FromServer(Data \ {NoData})
    BY <1>0, <1>5 DEF Claim, Read, LinkTypeOK
  <2>3. CASE spinning
    BY <1>0, <1>5, <2>1, <2>2, <2>3, QueueStillTyped DEF Claim, LinkTypeOK
  <2>4. CASE ~spinning
    <3>1. m \in FromServer(Data \ {NoData})
      BY <1>0 DEF NetTypeOK
    <3>2. /\ newData' = Append(newData, m) /\ Len(newData) < MaxQueue
          /\ newData \in Seq(FromServer(Data \ {NoData})) /\ blocked' = blocked
      BY <1>0, <1>5, <2>4 DEF Claim, LinkTypeOK
    <3>3. newData' \in Seq(FromServer(Data \ {NoData})) /\ Len(newData') = Len(newData) + 1
      BY <3>1, <3>2, AppendProperties
    <3>4. Len(newData') <= MaxQueue
      BY <3>2, <3>3, LenProperties, QueueAssumption
    <3> QED
      BY <1>0, <2>1, <2>2, <3>2, <3>3, <3>4 DEF LinkTypeOK
  <2> QED
    BY <2>3, <2>4
<1>6. ASSUME NEW m \in toClient, Capture(m) PROVE Goal
  <2>1. NetTypeOK' /\ TransmitterTypeOK'
    BY <1>1, <1>4, <1>6 DEF Capture, Read
  <2>2. unread' \subseteq FromServer(Data \ {NoData})
    BY <1>6, <2>1 DEF Capture, NetTypeOK
  <2> QED
    BY <1>0, <1>6, <2>1, <2>2, QueueStillTyped DEF Capture, Read, LinkTypeOK
<1>7. ASSUME NEW m \in toClient, Misdeliver(m) PROVE Goal
  <2>1. NetTypeOK' /\ TransmitterTypeOK'
    BY <1>1, <1>4, <1>7 DEF Misdeliver
  <2> QED
    BY <1>0, <1>7, <2>1, QueueStillTyped
    DEF Misdeliver, queueVars, LinkTypeOK
<1> QED
  BY <1>2, <1>3, <1>5, <1>6, <1>7

\* So do the steps of the transmitter's loop, its callers and its workers.
LEMMA LinkTypeStep ==
  ASSUME TypeOK, LinkNext
  PROVE  NetTypeOK' /\ TransmitterTypeOK' /\ LinkTypeOK'
<1> DEFINE Goal == NetTypeOK' /\ TransmitterTypeOK' /\ LinkTypeOK'
<1>0. NetTypeOK /\ TransmitterTypeOK /\ LinkTypeOK
  BY DEF TypeOK
<1>1. ASSUME UNCHANGED linkVars PROVE LinkTypeOK'
  BY <1>0, <1>1, QueueStillTyped DEF linkVars, mainVars, queueVars, LinkTypeOK
<1>2. ASSUME NEW i \in Calls, SendEvent(i) PROVE Goal
  BY <1>0, <1>1, <1>2, PassType DEF SendEvent
<1>3. CASE SendOrSleep
  BY <1>0, <1>1, <1>3, PassType DEF SendOrSleep
<1>4. ASSUME NEW i \in Calls, Work(i) PROVE Goal
  BY <1>0, <1>1, <1>4, WorkerType, StillTyped DEF Work
<1>5. CASE HandleHead
  <2> DEFINE m == Head(newData)
  <2>1. /\ newData # <<>> /\ newData' = Tail(newData) /\ Forget
        /\ UNCHANGED <<pass, spinning, toClient, dups, losses>>
        /\ HearACK(m) \/ HearNothingNew(m) \/ HearReset(m) \/ OvertakenACK(m) \/ HearResponsePiece(m)
    BY <1>5 DEF HandleHead
  <2>2. TransmitterTypeOK' /\ toServer' \subseteq FromClient
    BY <1>0, <2>1, HeadType, HandleType
  <2>3. NetTypeOK'
    BY <1>0, <2>1, <2>2 DEF NetTypeOK
  <2>4. LinkTypeOK'
    BY <1>0, <2>1, HeadType, ForgetType DEF LinkTypeOK
  <2> QED
    BY <2>2, <2>3, <2>4
<1>6. CASE Spin \/ EndDrain
  <2>1. UNCHANGED clientVars /\ UNCHANGED netVars
    BY <1>6 DEF Spin, EndDrain
  <2>2. TransmitterTypeOK'
    BY <1>0, <2>1
    DEF TransmitterTypeOK, clientVars, loopVars, taskVars, timerVars, triggerVars
  <2>3. LinkTypeOK'
    BY <1>0, <1>6, QueueStillTyped DEF Spin, EndDrain, mainVars, LinkTypeOK
  <2> QED
    BY <1>0, <2>1, <2>2, <2>3, StillTyped
<1>7. CASE EndPass
  <2>1. loopPc' \in {"test", "receive"}
    BY <1>7 DEF EndPass, NextPass
  <2>2. TransmitterTypeOK'
    BY <1>0, <1>7, <2>1 DEF EndPass, TransmitterTypeOK, taskVars, timerVars, triggerVars
  <2>3. LinkTypeOK'
    BY <1>0, <1>7, QueueStillTyped DEF EndPass, mainVars, LinkTypeOK
  <2> QED
    BY <1>0, <1>7, <2>2, <2>3, StillTyped DEF EndPass
<1>8. ASSUME InTimers PROVE LinkTypeOK'
  BY <1>0, <1>8, ForgetType, QueueStillTyped DEF InTimers, LinkTypeOK
<1>9. ASSUME NEW i \in Calls, TimeOut(i) \/ ClearTimer(i) PROVE Goal
  BY <1>0, <1>8, <1>9, TimerType DEF TimeOut, ClearTimer
<1> QED
  BY <1>2, <1>3, <1>4, <1>5, <1>6, <1>7, <1>9, MainReactorType DEF LinkNext, LinkProceeds

\* Every reachable state satisfies TypeOK: neither the main reactor nor the loop
\* that works off newData leaves a queue, a counter or an acknowledgement outside
\* of its range, newData holds only what the called server sends, and what the
\* calling server sends the called one reads.
THEOREM LinkTyped == Spec => []TypeOK
<1>1. Init => TypeOK
  <2>1. NetInit => NetTypeOK
    BY NetworkAssumption DEF NetInit, NetTypeOK
  <2>2. LinkInit => LinkTypeOK
    <3>1. <<>> \in Seq(FromServer(Data \ {NoData})) /\ Len(<<>>) <= MaxQueue
      BY QueueAssumption
    <3> QED
      BY <3>1 DEF LinkInit, LinkTypeOK
  <2> QED
    BY <2>1, <2>2, TransmitterInitType, SubReactorInitType DEF Init, TypeOK
<1>2. TypeOK /\ [Next]_vars => TypeOK'
  <2> SUFFICES ASSUME TypeOK, [Next]_vars PROVE TypeOK'
    OBVIOUS
  <2>1. UNCHANGED <<clientVars, linkVars>> => TransmitterTypeOK' /\ LinkTypeOK'
    BY QueueStillTyped
    DEF TypeOK, TransmitterTypeOK, LinkTypeOK, clientVars, loopVars, taskVars, timerVars,
        triggerVars, linkVars, mainVars, queueVars
  <2> QED
    BY <2>1, StillTyped, LinkTypeStep, SubReactorTypeStep DEF TypeOK, Next, vars
<1> QED
  BY <1>1, <1>2, PTL DEF Spec
--------------------------------------------------------------------------------
\* Where the calls are.
CallsTyped ==
  /\ message \in [Calls -> {"new", "queued", "active", "erased"}]
  /\ triggered \in [Calls -> BOOLEAN]
  /\ callback \in [Calls -> CallbackSteps]
  /\ outcome \in [Calls -> Outcomes]

\* The life of call j: only a triggered call has a callback under way or is about
\* to leave active_queue, only one that was called back is erased, and a call in
\* the map that is not triggered is in active_queue.
LifeOf(j) ==
  /\ callback[j] # "none" => triggered[j]
  /\ callback[j] \in {"called", "done"} => outcome[j] # "none"
  /\ j \in erasing => callback[j] = "done"
  /\ message[j] = "erased" => callback[j] = "done"
  /\ j \in erasures => triggered[j]
  /\ message[j] \in {"queued", "active"} /\ ~triggered[j] => j \in active_queue

LifeInv == CallsTyped /\ \A j \in Calls : LifeOf(j)

\* The parts of the state that LifeInv speaks of.
callVars == <<message, triggered, callback, outcome, erasing>>

\* try_trigger, called by a handler or a timer.
Triggers(i) ==
  /\ ~triggered[i]
  /\ triggered' = [triggered EXCEPT ![i] = TRUE]
  /\ \/ /\ callback' = [callback EXCEPT ![i] = "committed"]
        /\ UNCHANGED <<outcome, erasing>>
     \/ /\ callback' = [callback EXCEPT ![i] = "done"]
        /\ outcome' = [outcome EXCEPT ![i] = Verdict(i)]
        /\ erasing' = erasing \cup {i}
     \/ /\ callback' = [callback EXCEPT ![i] = "called"]
        /\ outcome' = [outcome EXCEPT ![i] = Verdict(i)]
        /\ UNCHANGED erasing
Settled == UNCHANGED <<triggered, callback, outcome, erasing>>

\* A handler or a timer leaves the map and the callbacks alone, or triggers.
LEMMA TriggerEffect ==
  ASSUME NEW i \in Calls, try_trigger(i) \/ (try_triggerInTimer(i) /\ UNCHANGED erasing)
  PROVE  Triggers(i) \/ Settled
BY Zenon DEF try_trigger, try_triggerInTimer, NotTriggered, Triggers, Settled

LEMMA HandleHeadEffect ==
  ASSUME HandleHead
  PROVE  message' = message /\ (Settled \/ \E i \in Calls : Triggers(i))
<1> DEFINE m == Head(newData)
<1>1. CASE HearACK(m) \/ HearNothingNew(m) \/ HearReset(m) \/ OvertakenACK(m)
  BY <1>1 DEF HearACK, HearNothingNew, HearReset, OvertakenACK, Settled, loopVars, triggerVars
<1>2. CASE HearResponsePiece(m)
  <2>1. m.id \in Calls /\ (try_trigger(m.id) \/ UNCHANGED <<triggerVars, erasing>>)
    BY <1>2, Zenon DEF HearResponsePiece, Known
  <2>2. message' = message
    BY <1>2 DEF HearResponsePiece, loopVars
  <2>3. UNCHANGED <<triggerVars, erasing>> => Settled
    BY DEF Settled, triggerVars
  <2> QED
    BY <2>1, <2>2, <2>3, TriggerEffect
<1> QED
  BY <1>1, <1>2 DEF HandleHead

LEMMA TimeOutEffect ==
  ASSUME NEW i \in Calls, TimeOut(i)
  PROVE  message' = message /\ (Settled \/ Triggers(i))
<1>1. ASSUME NEW a \in 0 .. ReqPieces, timeout_event(i, a)
      PROVE  message' = message /\ (Settled \/ Triggers(i))
  <2>1. (try_triggerInTimer(i) \/ UNCHANGED triggerVars) /\ message' = message /\ erasing' = erasing
    BY <1>1 DEF timeout_event
  <2> QED
    BY <2>1, TriggerEffect DEF Settled, triggerVars
<1>2. ASSUME response_timeout_event(i)
      PROVE  message' = message /\ (Settled \/ Triggers(i))
  <2>1. (try_triggerInTimer(i) \/ UNCHANGED triggerVars) /\ message' = message /\ erasing' = erasing
    BY <1>2 DEF response_timeout_event
  <2> QED
    BY <2>1, TriggerEffect DEF Settled, triggerVars
<1> QED
  BY <1>1, <1>2 DEF TimeOut
--------------------------------------------------------------------------------
\* Each kind of step keeps the life of call j.
LEMMA SettledKeeps ==
  ASSUME LifeInv, NEW j \in Calls, UNCHANGED callVars,
         j \in erasures' => j \in erasures,
         j \in active_queue => j \in active_queue' \/ j \in erasures
  PROVE  LifeOf(j)'
BY DEF LifeInv, LifeOf, callVars

LEMMA TriggerKeeps ==
  ASSUME LifeInv, NEW i \in Calls, Triggers(i), Forget, message' = message
  PROVE  LifeInv'
<1> USE DEF LifeInv, CallsTyped
<1>0. Verdict(i) # "none" /\ Verdict(i) \in Outcomes
  BY DEF Verdict, Outcomes
<1>1. triggered' \in [Calls -> BOOLEAN] /\ triggered'[i]
  BY Zenon DEF Triggers
<1>2. callback' \in [Calls -> CallbackSteps] /\ outcome' \in [Calls -> Outcomes]
  BY <1>0 DEF Triggers, CallbackSteps
<1>3. active_queue' = active_queue
  BY DEF Forget
<1>4. \A j \in Calls : j \in erasures' => j \in erasures \/ triggered'[j]
  BY DEF Forget, Finished
<1>5. ASSUME NEW j \in Calls, j # i PROVE LifeOf(j)'
  <2>1. triggered'[j] = triggered[j]
    BY <1>5, Zenon DEF Triggers
  <2>2. callback'[j] = callback[j] /\ outcome'[j] = outcome[j] /\ (j \in erasing' => j \in erasing)
    BY <1>5 DEF Triggers
  <2> QED
    BY <1>3, <1>4, <2>1, <2>2, Zenon DEF LifeOf
<1>6. LifeOf(i)'
  <2>1. callback[i] = "none" /\ i \notin erasing /\ message[i] # "erased"
    BY DEF Triggers, LifeOf
  <2>2. /\ callback'[i] \in {"called", "done"} => outcome'[i] # "none"
        /\ i \in erasing' => callback'[i] = "done"
    BY <1>0, <2>1 DEF Triggers
  <2> QED
    BY <1>1, <2>1, <2>2, Zenon DEF LifeOf
<1> QED
  BY <1>1, <1>2, <1>5, <1>6

\* A step after which no call is newly triggered gives Forget nothing to do.
LEMMA NothingErased ==
  ASSUME Forget, UNCHANGED triggered
  PROVE  UNCHANGED <<erasures, active_queue>>
<1>1. {i \in Calls : Finished(i) /\ ~triggered[i]} = {}
  BY Zenon DEF Finished
<1> QED
  BY <1>1 DEF Forget

LEMMA WorkKeeps ==
  ASSUME LifeInv, NEW i \in Calls, Work(i)
  PROVE  LifeInv'
<1> USE DEF LifeInv, CallsTyped
<1>1. UNCHANGED <<message, triggered, erasures, active_queue>>
  BY DEF Work, Decode, CallBack, Dismiss, linkVars, mainVars, loopVars
<1>2. callback[i] # "none" /\ callback' \in [Calls -> CallbackSteps] /\ outcome' \in [Calls -> Outcomes]
  BY DEF Work, Decode, CallBack, Dismiss, CallbackSteps, Outcomes
<1>3. ASSUME NEW j \in Calls PROVE LifeOf(j)'
  <2>1. triggered[i]
    BY <1>2, Zenon DEF LifeOf
  <2>2. CASE j # i
    <3>1. callback'[j] = callback[j] /\ outcome'[j] = outcome[j] /\ (j \in erasing' => j \in erasing)
      BY <2>2 DEF Work, Decode, CallBack, Dismiss, timerVars
    <3> QED
      BY <1>1, <3>1, Zenon DEF LifeOf
  <2>3. CASE j = i
    <3>1. /\ callback[i] # "done"
          /\ callback'[i] \in {"called", "done"} => outcome'[i] # "none"
          /\ i \in erasing' => i \in erasing \/ callback'[i] = "done"
      BY <1>2, <2>3 DEF Work, Decode, CallBack, Dismiss, timerVars, LifeOf
    <3> QED
      BY <1>1, <2>1, <2>3, <3>1, Zenon DEF LifeOf
  <2> QED
    BY <2>2, <2>3
<1> QED
  BY <1>1, <1>2, <1>3

\* The steps that put a message into the map, send it or erase it.
LEMMA MapKeeps ==
  ASSUME LifeInv,
         \/ \E i \in Calls : SendEvent(i)
         \/ SendPass /\ UNCHANGED linkVars
         \/ \E i \in Calls : delete_message(i) /\ Forget
  PROVE  LifeInv'
<1> USE DEF LifeInv, CallsTyped
<1>1. ASSUME NEW i \in Calls, SendEvent(i) PROVE LifeInv'
  <2>1. /\ UNCHANGED <<triggered, callback, outcome, erasing, erasures, active_queue>>
        /\ message[i] = "new" /\ message' = [message EXCEPT ![i] = "queued"]
        /\ i \in active_queue
    BY <1>1 DEF SendEvent, Entered, send, linkVars, mainVars, timerVars, triggerVars
  <2>2. ASSUME NEW j \in Calls PROVE LifeOf(j)'
    BY <2>1 DEF LifeOf
  <2> QED
    BY <2>1, <2>2
<1>2. CASE SendPass /\ UNCHANGED linkVars
  <2>1. /\ UNCHANGED <<triggered, callback, outcome, erasing, erasures, active_queue>>
        /\ message' = [j \in Calls |-> IF message[j] = "queued" THEN "active" ELSE message[j]]
    BY <1>2 DEF SendPass, linkVars, mainVars, triggerVars
  <2>2. ASSUME NEW j \in Calls PROVE LifeOf(j)'
    BY <2>1 DEF LifeOf
  <2> QED
    BY <2>1, <2>2
<1>3. ASSUME NEW i \in Calls, delete_message(i), Forget PROVE LifeInv'
  <2>1. /\ UNCHANGED <<triggered, callback, outcome>>
        /\ message' = [message EXCEPT ![i] = "erased"]
        /\ i \in erasing /\ erasing' \subseteq erasing
    BY <1>3 DEF delete_message, triggerVars
  <2>2. UNCHANGED <<erasures, active_queue>>
    BY <1>3, <2>1, NothingErased
  <2>3. ASSUME NEW j \in Calls PROVE LifeOf(j)'
    BY <2>1, <2>2 DEF LifeOf
  <2> QED
    BY <2>1, <2>3
<1> QED
  BY <1>1, <1>2, <1>3

\* Every step of the calling server keeps LifeInv.
LEMMA LinkKeeps ==
  ASSUME LifeInv, LinkNext
  PROVE  LifeInv'
<1>0. ASSUME UNCHANGED callVars,
             \A j \in Calls : /\ j \in erasures' => j \in erasures
                              /\ j \in active_queue => j \in active_queue' \/ j \in erasures
      PROVE  LifeInv'
  BY <1>0, SettledKeeps DEF LifeInv, CallsTyped, callVars
<1>1. ASSUME NEW i \in Calls, EnterServlet(i) PROVE LifeInv'
  <2>1. UNCHANGED callVars /\ erasures' = erasures /\ active_queue \subseteq active_queue'
    BY <1>1 DEF EnterServlet, callVars, clientVars, loopVars, timerVars, triggerVars
  <2> QED
    BY <1>0, <2>1
<1>2. ASSUME NEW m \in toClient, Claim(m) \/ Capture(m) \/ Misdeliver(m) PROVE LifeInv'
  <2>1. UNCHANGED <<callVars, erasures, active_queue>>
    BY <1>2 DEF Claim, Capture, Misdeliver, Read, callVars, clientVars, loopVars, timerVars,
                triggerVars, linkVars, mainVars
  <2> QED
    BY <1>0, <2>1
<1>3. ASSUME NEW i \in Calls, EraseServlet(i) PROVE LifeInv'
  <2>1. /\ UNCHANGED callVars /\ i \in erasures
        /\ erasures' = erasures \ {i} /\ active_queue' = active_queue \ {i}
    BY <1>3 DEF EraseServlet, callVars, clientVars, loopVars, timerVars, triggerVars
  <2> QED
    BY <1>0, <2>1
<1>4. CASE HandleHead
  <2>1. Forget
    BY <1>4 DEF HandleHead
  <2>2. CASE Settled
    <3>1. UNCHANGED <<callVars, erasures, active_queue>>
      BY <1>4, <2>1, <2>2, HandleHeadEffect, NothingErased DEF Settled, callVars
    <3> QED
      BY <1>0, <3>1
  <2> QED
    BY <1>4, <2>1, <2>2, HandleHeadEffect, TriggerKeeps
<1>5. CASE Spin \/ EndDrain \/ EndPass
  <2>1. UNCHANGED <<callVars, erasures, active_queue>>
    BY <1>5 DEF Spin, EndDrain, EndPass, callVars, clientVars, loopVars, timerVars, triggerVars, mainVars
  <2> QED
    BY <1>0, <2>1
<1>6. ASSUME NEW i \in Calls, TimeOut(i) PROVE LifeInv'
  <2>1. Forget
    BY <1>6 DEF TimeOut, InTimers
  <2>2. CASE Settled
    <3>1. UNCHANGED <<callVars, erasures, active_queue>>
      BY <1>6, <2>1, <2>2, TimeOutEffect, NothingErased DEF Settled, callVars
    <3> QED
      BY <1>0, <3>1
  <2> QED
    BY <1>6, <2>1, <2>2, TimeOutEffect, TriggerKeeps
<1>7. ASSUME NEW i \in Calls, ClearTimer(i) PROVE LifeInv'
  <2>1. Forget
    BY <1>7 DEF ClearTimer, InTimers
  <2>2. ASSUME NEW a \in 0 .. ReqPieces, staleTimeout(i, a) PROVE LifeInv'
    <3>1. UNCHANGED callVars
      BY <2>2 DEF staleTimeout, callVars, triggerVars
    <3>2. UNCHANGED <<erasures, active_queue>>
      BY <2>1, <3>1, NothingErased DEF callVars
    <3> QED
      BY <1>0, <3>1, <3>2
  <2> QED
    BY <1>7, <2>1, <2>2, MapKeeps DEF ClearTimer
<1>8. CASE SendOrSleep
  <2>1. CASE (Park \/ Sleep) /\ UNCHANGED linkVars
    <3>1. UNCHANGED <<callVars, erasures, active_queue>>
      BY <2>1 DEF Park, Sleep, callVars, timerVars, triggerVars, linkVars, mainVars
    <3> QED
      BY <1>0, <3>1
  <2> QED
    BY <1>8, <2>1, MapKeeps DEF SendOrSleep
<1> QED
  BY <1>1, <1>2, <1>3, <1>4, <1>5, <1>6, <1>7, <1>8, MapKeeps, WorkKeeps
  DEF LinkNext, LinkProceeds

LEMMA LifeInvariant == Spec => []LifeInv
<1>1. Init => LifeInv
  BY DEF Init, TransmitterInit, LinkInit, LifeInv, CallsTyped, LifeOf, CallbackSteps, Outcomes
<1>2. LifeInv /\ [Next]_vars => LifeInv'
  <2> SUFFICES ASSUME LifeInv, UNCHANGED <<clientVars, linkVars>> PROVE LifeInv'
    BY LinkKeeps DEF Next, vars
  <2>1. UNCHANGED <<callVars, erasures, active_queue>>
    BY DEF callVars, clientVars, loopVars, timerVars, triggerVars, linkVars, mainVars
  <2> QED
    BY <2>1, SettledKeeps DEF LifeInv, CallsTyped, callVars
<1> QED
  BY <1>1, <1>2, PTL DEF Spec

\* As long as a call waits for answers its servlet is in active_queue, whatever the
\* threads of the callers, the loop, the workers and the main reactor do: the main
\* reactor hands its answers to the loop (reactor.cpp:128-133).
THEOREM AnswersClaimed == Spec => []AnswersAreClaimed
<1>1. LifeInv => AnswersAreClaimed
  BY DEF LifeInv, LifeOf, AnswersAreClaimed, Present
<1> QED
  BY <1>1, LifeInvariant, PTL
--------------------------------------------------------------------------------
\* Calls whose first window was sent; what is in flight, queued or worked on
\* belongs to one of them, but a refusal of the called server has no id.
Sent == {i \in Calls : message[i] \in {"active", "erased"}}
AreOf(datagrams, G) == \A m \in datagrams : m.id \in G
OfSent(m) == m.id \in Sent \/ m = Exhausted

ServerOf(G) ==
  /\ \A m \in toServer \cup mainBuffer : m.id \in G
  /\ \A m \in toClient : m.id \in G \/ m = Exhausted
  /\ \A t \in tasks \cup results : t[1] \in G

QueueOf(G) == \E S : newData \in Seq(S) /\ AreOf(S, G)

\* The loop is caught at a datagram whose message was erased.
CaughtLate == spinning => newData # <<>> /\ message[Head(newData).id] = "erased"

FlightInv ==
  /\ ServerOf(Sent)
  /\ QueueOf(Sent)
  /\ active_queue \subseteq Calls
  /\ CaughtLate

\* A handler of the called server answers the call it hears of.
LEMMA HandlerAnswers ==
  ASSUME NEW G, NEW m, ServerOf(G), m.id \in G,
         HandleQueued(m) \/ HandleConnected(m)
  PROVE  /\ \A n \in toClient' : n.id \in G \/ n = Exhausted
         /\ \A t \in tasks' \cup results' : t[1] \in G
<1> DEFINE Goal == /\ \A n \in toClient' : n.id \in G \/ n = Exhausted
                   /\ \A t \in tasks' \cup results' : t[1] \in G
<1>1. /\ \A a : ACK(m.id, a).id = m.id
      /\ Reset(m.id).id = m.id /\ Heartbeat(m.id).id = m.id
      /\ \A k, d : ResponsePiece(m.id, k, d).id = m.id
  BY DEF ACK, Reset, Heartbeat, ResponsePiece, Header
<1>2. ASSUME NEW D, Reply(D), \A n \in D : n.id \in G \/ n = Exhausted,
             UNCHANGED <<tasks, results>>
      PROVE  Goal
  BY <1>2 DEF ServerOf, Reply
<1>3. ASSUME NEW ackIfStored, AcceptPiece(m, ackIfStored) PROVE Goal
  <2>1. PICK a : \/ trigger(m.id, ACK(m.id, a))
                 \/ Reply({ACK(m.id, a)}) /\ UNCHANGED tasks
    BY <1>3, Zenon DEF AcceptPiece
  <2>2. results' = results
    BY <1>3 DEF AcceptPiece, responseVars
  <2>3. CASE trigger(m.id, ACK(m.id, a))
    <3>1. toClient' \subseteq toClient \cup {ACK(m.id, a), Exhausted}
      BY <2>3 DEF trigger, Reply
    <3>2. tasks' \subseteq tasks \cup {<<m.id, executions[m.id] + 1>>}
      BY <2>3 DEF trigger
    <3> QED
      BY <1>1, <2>2, <3>1, <3>2 DEF ServerOf
  <2> QED
    BY <1>1, <1>2, <2>1, <2>2, <2>3
<1>4. ASSUME AnswerRequestACK(m) PROVE Goal
  <2>1. UNCHANGED <<tasks, results>> /\ \E a : Reply({IF HasRequest(m.id) THEN ACK(m.id, a) ELSE Reset(m.id)})
    BY <1>4 DEF AnswerRequestACK, requestVars, responseVars
  <2> QED
    BY <1>1, <1>2, <2>1
<1>5. ASSUME AnswerUnready(m) PROVE Goal
  BY <1>1, <1>2, <1>5 DEF AnswerUnready, requestVars, responseVars
<1>6. ASSUME AcceptResponseACK(m) \/ AnswerHeartbeat(m) PROVE Goal
  <2>1. \A a : \A n \in NextPiece(m.id, a) : n.id = m.id
    BY <1>1 DEF NextPiece
  <2>2. UNCHANGED <<tasks, results>> /\ \E a : Reply(NextPiece(m.id, a))
    BY <1>6 DEF AcceptResponseACK, AnswerHeartbeat, requestVars, responseVars
  <2> QED
    BY <1>2, <2>1, <2>2
<1>7. CASE HandleConnected(m)
  BY <1>3, <1>4, <1>5, <1>6, <1>7 DEF HandleConnected
<1>8. CASE HandleQueued(m)
  <2>1. ASSUME Reply({IF HasRequest(m.id) THEN Heartbeat(m.id) ELSE Reset(m.id)}),
               UNCHANGED <<requestVars, responseVars, boundVars>>
        PROVE  Goal
    BY <1>1, <1>2, <2>1 DEF requestVars, responseVars
  <2> QED
    BY <1>3, <1>4, <1>8, <2>1 DEF HandleQueued
<1> QED
  BY <1>7, <1>8

\* A step of the called server.
LEMMA ServerStepOf ==
  ASSUME NEW G, ServerOf(G), SubReactorNext
  PROVE  ServerOf(G)'
<1>1. ASSUME NEW m \in toServer \cup mainBuffer, AcceptNewPeer(m) \/ ForwardToPeer(m) \/ ReceiveConnected(m)
      PROVE  ServerOf(G)'
  <2>1. m.id \in G
    BY DEF ServerOf
  <2>2. HandleQueued(m) \/ HandleConnected(m)
    BY <1>1 DEF AcceptNewPeer, ForwardToPeer, ReceiveConnected
  <2>3. toServer' \cup mainBuffer' \subseteq toServer \cup mainBuffer
    BY <1>1 DEF AcceptNewPeer, ForwardToPeer, ReceiveConnected, Take
  <2> QED
    BY <2>1, <2>2, <2>3, HandlerAnswers DEF ServerOf
<1>2. ASSUME NEW t \in tasks, FinishTask(t) PROVE ServerOf(G)'
  BY <1>2 DEF FinishTask, ServerOf, netVars
<1>3. ASSUME NEW t \in results, StoreResponse(t) PROVE ServerOf(G)'
  <2>1. toClient' \subseteq toClient \cup {ResponsePiece(t[1], 0, t[2])}
    BY <1>3 DEF StoreResponse, Reply
  <2>2. ResponsePiece(t[1], 0, t[2]).id = t[1] /\ t[1] \in G
    BY DEF ResponsePiece, Header, ServerOf
  <2> QED
    BY <1>3, <2>1, <2>2 DEF StoreResponse, ServerOf, requestVars
<1>4. ASSUME NEW i \in Calls, judgeDelete(i) \/ judgeResponseClearTimeout(i) \/ ReuseBuffer(i)
      PROVE  ServerOf(G)'
  BY <1>4 DEF judgeDelete, judgeResponseClearTimeout, ReuseBuffer, ServerOf, netVars, requestVars, responseVars
<1>5. CASE Restart
  BY <1>5 DEF Restart, ServerOf, netVars
<1> QED
  BY <1>1, <1>2, <1>3, <1>4, <1>5 DEF SubReactorNext

\* What the calling server's step does to the map and the channels: sent calls stay
\* sent, erased ones erased, and it sends for sent calls only.
LEMMA LinkEffect ==
  ASSUME LifeInv, LinkNext
  PROVE  /\ Sent \subseteq Sent'
         /\ \A i \in Calls : message[i] = "erased" => message'[i] = "erased"
         /\ \A m \in toServer' : m \in toServer \/ m.id \in Sent'
         /\ toClient' \subseteq toClient
<1> DEFINE Goal == /\ Sent \subseteq Sent'
                   /\ \A i \in Calls : message[i] = "erased" => message'[i] = "erased"
                   /\ \A m \in toServer' : m \in toServer \/ m.id \in Sent'
                   /\ toClient' \subseteq toClient
<1>0. message \in [Calls -> {"new", "queued", "active", "erased"}]
  BY DEF LifeInv, CallsTyped
<1>1. \A i : /\ \A k : RequestPiece(i, k).id = i
             /\ \A a : ResponseACK(i, a).id = i
             /\ RequestACK(i).id = i /\ RequestHeartbeat(i).id = i
             /\ \A a : \A m \in Window(i, a) : m.id = i
  BY DEF RequestPiece, ResponseACK, RequestACK, RequestHeartbeat, Header, Window
<1>2. ASSUME UNCHANGED message, toClient' \subseteq toClient,
             \A m \in toServer' : m \in toServer \/ (m.id \in Calls /\ message[m.id] = "active")
      PROVE  Goal
  BY <1>2 DEF Sent
<1>3. ASSUME NEW i \in Calls, EnterServlet(i) PROVE Goal
  BY <1>2, <1>3 DEF EnterServlet, clientVars, loopVars, netVars
<1>4. ASSUME NEW i \in Calls, SendEvent(i) PROVE Goal
  BY <1>0, <1>4 DEF SendEvent, send, netVars, Sent
<1>5. ASSUME NEW m \in toClient, Claim(m) \/ Capture(m) \/ Misdeliver(m) PROVE Goal
  <2>1. UNCHANGED <<message, toServer>> /\ toClient' \subseteq toClient
    BY <1>5 DEF Claim, Capture, Misdeliver, Read, Take, clientVars, loopVars
  <2> QED
    BY <1>2, <2>1
<1>6. ASSUME NEW i \in Calls, EraseServlet(i) PROVE Goal
  BY <1>2, <1>6 DEF EraseServlet, clientVars, loopVars, netVars
<1>7. CASE HandleHead
  <2> DEFINE h == Head(newData)
  <2>1. UNCHANGED <<message, toClient>>
    BY <1>7, HandleHeadEffect DEF HandleHead
  <2>2. /\ h.id \in Calls /\ message[h.id] = "active"
        /\ HearACK(h) \/ HearNothingNew(h) \/ HearReset(h) \/ OvertakenACK(h) \/ HearResponsePiece(h)
    BY <1>7 DEF HandleHead, HearACK, HearNothingNew, HearReset, OvertakenACK, HearResponsePiece, Known
  <2>3. \A m \in toServer' : m \in toServer \/ m.id = h.id
    <3>1. CASE HearACK(h)
      BY <1>1, <3>1 DEF HearACK
    <3>2. CASE HearNothingNew(h) \/ OvertakenACK(h)
      BY <3>2 DEF HearNothingNew, OvertakenACK
    <3>3. CASE HearReset(h)
      BY <1>1, <3>3 DEF HearReset
    <3>4. CASE HearResponsePiece(h)
      <4>1. \E a : \/ toServer' = toServer \cup {ResponseACK(h.id, a)}
                   \/ toServer' = toServer \cup {ResponseACK(h.id, a), RequestHeartbeat(h.id)}
        BY <3>4, Zenon DEF HearResponsePiece
      <4> QED
        BY <1>1, <4>1
    <3> QED
      BY <2>2, <3>1, <3>2, <3>3, <3>4
  <2> QED
    BY <1>2, <2>1, <2>2, <2>3
<1>8. CASE Spin \/ EndDrain \/ EndPass
  BY <1>2, <1>8 DEF Spin, EndDrain, EndPass, clientVars, loopVars, netVars
<1>9. ASSUME NEW i \in Calls, TimeOut(i) PROVE Goal
  <2>1. /\ message[i] = "active" /\ UNCHANGED <<message, toClient>>
        /\ toServer' \subseteq toServer \cup {RequestACK(i), RequestHeartbeat(i)}
    BY <1>9 DEF TimeOut, timeout_event, response_timeout_event
  <2> QED
    BY <1>1, <1>2, <2>1
<1>10. ASSUME NEW i \in Calls, ClearTimer(i) PROVE Goal
  <2>1. ASSUME NEW a \in 0 .. ReqPieces, staleTimeout(i, a) PROVE Goal
    BY <1>2, <2>1 DEF staleTimeout, netVars
  <2>2. ASSUME delete_message(i) PROVE Goal
    BY <1>0, <2>2 DEF delete_message, netVars, Sent
  <2> QED
    BY <1>10, <2>1, <2>2 DEF ClearTimer
<1>11. CASE SendOrSleep
  <2>1. CASE Park \/ Sleep
    BY <1>2, <2>1 DEF Park, Sleep, netVars
  <2>2. CASE SendPass
    <3>1. /\ message' = [i \in Calls |-> IF message[i] = "queued" THEN "active" ELSE message[i]]
          /\ toServer' = toServer \cup UNION {Window(i, ack_accept[i]) : i \in {j \in Calls : Sends(j)}}
          /\ toClient' = toClient
      BY <2>2 DEF SendPass
    <3>2. \A i \in Calls : Sends(i) => i \in Sent'
      BY <3>1 DEF Sends, Sent
    <3>3. \A m \in toServer' : m \in toServer \/ m.id \in Sent'
      BY <1>1, <3>1, <3>2
    <3> QED
      BY <1>0, <3>1, <3>3 DEF Sent
  <2> QED
    BY <1>11, <2>1, <2>2 DEF SendOrSleep
<1>12. ASSUME NEW i \in Calls, Work(i) PROVE Goal
  BY <1>2, <1>12 DEF Work, Decode, CallBack, Dismiss, loopVars, netVars
<1> QED
  BY <1>3, <1>4, <1>5, <1>6, <1>7, <1>8, <1>9, <1>10, <1>11, <1>12 DEF LinkNext, LinkProceeds

\* The queue: what is claimed belongs to a sent call, since a refusal has no id and
\* is in no active_queue, and the loop is caught only at an erased message.
LEMMA QueueStep ==
  ASSUME LifeInv, FlightInv, LinkNext
  PROVE  QueueOf(Sent)' /\ active_queue' \subseteq Calls /\ CaughtLate'
<1> DEFINE Goal == QueueOf(Sent)' /\ active_queue' \subseteq Calls /\ CaughtLate'
<1>1. /\ Sent \subseteq Sent'
      /\ \A i \in Calls : message[i] = "erased" => message'[i] = "erased"
  BY LinkEffect
<1>2. PICK S : newData \in Seq(S) /\ AreOf(S, Sent)
  BY DEF FlightInv, QueueOf
<1>3. AreOf(S, Sent')
  BY <1>1, <1>2 DEF AreOf
<1>4. newData # <<>> => Head(newData).id \in Sent /\ Head(newData).id \in Calls
  BY <1>2, HeadTailProperties DEF AreOf, Sent
<1>5. ASSUME UNCHANGED <<newData, spinning>>, active_queue' \subseteq Calls PROVE Goal
  <2>1. QueueOf(Sent)'
    BY <1>2, <1>3, <1>5 DEF QueueOf, AreOf
  <2>2. CaughtLate'
    BY <1>1, <1>4, <1>5 DEF FlightInv, CaughtLate
  <2> QED
    BY <1>5, <2>1, <2>2
<1>6. ASSUME NEW i \in Calls, EnterServlet(i) PROVE Goal
  BY <1>5, <1>6 DEF EnterServlet, queueVars, FlightInv
<1>7. ASSUME NEW i \in Calls, SendEvent(i) \/ Work(i) PROVE Goal
  BY <1>5, <1>7 DEF SendEvent, Work, linkVars, queueVars, mainVars, FlightInv
<1>8. ASSUME NEW m \in toClient, Claim(m) PROVE Goal
  <2>1. m.id \in active_queue /\ active_queue' = active_queue /\ spinning' = spinning
    BY <1>8 DEF Claim, Read
  <2>2. CASE spinning
    BY <1>5, <1>8, <2>1, <2>2 DEF Claim, FlightInv
  <2>3. CASE ~spinning
    <3>1. newData' = Append(newData, m) /\ CaughtLate'
      BY <1>8, <2>1, <2>3 DEF Claim, CaughtLate
    <3>2. m.id \in Sent
      <4>1. m.id \in Calls /\ (m.id \in Sent \/ m = Exhausted)
        BY <2>1 DEF FlightInv, ServerOf
      <4>2. Exhausted.id \notin Calls
        BY DEF Exhausted, Header, Calls
      <4> QED
        BY <4>1, <4>2
    <3>3. newData' \in Seq(S \cup {m})
      BY <1>2, <3>1, SeqMonotonic, AppendProperties
    <3>4. AreOf(S \cup {m}, Sent')
      BY <1>1, <1>3, <3>2 DEF AreOf
    <3>5. QueueOf(Sent)'
      BY <3>3, <3>4 DEF QueueOf, AreOf
    <3> QED
      BY <2>1, <3>1, <3>5 DEF FlightInv
  <2> QED
    BY <2>2, <2>3
<1>9. ASSUME NEW m \in toClient, Capture(m) \/ Misdeliver(m) PROVE Goal
  BY <1>5, <1>9 DEF Capture, Misdeliver, Read, linkVars, mainVars, queueVars, FlightInv
<1>10. ASSUME NEW i \in Calls, EraseServlet(i) PROVE Goal
  BY <1>5, <1>10 DEF EraseServlet, queueVars, FlightInv
<1>11. CASE HandleHead
  <2>1. newData' \in Seq(S) /\ ~spinning' /\ active_queue' = active_queue
    BY <1>2, <1>11, HeadTailProperties DEF HandleHead, Forget
  <2>2. QueueOf(Sent)'
    BY <1>3, <2>1 DEF QueueOf, AreOf
  <2> QED
    BY <2>1, <2>2 DEF CaughtLate, FlightInv
<1>12. CASE Spin
  <2>1. newData # <<>> /\ ~Known(Head(newData)) /\ UNCHANGED <<newData, active_queue, message>>
    BY <1>12 DEF Spin, mainVars, clientVars, loopVars
  <2>2. message'[Head(newData).id] = "erased"
    BY <1>4, <2>1 DEF Known, Sent
  <2>3. QueueOf(Sent)'
    BY <1>2, <1>3, <2>1 DEF QueueOf, AreOf
  <2> QED
    BY <2>1, <2>2, <2>3 DEF CaughtLate, FlightInv
<1>13. CASE EndDrain \/ EndPass
  BY <1>5, <1>13 DEF EndDrain, EndPass, mainVars, FlightInv
<1>14. ASSUME NEW i \in Calls, TimeOut(i) \/ ClearTimer(i) PROVE Goal
  BY <1>5, <1>14 DEF TimeOut, ClearTimer, InTimers, Forget, FlightInv
<1>15. CASE SendOrSleep
  BY <1>5, <1>15 DEF SendOrSleep, linkVars, mainVars, queueVars, FlightInv
<1> QED
  BY <1>6, <1>7, <1>8, <1>9, <1>10, <1>11, <1>12, <1>13, <1>14, <1>15 DEF LinkNext, LinkProceeds

LEMMA FlightInvariant == Spec => []FlightInv
<1>1. Init => FlightInv
  <2> SUFFICES ASSUME Init PROVE FlightInv
    OBVIOUS
  <2>1. newData = << >> /\ ~spinning /\ active_queue = {}
    BY DEF Init, LinkInit
  <2>2. QueueOf(Sent)
    <3>1. newData \in Seq({})
      BY <2>1
    <3> QED
      BY <3>1 DEF QueueOf, AreOf
  <2>3. ServerOf(Sent)
    BY DEF Init, NetInit, SubReactorInit, ServerOf, AreOf
  <2> QED
    BY <2>1, <2>2, <2>3 DEF FlightInv, CaughtLate
<1>2. LifeInv /\ FlightInv /\ [Next]_vars => FlightInv'
  <2> SUFFICES ASSUME LifeInv, FlightInv, [Next]_vars PROVE FlightInv'
    OBVIOUS
  <2>1. CASE LinkNext /\ UNCHANGED serverVars
    <3>1. UNCHANGED <<mainBuffer, tasks, results>>
      BY <2>1 DEF serverVars, requestVars, responseVars
    <3>2. ServerOf(Sent)'
      BY <2>1, <3>1, LinkEffect DEF FlightInv, ServerOf
    <3> QED
      BY <2>1, <3>2, QueueStep DEF FlightInv
  <2>2. ASSUME UNCHANGED <<clientVars, linkVars>>, ServerOf(Sent)' PROVE FlightInv'
    <3>1. UNCHANGED <<message, newData, spinning, active_queue>>
      BY <2>2 DEF clientVars, loopVars, linkVars, mainVars, queueVars
    <3> QED
      BY <2>2, <3>1 DEF FlightInv, QueueOf, AreOf, CaughtLate, Sent
  <2>3. CASE SubReactorNext /\ UNCHANGED <<clientVars, linkVars>>
    <3>1. Sent' = Sent
      BY <2>3 DEF Sent, clientVars, loopVars
    <3>2. \A G : ServerOf(G) => ServerOf(G)'
      BY <2>3, ServerStepOf
    <3>3. ServerOf(Sent)'
      BY <3>1, <3>2 DEF FlightInv, ServerOf
    <3> QED
      BY <2>2, <2>3, <3>3
  <2>4. CASE Lose /\ UNCHANGED <<clientVars, linkVars, serverVars>>
    <3>1. UNCHANGED <<message, mainBuffer, tasks, results>>
      BY <2>4 DEF clientVars, loopVars, serverVars, requestVars, responseVars
    <3>2. toServer' \subseteq toServer /\ toClient' \subseteq toClient
      BY <2>4 DEF Lose
    <3>3. ServerOf(Sent)'
      BY <3>1, <3>2 DEF FlightInv, ServerOf, Sent
    <3> QED
      BY <2>2, <2>4, <3>3
  <2>5. CASE UNCHANGED vars
    <3>1. UNCHANGED <<message, mainBuffer, tasks, results, toServer, toClient>>
      BY <2>5 DEF vars, clientVars, loopVars, serverVars, requestVars, responseVars, netVars
    <3>2. ServerOf(Sent)'
      BY <3>1 DEF FlightInv, ServerOf, Sent
    <3> QED
      BY <2>2, <2>5, <3>2 DEF vars
  <2> QED
    BY <2>1, <2>3, <2>4, <2>5 DEF Next
<1> QED
  BY <1>1, <1>2, LifeInvariant, PTL DEF Spec

\* The loop is caught, and keeps queue_mtx from the main reactor, only by a datagram
\* that comes after the callback of its call (transmitter_link_reactor.cpp:85).
THEOREM LateAnswersSpin == Spec => []OnlyLateAnswersSpin
<1>1. LifeInv /\ FlightInv => OnlyLateAnswersSpin
  <2> SUFFICES ASSUME LifeInv, FlightInv, spinning PROVE outcome[Head(newData).id] # "none"
    BY DEF OnlyLateAnswersSpin
  <2>1. newData # <<>> /\ message[Head(newData).id] = "erased"
    BY DEF FlightInv, CaughtLate
  <2>2. Head(newData).id \in Calls
    BY <2>1, HeadTailProperties DEF FlightInv, QueueOf, AreOf, Sent
  <2> QED
    BY <2>1, <2>2 DEF LifeInv, LifeOf
<1> QED
  BY <1>1, LifeInvariant, FlightInvariant, PTL

\* The main reactor takes the called server for a new client only because of a
\* refusal or of an answer that comes after its call was triggered
\* (reactor.cpp:128-147): the first call to a server never loses its own answers.
THEOREM LateAnswersCapture == Spec => OnlyLateAnswersCapture
<1> DEFINE Late == \A m \in toClient : Capture(m) => m = Exhausted \/ triggered[m.id]
<1>1. LifeInv /\ FlightInv => Late
  <2> SUFFICES ASSUME LifeInv, FlightInv, NEW m \in toClient, Capture(m), m # Exhausted
               PROVE  triggered[m.id]
    BY DEF Late
  <2>1. m.id \in Sent /\ m.id \notin active_queue
    BY DEF FlightInv, ServerOf, Capture
  <2> QED
    BY <2>1 DEF LifeInv, LifeOf, Sent
<1>2. LifeInv /\ FlightInv /\ [Next]_vars => [Late]_vars
  BY <1>1
<1> QED
  BY <1>2, LifeInvariant, FlightInvariant, PTL DEF Spec, OnlyLateAnswersCapture
--------------------------------------------------------------------------------
(***************************************************************************)
(* What the Transmitter's callers are promised holds for the calls of a    *)
(* server too: the datagrams that the loop hands to the handlers are those *)
(* of its queue, which come true or not with the ones on their way.        *)
(***************************************************************************)

\* The datagrams that the main reactor claimed and the loop has not handled.
Claimed == {newData[k] : k \in 1 .. Len(newData)}

LEMMA ClaimedType ==
  ASSUME LinkTypeOK
  PROVE  /\ Claimed \subseteq FromServer(Data \ {NoData})
         /\ newData # <<>> => Head(newData) \in Claimed
<1>1. newData \in Seq(FromServer(Data \ {NoData}))
  BY DEF LinkTypeOK
<1>2. Claimed \subseteq FromServer(Data \ {NoData})
  BY <1>1, ElementOfSeq DEF Claimed
<1>3. ASSUME newData # <<>> PROVE Head(newData) \in Claimed
  <2>1. Len(newData) \in Nat \ {0} /\ Head(newData) = newData[1]
    BY <1>1, <1>3, EmptySeq
  <2> QED
    BY <2>1 DEF Claimed
<1> QED
  BY <1>2, <1>3

\* Every step of the calling server is one of the client that handles what was
\* claimed, and claims no more than what is on its way.
LEMMA LinkMoves ==
  ASSUME TypeOK, LinkNext
  PROVE  ClientMoves(Claimed) /\ Claimed' \subseteq Claimed \cup toClient
<1> DEFINE Goal == ClientMoves(Claimed) /\ Claimed' \subseteq Claimed \cup toClient
<1>1. /\ newData \in Seq(FromServer(Data \ {NoData}))
      /\ toClient \subseteq FromServer(Data \ {NoData})
  BY DEF TypeOK, LinkTypeOK, NetTypeOK
<1>2. ASSUME UNCHANGED clientVars, UNCHANGED toServer PROVE ClientMoves(Claimed)
  BY <1>2 DEF ClientMoves, Rests, clientVars, loopVars
<1>3. ASSUME UNCHANGED newData PROVE Claimed' \subseteq Claimed \cup toClient
  BY <1>3 DEF Claimed
<1>4. ASSUME NEW i \in Calls, EnterServlet(i) \/ EraseServlet(i) PROVE Goal
  BY <1>2, <1>3, <1>4 DEF EnterServlet, EraseServlet, queueVars, netVars
<1>5. ASSUME NEW m \in toClient, Capture(m) \/ Misdeliver(m) PROVE Goal
  BY <1>2, <1>3, <1>5 DEF Capture, Misdeliver, Read, linkVars, queueVars
<1>6. ASSUME NEW m \in toClient, Claim(m) PROVE Goal
  <2>1. ClientMoves(Claimed)
    BY <1>2, <1>6 DEF Claim, Read
  <2>2. CASE newData' = Append(newData, m)
    <3>1. /\ Len(newData') = Len(newData) + 1 /\ newData'[Len(newData) + 1] = m
          /\ \A k \in 1 .. Len(newData) : newData'[k] = newData[k]
          /\ Len(newData) \in Nat
      BY <1>1, <2>2, AppendProperties, LenProperties
    <3> QED
      BY <2>1, <3>1 DEF Claimed
  <2> QED
    BY <1>3, <1>6, <2>1, <2>2 DEF Claim
<1>7. CASE HandleHead
  <2> DEFINE m == Head(newData)
  <2>1. newData # <<>> /\ newData' = Tail(newData) /\ Hears(m)
    BY <1>7 DEF HandleHead, Hears
  <2>2. ClientMoves(Claimed)
    BY <2>1, ClaimedType DEF TypeOK, ClientMoves
  <2>3. /\ Len(newData') = Len(newData) - 1 /\ Len(newData) \in Nat
        /\ \A k \in 1 .. Len(newData') : newData'[k] = newData[k + 1]
    BY <1>1, <2>1, HeadTailProperties, LenProperties
  <2>4. Claimed' \subseteq Claimed
    BY <2>3 DEF Claimed
  <2> QED
    BY <2>2, <2>4
<1>8. CASE Spin \/ EndDrain
  BY <1>2, <1>3, <1>8 DEF Spin, EndDrain, netVars
<1>9. CASE EndPass
  BY <1>3, <1>9 DEF EndPass, ClientMoves, Rests, netVars
<1>10. ASSUME NEW i \in Calls, SendEvent(i) PROVE Goal
  BY <1>3, <1>10 DEF SendEvent, linkVars, queueVars, ClientMoves
<1>11. ASSUME NEW i \in Calls, TimeOut(i) \/ ClearTimer(i) PROVE Goal
  BY <1>3, <1>11 DEF TimeOut, ClearTimer, InTimers, TimerRuns, ClientMoves
<1>12. CASE SendOrSleep
  <2>1. ClientMoves(Claimed)
    BY <1>12 DEF SendOrSleep, Park, Sleep, netVars, Rests, ClientMoves
  <2> QED
    BY <1>3, <1>12, <2>1 DEF SendOrSleep, linkVars, queueVars
<1>13. ASSUME NEW i \in Calls, Work(i) PROVE Goal
  BY <1>3, <1>13 DEF Work, Works, linkVars, queueVars, ClientMoves
<1> QED
  BY <1>4, <1>5, <1>6, <1>7, <1>8, <1>9, <1>10, <1>11, <1>12, <1>13 DEF LinkNext, LinkProceeds

\* A step of the composition is one of the two ends, with what was claimed for the
\* datagrams that the loop may handle.
LEMMA LinkStep ==
  ASSUME TypeOK, LifeInv, [Next]_vars
  PROVE  /\ EndsTyped /\ Claimed \subseteq FromServer(Data \ {NoData})
         /\ EndsStep(Claimed)
         /\ Claimed' \subseteq Claimed \cup toClient
<1>1. EndsTyped /\ Claimed \subseteq FromServer(Data \ {NoData})
  BY ClaimedType DEF TypeOK, EndsTyped
<1>2. CASE LinkNext /\ UNCHANGED serverVars
  BY <1>1, <1>2, LinkMoves, LinkEffect DEF EndsStep
<1>3. ASSUME UNCHANGED <<clientVars, linkVars>> PROVE Claimed' = Claimed
  BY <1>3 DEF Claimed, linkVars, queueVars
<1>4. CASE SubReactorNext /\ UNCHANGED <<clientVars, linkVars>>
  BY <1>1, <1>3, <1>4 DEF EndsStep
<1>5. CASE Lose /\ UNCHANGED <<clientVars, linkVars, serverVars>>
  BY <1>1, <1>3, <1>5, BothRest DEF Lose
<1>6. CASE UNCHANGED vars
  BY <1>1, <1>3, <1>6, BothRest DEF vars, netVars
<1> QED
  BY <1>2, <1>4, <1>5, <1>6 DEF Next

\* LifeInv keeps the callbacks' order as the Transmitter's does.
LEMMA LifeOrdersCallbacks ==
  ASSUME TypeOK, LifeInv
  PROVE  CallbackInv
BY Zenon DEF TypeOK, TransmitterTypeOK, LifeInv, LifeOf, CallbackInv

\* A call that the server is still sending is never left without a clock, though
\* its answers take the way through the main reactor and the queue.
THEOREM LinkRequestClock == Spec => []RequestKeepsTimer
<1>1. Init => ClockInv
  BY ClockInit DEF Init
<1>2. TypeOK /\ LifeInv /\ ClockInv /\ [Next]_vars => ClockInv'
  BY LinkStep, ClockStep
<1>3. ClockInv => RequestKeepsTimer
  BY DEF ClockInv, Clocked, RequestKeepsTimer
<1> QED
  BY <1>1, <1>2, <1>3, LinkTyped, LifeInvariant, PTL DEF Spec
--------------------------------------------------------------------------------
\* What was claimed stays true while it waits.
ClaimedInv ==
  /\ NothingForgotten => ShowStored(Claimed)
  /\ NothingForgotten /\ reuses = 0 => ShowFirst(Claimed)

LEMMA ClaimedStep ==
  ASSUME TypeOK, LifeInv, RequestInv, FirstExecutionInv, ClaimedInv, [Next]_vars
  PROVE  ClaimedInv'
<1>1. NetTypeOK /\ SubReactorTypeOK /\ Claimed \subseteq FromServer(Data \ {NoData})
  BY ClaimedType DEF TypeOK
<1>2. Claimed' \subseteq Claimed \cup toClient
  BY LinkStep
<1>3. NothingForgotten => ShowStored(Claimed \cup toClient)
  BY DEF ClaimedInv, RequestInv, StoredInv, AcksCoverStored, OnlyExecuted, ShowStored
<1>4. NothingForgotten /\ reuses = 0 => ShowFirst(Claimed \cup toClient)
  BY DEF ClaimedInv, FirstExecutionInv, FirstInFlight, ShowFirst
<1>5. CASE UNCHANGED serverVars
  <2>1. UNCHANGED <<piece_state, executions, expiries, restarts, reuses>>
    BY <1>5 DEF serverVars, requestVars, boundVars
  <2> QED
    BY <1>2, <1>3, <1>4, <2>1 DEF ClaimedInv, NothingForgotten, ShowStored, ShowFirst
<1>6. CASE SubReactorNext /\ UNCHANGED <<clientVars, linkVars>>
  <2>1. Claimed' = Claimed
    BY <1>6 DEF Claimed, linkVars, queueVars
  <2>2. ASSUME NothingForgotten' PROVE ShowStored(Claimed)'
    <3>1. /\ NothingForgotten
          /\ \A i \in Calls : piece_state[i] \subseteq piece_state'[i]
          /\ \A i \in Calls : executions[i] > 0 => executions'[i] > 0
      BY <1>1, <1>6, <2>2, ServerForgetsNothing
    <3> QED
      BY <1>1, <1>3, <2>1, <3>1, FromServerFields DEF ShowStored
  <2>3. ASSUME NothingForgotten', reuses' = 0 PROVE ShowFirst(Claimed)'
    <3>1. NothingForgotten /\ reuses = 0
      BY <1>1, <1>6, <2>3, ServerForgetsNothing, ReusesOnlyGrow
    <3> QED
      BY <1>4, <2>1, <3>1 DEF ShowFirst
  <2> QED
    BY <2>2, <2>3 DEF ClaimedInv
<1> QED
  BY <1>5, <1>6 DEF Next, vars

\* All of it holds in every reachable state.
LEMMA CallInvariant ==
  Spec => [](RequestInv /\ SentFirst /\ TriggeredOnce /\ FirstExecutionInv /\ ClaimedInv)
<1>1. Init => RequestInv /\ SentFirst /\ TriggeredOnce /\ FirstExecutionInv /\ ClaimedInv
  <2> SUFFICES ASSUME Init
               PROVE  RequestInv /\ SentFirst /\ TriggeredOnce /\ FirstExecutionInv /\ ClaimedInv
    OBVIOUS
  <2>1. RequestInv /\ SentFirst /\ TriggeredOnce /\ FirstExecutionInv
    BY RequestInit, FirstInit DEF Init
  <2>2. Claimed = {}
    BY DEF Init, LinkInit, Claimed
  <2> QED
    BY <2>1, <2>2 DEF ClaimedInv, ShowStored, ShowFirst
<1>2. /\ TypeOK /\ LifeInv
      /\ RequestInv /\ SentFirst /\ TriggeredOnce /\ FirstExecutionInv /\ ClaimedInv
      /\ [Next]_vars
      => (RequestInv /\ SentFirst /\ TriggeredOnce /\ FirstExecutionInv /\ ClaimedInv)'
  <2> SUFFICES ASSUME TypeOK, LifeInv, RequestInv, SentFirst, TriggeredOnce, FirstExecutionInv,
                      ClaimedInv, [Next]_vars
               PROVE  /\ RequestInv' /\ SentFirst' /\ TriggeredOnce' /\ FirstExecutionInv'
                      /\ ClaimedInv'
    OBVIOUS
  <2>1. /\ EndsTyped /\ CallbackInv /\ EndsStep(Claimed)
        /\ Claimed \subseteq FromServer(Data \ {NoData})
    BY LinkStep, LifeOrdersCallbacks
  <2>2. ClaimedInv'
    BY ClaimedStep
  <2>3. RequestInv' /\ SentFirst' /\ TriggeredOnce'
    BY <2>1, RequestStep, SentStep, TriggeredOnceStep DEF ClaimedInv
  <2>4. FirstExecutionInv'
    BY <2>1, FirstStep DEF ClaimedInv
  <2> QED
    BY <2>2, <2>3, <2>4
<1> QED
  BY <1>1, <1>2, LinkTyped, LifeInvariant, PTL DEF Spec

\* A server that calls another one believes acknowledged only what that one
\* stored, as long as the called server forgets nothing.
THEOREM LinkAcknowledgedIsStored == Spec => []AcknowledgedIsStored
<1>1. RequestInv => AcknowledgedIsStored
  BY DEF RequestInv, NothingForgotten, AcceptCoversStored, AcknowledgedIsStored
<1> QED
  BY <1>1, CallInvariant, PTL

\* The called server never takes for delivered what the calling one did not store,
\* even if the loop is caught or the main reactor lost the answers.
THEOREM LinkDeliveredIsReceived == Spec => []DeliveredIsReceived
<1>1. Init => ResponseInv
  BY ResponseInit DEF Init
<1>2. TypeOK /\ LifeInv /\ ResponseInv /\ [Next]_vars => ResponseInv'
  BY LinkStep, ResponseStep
<1>3. ResponseInv => DeliveredIsReceived
  BY DEF ResponseInv
<1> QED
  BY <1>1, <1>2, <1>3, LinkTyped, LifeInvariant, PTL DEF Spec

\* The calls that a server makes keep what RpcCall promises as the Transmitter's
\* do, as long as the called server forgets nothing and no freed buffer is reused,
\* whatever becomes of late answers.
THEOREM LinkRpcCallIsImplemented ==
  Spec /\ [](NothingForgotten /\ reuses = 0) => ImplementsRpcCall
<1>1. Init => RPC!Init
  BY FirstInit DEF Init
<1>2. /\ TypeOK /\ TypeOK' /\ LifeInv /\ SentFirst
      /\ FirstExecutionInv /\ FirstExecutionInv'
      /\ (NothingForgotten /\ reuses = 0) /\ (NothingForgotten /\ reuses = 0)'
      /\ [Next]_vars
      => [RPC!Next]_(RPC!vars)
  <2> SUFFICES ASSUME TypeOK, TypeOK', LifeInv, SentFirst, FirstReceived, FirstReceived',
                      [Next]_vars
               PROVE  [RPC!Next]_(RPC!vars)
    BY DEF FirstExecutionInv
  <2>1. EndsTyped /\ EndsTyped' /\ CallbackInv /\ EndsStep(Claimed)
    BY LinkStep, LifeOrdersCallbacks DEF TypeOK, EndsTyped
  <2> QED
    BY <2>1, StepOfRpcCall
<1> QED
  BY <1>1, <1>2, LinkTyped, LifeInvariant, CallInvariant, PTL
  DEF Spec, ImplementsRpcCall, RPC!Spec
================================================================================
