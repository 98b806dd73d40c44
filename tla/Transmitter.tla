------------------------------ MODULE Transmitter ------------------------------
(***************************************************************************)
(* The asynchronous client: Transmitter keeps many calls in flight on one  *)
(* socket.  send puts a message into the map, the loop's thread sends the  *)
(* windows of requests, handles datagrams and runs at most one timer a     *)
(* pass, workers of its pool run the callbacks, and stop waits for the map *)
(* to become empty.                                                        *)
(*                                                                         *)
(* message_id comes from GlobalTransmitterId, a counter under a mutex: the *)
(* model numbers the calls.  Ticks are not modelled: a datagram either     *)
(* arrives in the same millisecond as the one before it, which leaves the  *)
(* response timers valid, or in a later one, which makes them stale.  A    *)
(* timer that is set may be found due in every pass.                       *)
(*                                                                         *)
(* The map is read and changed without a lock by send, loop and stop; the  *)
(* model takes each of these accesses as one step.  A pass of the loop that *)
(* would neither send nor wait is left out: the loop stays in "receive".   *)
(***************************************************************************)
EXTENDS SR2PMessages

CONSTANTS
  try_time,     \* Transmitter::try_time
  MaxTimers,    \* bound: equal timers of a message that are told apart
  MaxRefusals   \* bound: tasks the transmitter's pool refuses

ASSUME TransmitterAssumption ==
  try_time \in Nat \ {0} /\ MaxTimers \in Nat \ {0} /\ MaxRefusals \in Nat

VARIABLES
  loopPc,       \* the loop: "test", "parking", "asleep", "receive", "stuck", "ended"
  run_state,    \* cleared by stop when it returns
  message,      \* per call: "new", "queued" (last_active is 0), "active", "erased"
  phase,        \* TransmitterTask::phase
  ack_accept, ack_expect, timeout_time,
  requestTimers,  \* per call and cur_ack: timeout_event timers set
  responseTimers, \* per call: response_timeout_event timers for its last_active
  piece_data,   \* ResponseData: what is stored per piece
  isSuccess,    \* ResponseData::isSuccess
  triggered,    \* TransmitterTask::is_trigger
  callback,     \* trigger: "none", "committed", "decoded", "raw", "called" or "done"
  outcome,      \* what the callback was given, "none" while it was not called
  erasing,      \* calls with a delete_message timer
  refusals      \* how often the bound was used

loopVars == <<loopPc, run_state, message>>
taskVars == <<phase, ack_accept, ack_expect, timeout_time>>
timerVars == <<requestTimers, responseTimers, erasing>>
triggerVars == <<isSuccess, triggered, callback, outcome, refusals>>
clientVars == <<loopVars, taskVars, timerVars, piece_data, triggerVars>>

TransmitterInit ==
  /\ loopPc = "test"
  /\ run_state = TRUE
  /\ message = [i \in Calls |-> "new"]
  /\ phase = [i \in Calls |-> "Request"]
  /\ ack_accept = [i \in Calls |-> 0]
  /\ ack_expect = [i \in Calls |-> 0]
  /\ timeout_time = [i \in Calls |-> 0]
  /\ requestTimers = [i \in Calls |-> [a \in 0 .. ReqPieces |-> 0]]
  /\ responseTimers = [i \in Calls |-> 0]
  /\ piece_data = [i \in Calls |-> [k \in Orders(RespPieces) |-> NoData]]
  /\ isSuccess = [i \in Calls |-> FALSE]
  /\ triggered = [i \in Calls |-> FALSE]
  /\ callback = [i \in Calls |-> "none"]
  /\ outcome = [i \in Calls |-> "none"]
  /\ erasing = {}
  /\ refusals = 0

\* The worker's steps, and what the callback may be given: "undecoded" is
\* isSuccess with data that did not pass ClientIn.
CallbackSteps == {"none", "committed", "decoded", "raw", "called", "done"}
Outcomes == {"none", "OK", "undecoded", "failed"}

TransmitterTypeOK ==
  /\ loopPc \in {"test", "parking", "asleep", "receive", "stuck", "ended"}
  /\ run_state \in BOOLEAN
  /\ message \in [Calls -> {"new", "queued", "active", "erased"}]
  /\ phase \in [Calls -> {"Request", "Response"}]
  /\ ack_accept \in [Calls -> 0 .. ReqPieces]
  /\ ack_expect \in [Calls -> 0 .. ReqPieces]
  /\ timeout_time \in [Calls -> 0 .. try_time + 1]
  /\ requestTimers \in [Calls -> [0 .. ReqPieces -> 0 .. MaxTimers]]
  /\ responseTimers \in [Calls -> 0 .. MaxTimers]
  /\ piece_data \in [Calls -> [Orders(RespPieces) -> Data]]
  /\ isSuccess \in [Calls -> BOOLEAN]
  /\ triggered \in [Calls -> BOOLEAN]
  /\ callback \in [Calls -> CallbackSteps]
  /\ outcome \in [Calls -> Outcomes]
  /\ erasing \subseteq Calls
  /\ refusals \in 0 .. MaxRefusals

\* The messages the map holds.
Present == {i \in Calls : message[i] \in {"queued", "active"}}

Stored(pieces, i) == {k \in Orders(RespPieces) : pieces[i][k] # NoData}
OneMore(count) == IF count < MaxTimers THEN count + 1 ELSE count
--------------------------------------------------------------------------------
\* The callers.

\* notify_one wakes the loop if it sleeps; a loop between its test and its sleep
\* does not hear it, since neither send nor stop takes condition_mtx.
Notified == IF loopPc = "asleep" THEN "test" ELSE loopPc

\* A message is put into the map.
send(i) ==
  /\ message[i] = "new"
  /\ \A j \in Calls : j < i => message[j] # "new"
  /\ message' = [message EXCEPT ![i] = "queued"]
  /\ loopPc' = Notified
  /\ UNCHANGED <<run_state, taskVars, timerVars, piece_data, triggerVars, netVars>>

\* Mutant of NothingLeft: only messages that were sent are waited for.
NothingActive == \A i \in Calls : message[i] # "active"

NothingLeft == Present = {}

\* stop, called after the last send, polls the map until it is empty; this step
\* is the rest of it.
stop ==
  /\ run_state
  /\ \A i \in Calls : message[i] # "new"
  /\ NothingLeft
  /\ run_state' = FALSE
  /\ loopPc' = Notified
  /\ UNCHANGED <<message, taskVars, timerVars, piece_data, triggerVars, netVars>>
--------------------------------------------------------------------------------
\* The loop: sending.

\* The predicate of the wait fails; the loop goes to sleep in two steps.
Park ==
  /\ loopPc = "test"
  /\ run_state
  /\ Present = {}
  /\ loopPc' = "parking"
  /\ UNCHANGED <<run_state, message, taskVars, timerVars, piece_data, triggerVars,
                 netVars>>

Sleep ==
  /\ loopPc = "parking"
  /\ loopPc' = "asleep"
  /\ UNCHANGED <<run_state, message, taskVars, timerVars, piece_data, triggerVars,
                 netVars>>

EndLoop ==
  /\ loopPc = "test"
  /\ ~run_state
  /\ loopPc' = "ended"
  /\ UNCHANGED <<run_state, message, taskVars, timerVars, piece_data, triggerVars,
                 netVars>>

\* send_data: the orders of the window that starts at ack, and where it ends.
WindowEnd(ack) ==
  IF ack + getSendCount(ReqPieces) < ReqPieces
    THEN ack + getSendCount(ReqPieces)
    ELSE ReqPieces
Window(i, ack) == {RequestPiece(i, k) : k \in {j \in Orders(ReqPieces) :
                                                 ack <= j /\ j < WindowEnd(ack)}}

\* Something of the window that was sent last is acknowledged.
Acknowledged(i) == ack_accept[i] > ack_expect[i] - getSendCount(ReqPieces)

\* Messages that the pass sends: for the first time, or the next window.
Sends(i) ==
  \/ message[i] = "queued"
  \/ /\ message[i] = "active"
     /\ phase[i] = "Request"
     /\ timeout_time[i] < try_time
     /\ Acknowledged(i)

\* Where the loop goes on when it leaves the socket and the timers.
NextPass ==
  IF Present = {} \/ \E i \in Calls : Sends(i) THEN "test" ELSE "receive"

\* Mutant of SetRequestTimer: the timer of a window is left out.
SetNoTimer(i, ack) == requestTimers[i]

\* timer.setTimeout of timeout_event for ack.
SetRequestTimer(i, ack) == [requestTimers[i] EXCEPT ![ack] = OneMore(@)]

\* A pass of the loop over the messages, each with a timer for its window.
SendPass ==
  /\ loopPc = "test"
  /\ run_state
  /\ Present # {}
  /\ loopPc' = "receive"
  /\ toServer' = toServer \cup
       UNION {Window(i, ack_accept[i]) : i \in {j \in Calls : Sends(j)}}
  /\ message' = [i \in Calls |-> IF message[i] = "queued" THEN "active" ELSE message[i]]
  /\ ack_expect' =
       [i \in Calls |-> IF Sends(i) THEN WindowEnd(ack_accept[i]) ELSE ack_expect[i]]
  /\ requestTimers' =
       [i \in Calls |-> IF Sends(i) THEN SetRequestTimer(i, ack_accept[i])
                                    ELSE requestTimers[i]]
  /\ UNCHANGED <<run_state, phase, ack_accept, timeout_time, responseTimers, erasing,
                 piece_data, triggerVars, toClient, dups, losses>>
--------------------------------------------------------------------------------
\* try_trigger.

Verdict(i) == IF isSuccess'[i] THEN "OK" ELSE "failed"

\* Mutant of NotTriggered: is_trigger is not looked at.
NotTriggeredUnchecked(i) == TRUE

NotTriggered(i) == ~triggered[i]

\* The first one commits trigger to the pool.  When the pool refuses it, a thread
\* runs it and the future's destructor waits for that thread.
try_trigger(i) ==
  IF NotTriggered(i)
    THEN /\ triggered' = [triggered EXCEPT ![i] = TRUE]
         /\ \/ /\ callback' = [callback EXCEPT ![i] = "committed"]
               /\ UNCHANGED <<outcome, refusals, erasing>>
            \/ /\ refusals < MaxRefusals
               /\ refusals' = refusals + 1
               /\ callback' = [callback EXCEPT ![i] = "done"]
               /\ outcome' = [outcome EXCEPT ![i] = Verdict(i)]
               /\ erasing' = erasing \cup {i}
    ELSE UNCHANGED <<triggered, callback, outcome, refusals, erasing>>

\* The same in a timer: the loop holds timer_mtx, which trigger needs to set the
\* delete_message timer, so a refused task leaves both threads waiting for ever.
try_triggerInTimer(i) ==
  IF NotTriggered(i)
    THEN /\ triggered' = [triggered EXCEPT ![i] = TRUE]
         /\ \/ /\ callback' = [callback EXCEPT ![i] = "committed"]
               /\ loopPc' = NextPass'
               /\ UNCHANGED <<outcome, refusals>>
            \/ /\ refusals < MaxRefusals
               /\ refusals' = refusals + 1
               /\ callback' = [callback EXCEPT ![i] = "called"]
               /\ outcome' = [outcome EXCEPT ![i] = Verdict(i)]
               /\ loopPc' = "stuck"
    ELSE loopPc' = NextPass' /\ UNCHANGED <<triggered, callback, outcome, refusals>>
--------------------------------------------------------------------------------
\* The loop: receiving, until the socket stays silent for recv_gap.

\* Mutant of Known: a message leaves the map when it is triggered.
KnownUntriggered(m) ==
  m.id \in Calls /\ message[m.id] = "active" /\ ~triggered[m.id]

\* The map holds the message of the datagram; Exhausted has the id of none.
Known(m) == m.id \in Calls /\ message[m.id] = "active"

\* What a datagram of a known message does first: it clears timeout_time, and
\* the response timers go stale unless it comes in the tick of the last one.
Heard(i) ==
  /\ timeout_time' = [timeout_time EXCEPT ![i] = 0]
  /\ responseTimers' = [responseTimers EXCEPT ![i] = 0] \/ UNCHANGED responseTimers

\* Heard, and then response_timeout_event, which sets the timer of this tick.
Awaited(i) ==
  /\ timeout_time' = [timeout_time EXCEPT ![i] = 1]
  /\ \E valid \in {0, responseTimers[i]} :
       responseTimers' = [responseTimers EXCEPT ![i] = OneMore(valid)]

\* A datagram of an unknown message.
IgnoreUnknown(m) ==
  /\ ~Known(m)
  /\ UNCHANGED <<loopVars, taskVars, timerVars, piece_data, triggerVars, toServer>>

\* Mutant of Accepted: the order in an acknowledgement taken for the last stored.
AcceptedLast(m) == m.order + 1

\* What an acknowledgement says is stored: the orders below its own.
Accepted(m) == m.order

\* Request phase: an acknowledgement that moves ack_accept.
HearACK(m) ==
  /\ Known(m)
  /\ m.phase = "Request" /\ m.type = "ReceiverACK"
  /\ Accepted(m) > ack_accept[m.id]
  /\ ack_accept' = [ack_accept EXCEPT ![m.id] = Accepted(m)]
  /\ IF Accepted(m) = ReqPieces
       THEN /\ phase' = [phase EXCEPT ![m.id] = "Response"]
            /\ Awaited(m.id)
            /\ toServer' = toServer \cup {RequestHeartbeat(m.id)}
       ELSE Heard(m.id) /\ UNCHANGED <<phase, toServer>>
  /\ UNCHANGED <<loopVars, ack_expect, requestTimers, erasing, piece_data, triggerVars>>

\* An acknowledgement that is not larger, or a heartbeat.
HearNothingNew(m) ==
  /\ Known(m)
  /\ m.phase = "Request"
  /\ \/ m.type = "ReceiverACK" /\ Accepted(m) <= ack_accept[m.id]
     \/ m.type = "TimedOutResponseHeartbeat"
  /\ Heard(m.id)
  /\ UNCHANGED <<loopVars, phase, ack_accept, ack_expect, requestTimers, erasing,
                 piece_data, triggerVars, toServer>>

\* StateReset: the request starts again from its first window; the phase stays.
HearReset(m) ==
  /\ Known(m)
  /\ m.phase = "Request" /\ m.type = "StateReset"
  /\ Heard(m.id)
  /\ ack_accept' = [ack_accept EXCEPT ![m.id] = 0]
  /\ ack_expect' = [ack_expect EXCEPT ![m.id] = WindowEnd(0)]
  /\ toServer' = toServer \cup Window(m.id, 0)
  /\ requestTimers' = [requestTimers EXCEPT ![m.id][0] = OneMore(@)]
  /\ UNCHANGED <<loopVars, phase, erasing, piece_data, triggerVars>>

\* A piece of the response that comes before the last acknowledgement only ends
\* the request phase: it is neither stored nor acknowledged, no timer is set.
OvertakenACK(m) ==
  /\ Known(m)
  /\ m.phase = "Response"
  /\ phase[m.id] = "Request"
  /\ Heard(m.id)
  /\ phase' = [phase EXCEPT ![m.id] = "Response"]
  /\ ack_accept' = [ack_accept EXCEPT ![m.id] = ReqPieces]
  /\ UNCHANGED <<loopVars, ack_expect, requestTimers, erasing, piece_data,
                 triggerVars, toServer>>

\* Mutant of Complete: one piece is forgotten.
CompleteButOne(got) == getAckNumber(got, RespPieces) >= RespPieces - 1

Complete(got) == getAckNumber(got, RespPieces) = RespPieces

\* A piece of the response: stored if new, acknowledged, and the one that
\* completes the response triggers the callback.
HearResponsePiece(m) ==
  LET pieces == [piece_data EXCEPT ![m.id][m.order] =
                   IF @ = NoData THEN m.data ELSE @]
      got == Stored(pieces, m.id)
  IN  /\ Known(m)
      /\ m.phase = "Response"
      /\ phase[m.id] = "Response"
      /\ piece_data' = pieces
      /\ IF Complete(got)
           THEN /\ Heard(m.id)
                /\ isSuccess' = [isSuccess EXCEPT ![m.id] = TRUE]
                /\ toServer' = toServer \cup
                     {ResponseACK(m.id, getAckNumber(got, RespPieces))}
                /\ try_trigger(m.id)
           ELSE /\ Awaited(m.id)
                /\ toServer' = toServer \cup
                     {ResponseACK(m.id, getAckNumber(got, RespPieces)),
                      RequestHeartbeat(m.id)}
                /\ UNCHANGED <<triggerVars, erasing>>
      /\ UNCHANGED <<loopVars, phase, ack_accept, ack_expect, requestTimers>>

TransmitterReceive(m) ==
  /\ loopPc = "receive"
  /\ Take(toClient, m, toClient')
  /\ \/ IgnoreUnknown(m) \/ HearACK(m) \/ HearNothingNew(m) \/ HearReset(m)
     \/ OvertakenACK(m) \/ HearResponsePiece(m)
  /\ UNCHANGED losses
--------------------------------------------------------------------------------
\* The loop: the socket is silent, one timer that is due is run.

\* timeout_time counts no further than one beyond try_time.
OneTimeoutMore(i) == IF timeout_time[i] > try_time THEN timeout_time[i] ELSE timeout_time[i] + 1

\* timeout_event for the window at a, while nothing moved ack_accept since.
timeout_event(i, a) ==
  /\ loopPc = "receive"
  /\ message[i] = "active"
  /\ requestTimers[i][a] > 0
  /\ ack_accept[i] = a /\ a # ReqPieces
  /\ UNCHANGED <<run_state, message, phase, ack_accept, ack_expect, responseTimers,
                 erasing, piece_data, toClient, dups, losses>>
  /\ timeout_time' = [timeout_time EXCEPT ![i] = OneTimeoutMore(i)]
  /\ IF timeout_time'[i] > try_time
       THEN /\ requestTimers' = [requestTimers EXCEPT ![i][a] = @ - 1]
            /\ isSuccess' = [isSuccess EXCEPT ![i] = FALSE]
            /\ try_triggerInTimer(i)
            /\ UNCHANGED toServer
       ELSE /\ toServer' = toServer \cup {RequestACK(i)}
            /\ loopPc' = NextPass'
            /\ UNCHANGED <<requestTimers, triggerVars>>

\* A timer whose window was acknowledged.
staleTimeout(i, a) ==
  /\ loopPc = "receive"
  /\ message[i] = "active"
  /\ requestTimers[i][a] > 0
  /\ ack_accept[i] # a \/ a = ReqPieces
  /\ requestTimers' = [requestTimers EXCEPT ![i][a] = @ - 1]
  /\ UNCHANGED <<run_state, message, taskVars, responseTimers, erasing, piece_data,
                 triggerVars, netVars>>
  /\ loopPc' = NextPass'

\* response_timeout_event: nothing came since the timer was set.
response_timeout_event(i) ==
  /\ loopPc = "receive"
  /\ message[i] = "active"
  /\ responseTimers[i] > 0
  /\ UNCHANGED <<run_state, message, phase, ack_accept, ack_expect, requestTimers,
                 erasing, piece_data, toClient, dups, losses>>
  /\ timeout_time' = [timeout_time EXCEPT ![i] = OneTimeoutMore(i)]
  /\ IF timeout_time'[i] > try_time
       THEN /\ responseTimers' = [responseTimers EXCEPT ![i] = @ - 1]
            /\ isSuccess' = [isSuccess EXCEPT ![i] = triggered[i] /\ @]
            /\ try_triggerInTimer(i)
            /\ UNCHANGED toServer
       ELSE /\ toServer' = toServer \cup {RequestHeartbeat(i)}
            /\ loopPc' = NextPass'
            /\ UNCHANGED <<responseTimers, triggerVars>>

\* delete_message: the task is gone with its fields, and the other timers of the
\* message will find nothing.
delete_message(i) ==
  /\ loopPc = "receive"
  /\ i \in erasing
  /\ erasing' = erasing \ {i}
  /\ message' = [message EXCEPT ![i] = "erased"]
  /\ phase' = [phase EXCEPT ![i] = "Request"]
  /\ ack_accept' = [ack_accept EXCEPT ![i] = 0]
  /\ ack_expect' = [ack_expect EXCEPT ![i] = 0]
  /\ timeout_time' = [timeout_time EXCEPT ![i] = 0]
  /\ requestTimers' = [requestTimers EXCEPT ![i] = [a \in 0 .. ReqPieces |-> 0]]
  /\ responseTimers' = [responseTimers EXCEPT ![i] = 0]
  /\ UNCHANGED <<run_state, piece_data, triggerVars, netVars>>
  /\ loopPc' = NextPass'

\* No timer is due, or one of a message that is gone.
NoTimer ==
  /\ loopPc = "receive"
  /\ loopPc' = NextPass /\ loopPc' = "test"
  /\ UNCHANGED <<run_state, message, taskVars, timerVars, piece_data, triggerVars,
                 netVars>>
--------------------------------------------------------------------------------
\* trigger, run by a worker of the pool.

\* A successful response goes through ClientIn.
Decode(i) ==
  /\ callback[i] = "committed"
  /\ callback' = [callback EXCEPT ![i] = IF isSuccess[i] THEN "decoded" ELSE "raw"]
  /\ UNCHANGED <<loopVars, taskVars, timerVars, piece_data, isSuccess, triggered,
                 outcome, refusals, netVars>>

\* The callback is given the response data, isSuccess included, as they are now.
CallBack(i) ==
  /\ callback[i] \in {"decoded", "raw"}
  /\ outcome' = [outcome EXCEPT ![i] =
       CASE ~isSuccess[i]                          -> "failed"
         [] isSuccess[i] /\ callback[i] = "decoded" -> "OK"
         [] isSuccess[i] /\ callback[i] = "raw"     -> "undecoded"]
  /\ callback' = [callback EXCEPT ![i] = "called"]
  /\ UNCHANGED <<loopVars, taskVars, timerVars, piece_data, isSuccess, triggered,
                 refusals, netVars>>

\* The timer of delete_message is set, under timer_mtx.
Dismiss(i) ==
  /\ callback[i] = "called"
  /\ loopPc # "stuck"
  /\ callback' = [callback EXCEPT ![i] = "done"]
  /\ erasing' = erasing \cup {i}
  /\ UNCHANGED <<loopVars, taskVars, requestTimers, responseTimers, piece_data,
                 isSuccess, triggered, outcome, refusals, netVars>>
--------------------------------------------------------------------------------
\* A timer that is due finds that nothing came since it was set.
TimesOut ==
  \/ \E i \in Calls, a \in 0 .. ReqPieces : timeout_event(i, a)
  \/ \E i \in Calls : response_timeout_event(i)

\* Every other step.
Proceeds ==
  \/ \E i \in Calls : send(i)
  \/ stop
  \/ Park
  \/ Sleep
  \/ EndLoop
  \/ SendPass
  \/ \E m \in toClient : TransmitterReceive(m)
  \/ \E i \in Calls, a \in 0 .. ReqPieces : staleTimeout(i, a)
  \/ \E i \in Calls : delete_message(i)
  \/ NoTimer
  \/ \E i \in Calls : Decode(i)
  \/ \E i \in Calls : CallBack(i)
  \/ \E i \in Calls : Dismiss(i)

TransmitterNext == TimesOut \/ Proceeds
================================================================================
