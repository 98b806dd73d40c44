------------------------------ MODULE TimerWheel ------------------------------
(***************************************************************************)
(* TimerWheel: timers in the buckets of a wheel of several levels, and the *)
(* thread that turns it.  Every pass of the loop hands the timers of one   *)
(* bucket down a level where a hand moves on, and runs those of the bucket *)
(* under the hand of level one.  Other threads set and clear timers        *)
(* meanwhile: they read tick, compute the bucket, and then lock it.        *)
(*                                                                         *)
(* Time is in milliseconds since the wheel started.  The clock is          *)
(* system_clock, and it is assumed that nobody sets it back or makes it    *)
(* leap: timer_wheel.cpp:230 names adjustments by the network, and of a    *)
(* clock that is adjusted the last two properties are not claimed.  The    *)
(* masks and shifts of the source take a digit of a number whose base is   *)
(* the size of the level.  tick is 32 bits wide in the code and does not   *)
(* come round here.  A timer that is handed to the pool has been run as    *)
(* far as the wheel is concerned.  The timers of a bucket are a set: in    *)
(* which order they were pushed does not matter.  A callback that sets a   *)
(* timer is like another thread, except that a delay below tickGap would   *)
(* lock its own bucket, which is not modelled.                             *)
(***************************************************************************)
EXTENDS Integers

CONSTANTS
  Timers,
  Levels,      \* levelCount
  LevelSize,   \* LevelOneSize, LevelTwoSize, ...
  tickGap,     \* milliseconds from one pass to the next
  Delays,      \* what setTimeout is called with
  Intervals,   \* what setInterval is called with, which throws up to 10 ms
  None,        \* no timer
  MaxTime,     \* bound: when the clock stops
  MaxLag       \* bound: milliseconds by which a pass is late, until its end

ASSUME WheelAssumption ==
  /\ Levels \in Nat /\ Levels >= 3
  /\ LevelSize \in [1 .. Levels -> Nat \ {0, 1}]
  /\ LevelSize[2] <= LevelSize[3]
  /\ tickGap \in Nat \ {0}
  /\ Delays \subseteq Nat \ {0}
  /\ Intervals \subseteq Nat \ 0 .. 2 * tickGap
  /\ None \notin Timers
ASSUME TimeAssumption == MaxTime \in Nat /\ MaxLag \in Nat

VARIABLES
  now,         \* GetTick
  tick,        \* passes done
  loopAt,      \* the level in hand; Levels + 1: asleep, 0: the pass ends
  nowTick,     \* what GetTick was when the pass began
  calling,     \* the timer whose callback the loop has called, or None
  status,      \* "new", "made", "bound", "read", "waiting" in a bucket, "gone"
  task         \* TimerWheelTask and what setTimerWheelTask made of it

vars == <<now, tick, loopAt, nowTick, calling, status, task>>

Asleep == Levels + 1

\* A task before it is made and after its end.
Blank ==
  [expire        |-> 0,
   addDateTime   |-> 0,      \* with times * delayInterval added to it
   delayInterval |-> 0,      \* 0: isDuplicate is false
   isCancel      |-> FALSE,
   gaps          |-> 0,      \* Gaps of setTimerWheelTask
   tickPlace     |-> 0,      \* the tick it read there
   level         |-> 1,
   bucket        |-> 0,
   meant         |-> 0]      \* history: the pass the task was put there for

Init ==
  /\ now = 0 /\ tick = 0
  /\ loopAt = Asleep /\ nowTick = 0 /\ calling = None
  /\ status = [t \in Timers |-> "new"]
  /\ task = [t \in Timers |-> Blank]
--------------------------------------------------------------------------------
\* The masks and shifts.

\* What the hand of level n stands for, in ticks.
Span[n \in 1 .. Levels + 1] ==
  IF n = 1 THEN 1 ELSE Span[n - 1] * LevelSize[n - 1]

\* (x & checkN) >> shift
Digit(n, x) == (x \div Span[n]) % LevelSize[n]

\* checkOne, checkTwo, ...: the largest number with only this digit.
check(n) == (LevelSize[n] - 1) * Span[n]

\* When pass n is due.
DueAt(n) == n * tickGap

AtMost(x, bound) == IF x >= bound THEN bound ELSE x
AtLeast(x, bound) == IF x < bound THEN bound ELSE x

\* The hand of level n moves on in the next pass.
MovesOn(n) == Digit(n, tick + 1) = (Digit(n, tick) + 1) % LevelSize[n]
--------------------------------------------------------------------------------
\* setTimerWheelTask.

LevelFor(g) ==
  CHOOSE n \in 1 .. Levels :
    /\ n = Levels \/ g <= check(n)
    /\ \A m \in 1 .. n - 1 : g > check(m)

\* Mutant of BucketFor: the mask of level one is forgotten.
BucketForAny(n, x) == IF n = 1 THEN x ELSE IF n <= 3 THEN Digit(2, x) ELSE 0

\* From level three on the mask is still checkTwo, of which the shift leaves
\* nothing from level four on.
BucketFor(n, x) ==
  IF n = 1 THEN Digit(1, x) ELSE IF n <= 3 THEN Digit(2, x) ELSE 0

\* The pass that takes the bucket of a timer for tick x from level n.
TakenIn(n, x) == IF n = 1 THEN x ELSE (x \div Span[n]) * Span[n] - 1

\* The loop has begun that pass.
Overtaken(n, x) ==
  \/ TakenIn(n, x) < tick
  \/ TakenIn(n, x) = tick /\ loopAt # Asleep

\* t is pushed into the bucket for tick x, g gaps from where the setter read it.
Put(t, made, g, x) ==
  LET n == LevelFor(g)
  IN  /\ status' = [status EXCEPT ![t] = "waiting"]
      /\ task' = [task EXCEPT ![t] =
           [made EXCEPT !.gaps = g,
                        !.tickPlace = 0,
                        !.level = n,
                        !.bucket = BucketFor(n, x),
                        !.meant = IF Overtaken(n, x) THEN tick + Span[n + 1] ELSE x]]

\* t is over: its bucket lets go of it.
Drop(t) ==
  /\ status' = [status EXCEPT ![t] = "gone"]
  /\ task' = [task EXCEPT ![t] = Blank]
--------------------------------------------------------------------------------
\* Threads that set and clear timers.

Make(t, delay, made) ==
  /\ status[t] = "new"
  /\ status' = [status EXCEPT ![t] = made]
  /\ task' = [task EXCEPT ![t].expire = now + delay,
                         ![t].gaps = delay \div tickGap,
                         ![t].delayInterval = IF made = "made" THEN delay ELSE 0]
  /\ UNCHANGED <<now, tick, loopAt, nowTick, calling>>

\* setTimeout and setInterval make the task, of which the caller has no handle
\* before it is in a bucket, ...
setTimeout(t) == \E d \in Delays : Make(t, d, "bound")
setInterval(t) == \E d \in Intervals : Make(t, d, "made")

\* ... setInterval reads the clock again, ...
Date(t) ==
  /\ status[t] = "made"
  /\ status' = [status EXCEPT ![t] = "bound"]
  /\ task' = [task EXCEPT ![t].addDateTime = now]
  /\ UNCHANGED <<now, tick, loopAt, nowTick, calling>>

\* ... setTimerWheelTask reads tick ...
ReadTick(t) ==
  /\ status[t] = "bound"
  /\ status' = [status EXCEPT ![t] = "read"]
  /\ task' = [task EXCEPT ![t].tickPlace = tick]
  /\ UNCHANGED <<now, tick, loopAt, nowTick, calling>>

\* ... and pushes the task when it gets the bucket's lock, which the loop keeps
\* while it runs the timers of the bucket.
Push(t) ==
  LET g == task[t].gaps
      x == task[t].tickPlace + g
  IN  /\ status[t] = "read"
      /\ ~(loopAt = 1 /\ LevelFor(g) = 1 /\ Digit(1, x) = Digit(1, tick))
      /\ Put(t, task[t], g, x)
      /\ UNCHANGED <<now, tick, loopAt, nowTick, calling>>

\* clearTimeout, or the first half of clearInterval, ...
clearTimeout(t) ==
  /\ status[t] = "waiting"
  /\ ~task[t].isCancel
  /\ task' = [task EXCEPT ![t].isCancel = TRUE]
  /\ UNCHANGED <<now, tick, loopAt, nowTick, calling, status>>

\* ... by which the task is no duplicate any more.
clearInterval(t) ==
  /\ status[t] = "waiting"
  /\ task[t].isCancel
  /\ task' = [task EXCEPT ![t].delayInterval = 0]
  /\ UNCHANGED <<now, tick, loopAt, nowTick, calling, status>>
--------------------------------------------------------------------------------
\* The loop.

\* A pass begins no earlier than the clock says.  Where the hand of a level
\* moves on, those of the levels below it do.
BeginPass ==
  /\ loopAt = Asleep
  /\ now >= DueAt(tick)
  /\ nowTick' = now
  /\ loopAt' = CHOOSE n \in 1 .. Levels :
       /\ \A m \in 2 .. n : MovesOn(m)
       /\ n = Levels \/ ~MovesOn(n + 1)
  /\ UNCHANGED <<now, tick, calling, status, task>>

\* Mutants of Lower: a timer that expired already is not taken for one that does
\* now, or the time left is not cut to what the level below can hold.
LowerExpired(n, t) ==
  LET left == (task[t].expire - nowTick) \div tickGap
      Gaps == IF n <= 3 THEN AtMost(left, check(n - 1)) ELSE left
      hand == IF n = 2 THEN Digit(1, tick) ELSE Digit(n - 1, tick + 1)
  IN  (hand + Digit(n - 1, Gaps)) % LevelSize[n - 1]
LowerUncut(n, t) ==
  LET left == AtLeast(task[t].expire - nowTick, 0) \div tickGap
      hand == IF n = 2 THEN Digit(1, tick) ELSE Digit(n - 1, tick + 1)
  IN  (hand + Digit(n - 1, left)) % LevelSize[n - 1]

\* Where a timer of level n goes on level n - 1.
Lower(n, t) ==
  LET left == AtLeast(task[t].expire - nowTick, 0) \div tickGap
      Gaps == IF n <= 3 THEN AtMost(left, check(n - 1)) ELSE left
      hand == IF n = 2 THEN Digit(1, tick) ELSE Digit(n - 1, tick + 1)
  IN  (hand + Digit(n - 1, Gaps)) % LevelSize[n - 1]

Waiting(n, b) ==
  {t \in Timers :
     status[t] = "waiting" /\ task[t].level = n /\ task[t].bucket = b}

\* The timers of the bucket to which the hand of level n moves go down a level,
\* without those that were cleared.
HandDown(n) ==
  LET down == Waiting(n, Digit(n, tick + 1))
      cleared == {t \in down : task[t].isCancel}
  IN  /\ loopAt = n
      /\ loopAt' = n - 1
      /\ status' = [t \in Timers |-> IF t \in cleared THEN "gone" ELSE status[t]]
      /\ task' = [t \in Timers |->
           IF t \in cleared THEN Blank
           ELSE IF t \in down
             THEN [task[t] EXCEPT !.level = n - 1, !.bucket = Lower(n, t)]
             ELSE task[t]]
      /\ UNCHANGED <<now, tick, nowTick, calling>>

\* The timers under the hand of level one.
Due == Waiting(1, Digit(1, tick))

\* The loop comes to a timer: calls its callback, ...
Call(t) ==
  /\ loopAt = 1 /\ calling = None
  /\ t \in Due
  /\ ~task[t].isCancel
  /\ calling' = t
  /\ UNCHANGED <<now, tick, loopAt, nowTick, status, task>>

\* ... or throws it out when it was cleared.
ThrowOut(t) ==
  /\ loopAt = 1 /\ calling = None
  /\ t \in Due
  /\ task[t].isCancel
  /\ Drop(t)
  /\ UNCHANGED <<now, tick, loopAt, nowTick, calling>>

\* The callback returns; a timer of an interval is set again, for the next
\* multiple of the interval after addDateTime.
Return(t) ==
  LET since == task[t].addDateTime + task[t].delayInterval
      next == since + task[t].delayInterval
      gaps == AtLeast(next - now, 2 * tickGap) \div tickGap
  IN  /\ calling = t
      /\ calling' = None
      /\ IF task[t].delayInterval = 0
         THEN Drop(t)
         ELSE Put(t, [task[t] EXCEPT !.expire = next, !.addDateTime = since],
                  gaps, tick + gaps)
      /\ UNCHANGED <<now, tick, loopAt, nowTick>>

\* The bucket is worked off and its lock released, ...
Unlock ==
  /\ loopAt = 1 /\ calling = None
  /\ Due = {}
  /\ loopAt' = 0
  /\ UNCHANGED <<now, tick, nowTick, calling, status, task>>

\* ... then the hand moves, and the loop sleeps.
Advance ==
  /\ loopAt = 0
  /\ loopAt' = Asleep
  /\ tick' = tick + 1
  /\ nowTick' = 0
  /\ UNCHANGED <<now, calling, status, task>>

\* The clock goes on, also while a callback runs.
Clock ==
  /\ now < MaxTime
  /\ now < DueAt(tick) + MaxLag
  /\ now' = now + 1
  /\ UNCHANGED <<tick, loopAt, nowTick, calling, status, task>>

Next ==
  \/ \E t \in Timers :
       \/ setTimeout(t) \/ setInterval(t) \/ Date(t) \/ ReadTick(t) \/ Push(t)
       \/ clearTimeout(t) \/ clearInterval(t)
       \/ Call(t) \/ ThrowOut(t) \/ Return(t)
  \/ BeginPass \/ (\E n \in 2 .. Levels : HandDown(n)) \/ Unlock \/ Advance
  \/ Clock

Spec == Init /\ [][Next]_vars
--------------------------------------------------------------------------------
Tasks ==
  [expire : Nat, addDateTime : Nat, delayInterval : Intervals \cup {0},
   isCancel : BOOLEAN, gaps : Nat, tickPlace : Nat, level : 1 .. Levels,
   bucket : Nat, meant : Nat]

\* Every variable has its type, and every bucket is one of its level.
TypeOK ==
  /\ now \in 0 .. MaxTime /\ nowTick \in 0 .. MaxTime
  /\ tick \in 0 .. MaxTime + 1
  /\ loopAt \in 0 .. Asleep
  /\ calling \in Timers \cup {None}
  /\ status \in [Timers -> {"new", "made", "bound", "read", "waiting", "gone"}]
  /\ task \in [Timers -> Tasks]
  /\ \A t \in Timers : task[t].bucket < LevelSize[task[t].level]

\* A timer that was set on level one or two.  On the levels above it gets a
\* bucket that has nothing to do with its time.
Near(t) == LevelFor(task[t].gaps) <= 2

\* The hands never pass a near timer by: as long as it waits, it has not expired
\* or the pass it was put there for is still to come, however late the setter got
\* the lock and however far the clock was ahead when the timer was handed down.
\* One whose pass had begun when it was pushed comes up a round of its level
\* later.
NoTimerIsPassedBy ==
  \A t \in Timers :
    status[t] = "waiting" /\ Near(t) =>
      DueAt(tick) <= task[t].expire \/ tick <= task[t].meant

\* A near timer runs early by less than the wheel may be behind, when the hand
\* catches up with the clock, and two gaps.  One of them is what the division
\* takes off a delay, the other what the cut in the hand-down costs (a timer for
\* the end of a round of level one is one gap too long): both are lost by one
\* that is set in the first pass of a round.
EarlyByTheLagAtMost ==
  [][\A t \in Timers :
       calling' = t /\ calling # t /\ Near(t) =>
         task[t].expire < now + MaxLag + 2 * tickGap]_vars
================================================================================
