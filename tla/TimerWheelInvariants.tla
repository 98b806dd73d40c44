-------------------------- MODULE TimerWheelInvariants --------------------------
(***************************************************************************)
(* The inductive invariant behind TypeOK, NoTimerIsPassedBy and            *)
(* EarlyByTheLagAtMost.                                                    *)
(***************************************************************************)
EXTENDS TimerWheel

\* The wheel is behind the clock by at most MaxLag and ahead of it by at most the
\* pass it has just done; where the loop hands down, the hands move on; and it
\* calls only from level one.
LoopInv ==
  /\ now <= DueAt(tick) + MaxLag /\ tick <= now + 1
  /\ loopAt # Asleep => DueAt(tick) <= nowTick /\ nowTick <= now
  /\ loopAt \in 2 .. Levels => \A m \in 2 .. loopAt : MovesOn(m)
  /\ calling # None => loopAt = 1

\* The pass in which the hand of level n, one or two, comes to its k-th place.
PassOf(n, k) == IF n = 1 THEN k ELSE k * Span[n] - 1

\* The first pass of which the loop has not taken the bucket of level n.
NextPass(n) == IF loopAt < n THEN tick + 1 ELSE tick

\* A pass that takes t from its bucket comes before t expires, or when it was
\* meant to.
ComesInTime(t) ==
  \E k \in Nat :
    /\ k % LevelSize[task[t].level] = task[t].bucket
    /\ NextPass(task[t].level) <= PassOf(task[t].level, k)
    /\ \/ DueAt(PassOf(task[t].level, k)) <= task[t].expire
       \/ PassOf(task[t].level, k) <= task[t].meant

\* No pass that takes t from its bucket comes earlier before t expires than the
\* wheel may be behind, one place of the hand, and one gap.
NeverTooEarly(t) ==
  \A k \in Nat :
    k % LevelSize[task[t].level] = task[t].bucket /\ tick <= PassOf(task[t].level, k) =>
      task[t].expire <
        DueAt(PassOf(task[t].level, k) + Span[task[t].level] + 1) + MaxLag

\* The life of t.
TimerInv(t) ==
  /\ status[t] \in {"made", "bound"} =>
       task[t].expire < DueAt(tick + task[t].gaps + 1) + MaxLag
  /\ status[t] = "read" =>
       /\ task[t].tickPlace <= tick
       /\ task[t].expire < DueAt(task[t].tickPlace + task[t].gaps + 1) + MaxLag
  /\ status[t] = "waiting" => task[t].level <= LevelFor(task[t].gaps)
  /\ status[t] = "waiting" /\ Near(t) => ComesInTime(t) /\ NeverTooEarly(t)

WheelInv == TypeOK /\ LoopInv /\ \A t \in Timers : TimerInv(t)
================================================================================
