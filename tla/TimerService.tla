---------------------------- MODULE TimerService ----------------------------
(***************************************************************************)
(* What a player is promised of its time line: a clock that runs from      *)
(* start() to stop() and stands still in between pause() and unpause(),    *)
(* and timers that are dispatched once each, the least first, and never    *)
(* before the clock has reached their time.  TimeLineTimer implements it.  *)
(***************************************************************************)
EXTENDS Integers

CONSTANTS
    Ms,     \* the times, in milliseconds, that timers are set for
    Unit    \* the ticks of the clock in a millisecond

ASSUME ServiceAssumption == Ms \subseteq Nat /\ Unit \in Nat \ {0}

VARIABLES
    mode,   \* "stopped", "paused" or "running"
    ran,    \* for how many ticks the time line has been running
    heap    \* the timers to be dispatched: how many for each time

serviceVars == <<mode, ran, heap>>

NoTimers == [t \in Ms |-> 0]

Least(t) == heap[t] > 0 /\ \A u \in Ms : heap[u] > 0 => t <= u

Dispatches(t) == heap' = [heap EXCEPT ![t] = @ - 1]

ServiceInit == mode = "stopped" /\ ran = 0 /\ heap = NoTimers

Add == /\ \E t \in Ms : heap' = [heap EXCEPT ![t] = @ + 1]
       /\ UNCHANGED <<mode, ran>>

Begin == mode # "running" /\ mode' = "running" /\ ran' = 0 /\ UNCHANGED heap

\* Nothing that was set for one run is left to disturb the next.
End == mode # "stopped" /\ mode' = "stopped" /\ ran' = 0 /\ heap' = NoTimers

Hold == mode = "running" /\ mode' = "paused" /\ UNCHANGED <<ran, heap>>

Release == mode = "paused" /\ mode' = "running" /\ UNCHANGED <<ran, heap>>

Pass == mode = "running" /\ ran' = ran + 1 /\ UNCHANGED <<mode, heap>>

Dispatch == \E t \in Ms :
    /\ Least(t) /\ mode = "running" /\ Unit * t <= ran
    /\ Dispatches(t)
    /\ UNCHANGED <<mode, ran>>

ServiceNext == Add \/ Begin \/ End \/ Hold \/ Release \/ Pass \/ Dispatch

ServiceSpec == ServiceInit /\ [][ServiceNext]_serviceVars
=============================================================================
