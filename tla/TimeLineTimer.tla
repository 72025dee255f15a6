--------------------------- MODULE TimeLineTimer ---------------------------
(***************************************************************************)
(* player::TimeLineTimer over the timers of gtk.  The time line keeps its  *)
(* timers in a heap and registers one timer in the system, for the least   *)
(* of them; whatever touches the heap or the clock cancels that one, adds  *)
(* what has elapsed, in whole milliseconds, and registers another.         *)
(*                                                                         *)
(* It all happens in one thread, but the callback of a timer comes back to *)
(* the time line before its dispatch is over.  The activations that are    *)
(* under way are kept in frames, the innermost last:                       *)
(*     "loop"      in the loop of startTimer()                             *)
(*     "late"      in a callback dispatched by that loop                   *)
(*     "expired"   in a callback dispatched by onExpired()                 *)
(***************************************************************************)
EXTENDS TimerService, Sequences

CONSTANTS
    Ids,        \* identifiers of the timers of the system
    NoId,       \* an empty Ident
    ExpiredOps, \* the methods that callbacks dispatched by onExpired() call
    LateOps,    \* the methods that callbacks dispatched by startTimer() call
    MaxTime,    \* bound: methods are called before this tick
    MaxTimers,  \* bound: timers in the heap for one time
    MaxDepth    \* bound: activations under way

ASSUME TimersAssumption ==
    NoId \notin Ids /\ MaxTime \in Nat /\ MaxTimers \in Nat /\ MaxDepth \in Nat

VARIABLES
    now,        \* the clock of the machine, in ticks
    elapsed,    \* _elapsed, in milliseconds
    startTimer, \* _startTimer
    timerID,    \* _timerID
    system,     \* _timerList of the system: records [id, due]
    frames,     \* the activations under way
    failed      \* an assertion failed, or front() was taken of an empty heap

vars == <<mode, ran, heap, now, elapsed, startTimer, timerID, system, frames, failed>>

Running == mode = "running"
Empty == \A t \in Ms : heap[t] = 0

Top == IF frames = <<>> THEN "main" ELSE frames[Len(frames)]
Return == frames' = SubSeq(frames, 1, Len(frames) - 1)
Jump(place) == frames' = [frames EXCEPT ![Len(frames)] = place]

Init ==
    /\ ServiceInit
    /\ now = 0 /\ elapsed = 0 /\ startTimer = 0
    /\ timerID = NoId /\ system = {}
    /\ frames = <<>> /\ failed = FALSE

-----------------------------------------------------------------------------
(* cancelTimer() and the beginning of startTimer().                        *)

Milliseconds(ticks) == ticks \div Unit

ForgetOnly == timerID' = NoId /\ UNCHANGED system
Unregister == system' = {s \in system : s.id # timerID} /\ timerID' = NoId

CountElapsed == elapsed' = elapsed + Milliseconds(now - startTimer)

CancelTimer == Unregister /\ CountElapsed

NotStarted == startTimer' = now /\ UNCHANGED frames
StartTimer == startTimer' = now /\ frames' = Append(frames, "loop")

\* Who may call the time line: the tasks of the main loop, and callbacks.
MayCall(op) ==
    /\ ~failed
    /\ Len(frames) < MaxDepth /\ now < MaxTime
    /\ \/ Top = "main"
       \/ Top = "expired" /\ op \in ExpiredOps
       \/ Top = "late" /\ op \in LateOps

-----------------------------------------------------------------------------
(* The methods of the time line.                                           *)

AddTimer(t) ==
    /\ MayCall("add") /\ heap[t] < MaxTimers
    /\ heap' = [heap EXCEPT ![t] = @ + 1]
    /\ \/ Running /\ CancelTimer /\ StartTimer
       \/ ~Running /\ UNCHANGED <<elapsed, startTimer, timerID, system, frames>>
    /\ UNCHANGED <<mode, ran, now, failed>>

\* An identifier left valid makes startTimer() register nothing.
Resumes ==
    /\ mode' = "running"
    /\ startTimer' = now
    /\ frames' = IF timerID = NoId THEN Append(frames, "loop") ELSE frames
    /\ UNCHANGED <<heap, now, timerID, system, failed>>

Start ==
    /\ MayCall("start") /\ ~Running
    /\ elapsed' = 0 /\ ran' = 0
    /\ Resumes

Unpause ==
    /\ MayCall("unpause") /\ mode = "paused"
    /\ Resumes
    /\ UNCHANGED <<elapsed, ran>>

Pause ==
    /\ MayCall("pause") /\ Running
    /\ CancelTimer
    /\ mode' = "paused"
    /\ UNCHANGED <<heap, ran, now, startTimer, frames, failed>>

StopKeepingTimers ==
    /\ MayCall("stop") /\ mode # "stopped"
    /\ \/ Running /\ Unregister
       \/ ~Running /\ UNCHANGED <<timerID, system>>
    /\ mode' = "stopped" /\ elapsed' = 0 /\ ran' = 0
    /\ UNCHANGED <<heap, now, startTimer, frames, failed>>

Stop ==
    /\ MayCall("stop") /\ mode # "stopped"
    /\ \/ Running /\ Unregister
       \/ ~Running /\ UNCHANGED <<timerID, system>>
    /\ mode' = "stopped" /\ elapsed' = 0 /\ ran' = 0 /\ heap' = NoTimers
    /\ UNCHANGED <<now, startTimer, frames, failed>>

-----------------------------------------------------------------------------
(* The loop of startTimer(): dispatch what is late, register the next.     *)

LoopEnds ==
    /\ Top = "loop" /\ Empty
    /\ Return
    /\ UNCHANGED <<mode, ran, heap, now, elapsed, startTimer, timerID, system, failed>>

IsLate(t) == elapsed > t

LoopDispatches == \E t \in Ms :
    /\ Top = "loop" /\ Least(t) /\ IsLate(t)
    /\ Dispatches(t)
    /\ Jump("late")
    /\ UNCHANGED <<mode, ran, now, elapsed, startTimer, timerID, system, failed>>

Due(t) == now + Unit * (t - elapsed)

LoopRegisters == \E t \in Ms, id \in Ids :
    /\ Top = "loop" /\ Least(t) /\ ~IsLate(t)
    /\ \A s \in system : s.id # id
    /\ system' = system \cup {[id |-> id, due |-> Due(t)]}
    /\ timerID' = id
    /\ Return
    /\ UNCHANGED <<mode, ran, heap, now, elapsed, startTimer, failed>>

-----------------------------------------------------------------------------
(* onExpired(), called by the main loop, and the return of callbacks.      *)

\* Once an assertion has failed, or the heap had no front, nothing else is told.
OnExpired(s) ==
    /\ ~failed /\ frames = <<>> /\ s.due <= now
    /\ system' = system \ {s}
    /\ failed' = (timerID = NoId \/ Empty)
    /\ timerID' = NoId
    /\ heap' = [t \in Ms |-> IF Least(t) THEN heap[t] - 1 ELSE heap[t]]
    /\ frames' = <<"expired">>
    /\ UNCHANGED <<mode, ran, now, elapsed, startTimer>>

LateReturns ==
    /\ Top = "late"
    /\ Jump("loop")
    /\ UNCHANGED <<mode, ran, heap, now, elapsed, startTimer, timerID, system, failed>>

\* cancelTimer() and startTimer() do nothing unless the time line is running.
ExpiredReturns ==
    /\ ~failed /\ Top = "expired"
    /\ \/ Running /\ CancelTimer /\ startTimer' = now /\ Jump("loop")
       \/ ~Running /\ Return /\ UNCHANGED <<elapsed, startTimer, timerID, system>>
    /\ UNCHANGED <<mode, ran, heap, now, failed>>

\* After MaxTime the clock goes on for the timers that wait for it only.
Tick ==
    /\ ~failed
    /\ now < MaxTime \/ \E s \in system : now < s.due
    /\ now' = now + 1
    /\ ran' = IF Running THEN ran + 1 ELSE ran
    /\ UNCHANGED <<mode, heap, elapsed, startTimer, timerID, system, frames, failed>>

-----------------------------------------------------------------------------
Methods == (\E t \in Ms : AddTimer(t)) \/ Start \/ Unpause \/ Pause \/ Stop
Loop == LoopEnds \/ LoopDispatches \/ LoopRegisters
Expiry == \E s \in system : OnExpired(s)
Returns == LateReturns \/ ExpiredReturns

Next == Methods \/ Loop \/ Expiry \/ Returns \/ Tick

Spec == Init /\ [][Next]_vars

\* The clock runs, gtk dispatches the timers that are due, callbacks return.
Fairness == WF_vars(Tick) /\ WF_vars(Expiry) /\ WF_vars(Loop) /\ WF_vars(Returns)

FairSpec == Spec /\ Fairness

-----------------------------------------------------------------------------
TypeOK ==
    /\ mode \in {"stopped", "paused", "running"}
    /\ heap \in [Ms -> Nat]
    /\ ran \in Nat /\ now \in Nat /\ elapsed \in Nat /\ startTimer \in Nat
    /\ timerID \in Ids \cup {NoId}
    /\ system \subseteq [id : Ids, due : Int]
    /\ frames \in Seq({"loop", "late", "expired"})
    /\ failed \in BOOLEAN

(* The assertion at the head of onExpired(), and the front() below it: a   *)
(* timer of the system only expires while _timerID names it and the heap   *)
(* has the timer it was registered for.                                    *)
ExpiresAsRegistered == ~failed

(* Between activations the system has one timer when the time line runs    *)
(* and has something to dispatch, and none otherwise: none is left behind  *)
(* by cancelTimer(), and none is missing.                                  *)
OneSystemTimer ==
    frames = <<>> /\ ~failed =>
        IF Running /\ ~Empty THEN \E s \in system : system = {s} /\ s.id = timerID
                             ELSE system = {} /\ timerID = NoId

(* No timer is dispatched before the time line has been running for its    *)
(* time, however often it was paused and its timer registered again.       *)
NothingEarly ==
    [][\A t \in Ms : heap'[t] < heap[t] /\ mode' # "stopped"
            => Running /\ Unit * t <= ran]_vars

(* A timer whose time has come by uptime() is dispatched, unless the time  *)
(* line is paused or stopped.                                              *)
Uptime == elapsed + IF Running THEN Milliseconds(now - startTimer) ELSE 0

DueIsDispatched ==
    \A t \in Ms : (Running /\ heap[t] > 0 /\ Uptime >= t)
                      ~> (~Running \/ heap[t] = 0 \/ failed)

(* The time line implements the service that players are promised.         *)
Service == ServiceSpec
-----------------------------------------------------------------------------
=============================================================================
