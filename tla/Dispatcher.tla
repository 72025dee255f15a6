----------------------------- MODULE Dispatcher -----------------------------
(***************************************************************************)
(* The loop of events of the main thread: the dispatcher on top of libev.  *)
(* Every thread hands it tasks.  A task of another thread, or one that is  *)
(* posted, wakes the loop up; one that the main thread dispatches itself   *)
(* (to start or stop a timer, to exit) is run at once, by a wakeup() inside *)
(* of what is running, and so is everything that is in the queue then.     *)
(*                                                                         *)
(* A step of another thread is what it does under the mutex, or its signal. *)
(* The main thread steps from one lock, task or callback to the next.  The *)
(* events of files and sockets are handled as those of timers are, and are *)
(* left out.  Other threads have ended when finalize() is called.          *)
(***************************************************************************)
EXTENDS Naturals, Sequences, SequencesExt

CONSTANTS
    Clients,  \* the threads other than the main thread
    Timers,   \* the timers that are added: each of them once
    MaxTasks, \* bound: the tasks that the code around the dispatcher hands over
    None      \* no timer

ASSUME DispatcherAssumption == None \notin Timers /\ MaxTasks \in Nat

VARIABLES
    mode,      \* "before" run(), "running", "ended", "draining", "final"
    broken,    \* ev_break() was called in this run
    tasks,     \* _tasks
    pushed,    \* how many tasks were pushed: the next one has the number after it
    signalled, \* the loop has been sent _wakeup
    sending,   \* the clients that have pushed and are yet to send it
    waking,    \* the main thread has pushed and is yet to call wakeup()
    frames,    \* what the main thread is in the middle of, innermost first
    begun,     \* history: the numbers of the tasks that were begun
    timers,    \* _timers
    added,     \* history: the timers that were added
    mine,      \* history: of those, the ones that the main thread added
    fired,     \* history: the timers whose callback was called
    cancelled  \* history: of those in mine, the ones that the main thread stopped

loopVars == <<mode, broken>>
queueVars == <<tasks, pushed, signalled>>
timerVars == <<timers, added, mine, fired, cancelled>>
vars == <<mode, broken, tasks, pushed, signalled, sending, waking, frames, begun,
          timers, added, mine, fired, cancelled>>

Kinds == {"event", "start", "stop", "exit"}
Task == [n : Nat \ {0}, kind : Kinds, timer : Timers \cup {None}]
Callback == [n : {0}, kind : {"callback"}, timer : Timers]
Nothing == [n |-> 0, kind |-> "nothing", timer |-> None]

\* A wakeup() has the tasks that it took and is running one of them; a callback of a
\* timer is a frame of its own.
Frame == [batch : Seq(Task), current : Task \cup Callback \cup {Nothing}]

Idle == frames = <<>> /\ ~waking

\* Code that uses the dispatcher runs on the main thread: before and after run(), in
\* an event and in the callback of a timer.
UserRuns ==
    /\ ~waking
    /\ IF frames = <<>> THEN mode \in {"before", "ended"}
                        ELSE frames[1].current.kind \in {"event", "callback"}

-----------------------------------------------------------------------------
(* Handing over: dispatchTask()                                            *)

Push(kind, timer) ==
    /\ tasks' = Append(tasks, [n |-> pushed + 1, kind |-> kind, timer |-> timer])
    /\ pushed' = pushed + 1

\* A task of another thread is pushed under the mutex and the loop is sent the wakeup
\* after it.
ClientPush(c, kind, timer) ==
    /\ c \notin sending /\ mode \notin {"draining", "final"}
    /\ Push(kind, timer)
    /\ sending' = sending \cup {c}
    /\ UNCHANGED signalled

ClientSend(c) ==
    /\ c \in sending
    /\ sending' = sending \ {c}
    /\ signalled' = TRUE
    /\ UNCHANGED <<loopVars, tasks, pushed, waking, frames, begun, timerVars>>

\* A mutant: the main thread does not wake itself up.
LoopPostUnsignalled ==
    /\ UserRuns /\ pushed < MaxTasks
    /\ Push("event", None)
    /\ UNCHANGED <<loopVars, signalled, sending, waking, frames, begun, timerVars>>

\* postEvent() on the main thread.
LoopPost ==
    /\ UserRuns /\ pushed < MaxTasks
    /\ Push("event", None)
    /\ signalled' = TRUE
    /\ UNCHANGED <<loopVars, sending, waking, frames, begun, timerVars>>

\* addTimer(), stopTimer() and exit() on the main thread: wakeup() is called next.
LoopPush(kind, timer) ==
    /\ UserRuns
    /\ Push(kind, timer)
    /\ waking' = TRUE
    /\ UNCHANGED <<loopVars, signalled, sending, frames, begun, timers, fired>>

\* The tasks that are to be run.
Waiting == ToSet(tasks) \cup UNION {ToSet(frames[i].batch) : i \in DOMAIN frames}

\* The timers whose identifier somebody has: addTimer() on the main thread returns it
\* after the timer has been started.
Known == added \ {t \in mine : \E task \in Waiting : task.kind = "start" /\ task.timer = t}

ClientOperation(c) ==
    /\ pushed < MaxTasks
    /\ \/ ClientPush(c, "event", None) /\ UNCHANGED added
       \/ ClientPush(c, "exit", None) /\ UNCHANGED added
       \/ \E t \in Timers \ added : ClientPush(c, "start", t) /\ added' = added \cup {t}
       \/ \E t \in Known : ClientPush(c, "stop", t) /\ UNCHANGED added
    /\ UNCHANGED <<loopVars, waking, frames, begun, timers, mine, fired, cancelled>>

LoopOperation ==
    /\ pushed < MaxTasks
    /\ \/ LoopPush("exit", None) /\ UNCHANGED <<added, mine, cancelled>>
       \/ \E t \in Timers \ added :
            /\ LoopPush("start", t)
            /\ added' = added \cup {t} /\ mine' = mine \cup {t}
            /\ UNCHANGED cancelled
       \/ \E t \in Known :
            /\ LoopPush("stop", t)
            /\ cancelled' = cancelled \cup ({t} \cap mine)
            /\ UNCHANGED <<added, mine>>

-----------------------------------------------------------------------------
(* The main thread: wakeup(), runTask()                                    *)

TakeAll == frames' = <<[batch |-> tasks, current |-> Nothing]>> \o frames /\ tasks' = <<>>

\* A mutant: only the task that the main thread has pushed is run.
WakeupForOne ==
    /\ waking
    /\ waking' = FALSE
    /\ frames' = <<[batch |-> <<Last(tasks)>>, current |-> Nothing]>> \o frames
    /\ tasks' = Front(tasks)
    /\ UNCHANGED <<loopVars, pushed, signalled, sending, begun, timerVars>>

\* wakeup() called by dispatchTask().
Wakeup ==
    /\ waking
    /\ waking' = FALSE
    /\ TakeAll
    /\ UNCHANGED <<loopVars, pushed, signalled, sending, begun, timerVars>>

\* wakeup_cb(): wakeup() called by the loop.
WakeupCb ==
    /\ mode = "running" /\ Idle /\ signalled
    /\ signalled' = FALSE
    /\ TakeAll
    /\ UNCHANGED <<loopVars, pushed, sending, waking, begun, timerVars>>

\* startTimer(), stopTimerImpl(), exitLoop(); a timer that is not found is left alone.
Effect(task) ==
    /\ broken' = (broken \/ task.kind = "exit")
    /\ timers' = CASE task.kind = "start" -> timers \cup {task.timer}
                   [] task.kind = "stop" -> timers \ {task.timer}
                   [] OTHER -> timers

\* runTask() of the next of the batch.
RunTask ==
    /\ ~waking /\ frames # <<>> /\ frames[1].current = Nothing /\ frames[1].batch # <<>>
    /\ LET task == Head(frames[1].batch)
       IN /\ frames' = [frames EXCEPT ![1].batch = Tail(@), ![1].current = task]
          /\ begun' = begun \cup {task.n}
          /\ Effect(task)
    /\ UNCHANGED <<mode, queueVars, sending, waking, added, mine, fired, cancelled>>

\* The task returns or throws.
EndTask ==
    /\ ~waking /\ frames # <<>> /\ frames[1].current.kind \in Kinds
    /\ frames' = [frames EXCEPT ![1].current = Nothing]
    /\ UNCHANGED <<loopVars, queueVars, sending, waking, begun, timerVars>>

WakeupReturns ==
    /\ ~waking /\ frames # <<>> /\ frames[1].current = Nothing /\ frames[1].batch = <<>>
    /\ frames' = Tail(frames)
    /\ UNCHANGED <<loopVars, queueVars, sending, waking, begun, timerVars>>

\* timer_cb(): libev calls it once for a timer that does not repeat.
Fire(t) ==
    /\ mode = "running" /\ Idle /\ t \in timers \ fired
    /\ fired' = fired \cup {t}
    /\ frames' = <<[batch |-> <<>>, current |-> [n |-> 0, kind |-> "callback", timer |-> t]]>>
    /\ UNCHANGED <<loopVars, queueVars, sending, waking, begun, timers, added, mine, cancelled>>

\* A mutant: the timer is not stopped after its callback.
EndCallbackOnly ==
    /\ ~waking /\ frames # <<>> /\ frames[1].current.kind = "callback"
    /\ frames' = [frames EXCEPT ![1].current = Nothing]
    /\ UNCHANGED <<loopVars, queueVars, sending, waking, begun, timerVars>>

\* The callback returns and the timer is stopped.
EndCallback ==
    /\ ~waking /\ frames # <<>> /\ frames[1].current.kind = "callback"
    /\ Push("stop", frames[1].current.timer)
    /\ waking' = TRUE
    /\ frames' = [frames EXCEPT ![1].current = Nothing]
    /\ UNCHANGED <<loopVars, signalled, sending, begun, timerVars>>

-----------------------------------------------------------------------------
(* run() and finalize()                                                    *)

\* ev_run() forgets an ev_break() that came before it.
Run ==
    /\ mode = "before" /\ Idle
    /\ mode' = "running" /\ broken' = FALSE
    /\ UNCHANGED <<queueVars, sending, waking, frames, begun, timerVars>>

EndRun ==
    /\ mode = "running" /\ Idle /\ broken
    /\ mode' = "ended"
    /\ UNCHANGED <<broken, queueVars, sending, waking, frames, begun, timerVars>>

Finalize ==
    /\ mode = "ended" /\ Idle /\ sending = {}
    /\ mode' = "draining"
    /\ UNCHANGED <<broken, queueVars, sending, waking, frames, begun, timerVars>>

\* finalize() runs the tasks in the queue, one by one, and then stops the timers.
Drain ==
    /\ mode = "draining" /\ Idle
    /\ IF tasks # <<>>
       THEN /\ frames' = <<[batch |-> <<Head(tasks)>>, current |-> Nothing]>>
            /\ tasks' = Tail(tasks)
            /\ UNCHANGED <<mode, timers>>
       ELSE /\ mode' = "final" /\ timers' = {}
            /\ UNCHANGED <<frames, tasks>>
    /\ UNCHANGED <<broken, pushed, signalled, sending, waking, begun, added, mine, fired, cancelled>>

Init ==
    /\ mode = "before" /\ broken = FALSE
    /\ tasks = <<>> /\ pushed = 0 /\ signalled = FALSE /\ sending = {}
    /\ waking = FALSE /\ frames = <<>> /\ begun = {}
    /\ timers = {} /\ added = {} /\ mine = {} /\ fired = {} /\ cancelled = {}

\* What the main thread does when nobody hands it anything more.
MainStep ==
    \/ Wakeup \/ WakeupCb \/ RunTask \/ EndTask \/ WakeupReturns \/ EndCallback
    \/ Run \/ EndRun \/ Finalize \/ Drain

Next ==
    \/ MainStep
    \/ LoopPost
    \/ LoopOperation
    \/ \E t \in Timers : Fire(t)
    \/ \E c \in Clients : ClientOperation(c) \/ ClientSend(c)

\* The main thread is never stuck, a thread that has pushed goes on to signal.
Spec == /\ Init /\ [][Next]_vars
        /\ WF_vars(MainStep)
        /\ \A c \in Clients : WF_vars(ClientSend(c))

-----------------------------------------------------------------------------

TypeOK ==
    /\ mode \in {"before", "running", "ended", "draining", "final"}
    /\ broken \in BOOLEAN /\ signalled \in BOOLEAN /\ waking \in BOOLEAN
    /\ tasks \in Seq(Task) /\ pushed \in Nat /\ sending \subseteq Clients
    /\ frames \in Seq(Frame) /\ begun \subseteq 1 .. pushed
    /\ added \subseteq Timers /\ timers \subseteq added /\ mine \subseteq added
    /\ fired \subseteq added /\ cancelled \subseteq mine

\* What runs: the frames, without the wakeup() calls that are between two tasks.
Running == {frames[i].current.n : i \in {j \in DOMAIN frames : frames[j].current # Nothing}}

Mail == INSTANCE Mailbox WITH posted <- pushed, begun <- begun, running <- Running

\* The tasks are begun as Mailbox promises: once each, in order when nothing else runs,
\* and never one in the middle of another that was handed over after it.
ImplementsMailbox == Mail!MailSpec

\* Between two events of the loop no timer is kept that has fired, nor one that the main
\* thread added and stopped: its callback will not be called.
StoppedAreGone == Idle => timers \cap (fired \cup cancelled) = {}

\* Every task that was handed over is run, by the loop or by finalize().
EveryTaskRuns == \A n \in 1 .. MaxTasks : pushed >= n ~> n \in begun

=============================================================================
