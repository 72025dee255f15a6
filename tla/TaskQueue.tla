----------------------------- MODULE TaskQueue -----------------------------
(***************************************************************************)
(* util::TaskQueue: a mutex, a condition variable and a std::queue of      *)
(* tasks, served by one thread (start(true)) or polled by its owner        *)
(* (start(false) and processTasks()).                                      *)
(*                                                                         *)
(* A task is known by the ticket it got when push() appended it: tickets   *)
(* are handed out in the order of the pushes, so "in order" is "with       *)
(* increasing tickets".  Each mutex section is one step; the notification  *)
(* that follows it, outside the lock, is another.                          *)
(***************************************************************************)
EXTENDS Integers, Sequences

CONSTANTS
    Pushers,    \* the threads that call push()
    MaxTicket   \* bound: how many tasks are pushed in a behaviour

ASSUME MaxTicketAssumption == MaxTicket \in Nat

VARIABLES
    queue,      \* _tasks, a sequence of tickets
    exit,       \* _exit
    worker,     \* where the serving thread is: "off" when there is none
    leave,      \* the local variable exit of loop()
    batch,      \* the local vector tasks: taken from the queue, still to run
    owner,      \* where the thread that calls start(), stop(), processTasks() is
    joinable,   \* _thread.joinable()
    pusher,     \* where each thread that calls push() is
    next,       \* history: the ticket of the next push
    lastRun,    \* history: the ticket of the last task run
    late,       \* history: the tickets pushed while _exit was set
    discarded   \* history: the tickets deleted unrun by the end of loop()

vars == <<queue, exit, worker, leave, batch, owner, joinable, pusher,
          next, lastRun, late, discarded>>

serverVars == <<worker, leave, batch, lastRun, discarded>>
ownerVars  == <<exit, owner, joinable>>

Tickets(s) == {s[i] : i \in DOMAIN s}

WorkerPlaces == {"off", "check", "waiting", "woken", "run", "clear"}
OwnerPlaces  == {"idle", "stopping", "joining", "polling"}

Constructed == queue = <<>> /\ exit = FALSE

Init ==
    /\ Constructed
    /\ worker = "off"
    /\ leave = FALSE
    /\ batch = <<>>
    /\ owner = "idle"
    /\ joinable = FALSE
    /\ pusher = [p \in Pushers |-> "idle"]
    /\ next = 1
    /\ lastRun = 0
    /\ late = {}
    /\ discarded = {}

-----------------------------------------------------------------------------
(* push(): append under the lock, then notify_all() without it.            *)

Append1 ==
    /\ next <= MaxTicket
    /\ queue' = Append(queue, next)
    /\ next' = next + 1
    /\ late' = IF exit THEN late \cup {next} ELSE late

WakeupNobody == UNCHANGED worker
Wakeup == worker' = IF worker = "waiting" THEN "woken" ELSE worker

Push(p) ==
    /\ pusher[p] = "idle"
    /\ Append1
    /\ pusher' = [pusher EXCEPT ![p] = "notify"]
    /\ UNCHANGED <<serverVars, ownerVars>>

PushNotify(p) ==
    /\ pusher[p] = "notify"
    /\ Wakeup
    /\ pusher' = [pusher EXCEPT ![p] = "idle"]
    /\ UNCHANGED <<queue, next, late, leave, batch, lastRun, discarded, ownerVars>>

\* The task being run pushes another one; its notification finds nobody waiting.
PushFromTask ==
    /\ batch # <<>>
    /\ Append1
    /\ UNCHANGED <<serverVars, ownerVars, pusher>>

-----------------------------------------------------------------------------
(* The owner: start(), stop(), processTasks() and clear().                 *)

Start(withThread) ==
    /\ owner = "idle" /\ ~joinable
    /\ exit' = FALSE
    /\ joinable' = withThread
    /\ worker' = IF withThread THEN "check" ELSE "off"
    /\ leave' = FALSE
    /\ UNCHANGED <<queue, batch, owner, pusher, next, lastRun, late, discarded>>

Stop ==
    /\ owner = "idle"
    /\ exit' = TRUE
    /\ owner' = "stopping"
    /\ UNCHANGED <<queue, joinable, serverVars, pusher, next, late>>

StopWithoutNotify ==
    /\ owner = "stopping"
    /\ owner' = IF joinable THEN "joining" ELSE "idle"
    /\ UNCHANGED <<queue, exit, joinable, serverVars, pusher, next, late>>

StopNotify ==
    /\ owner = "stopping"
    /\ Wakeup
    /\ owner' = IF joinable THEN "joining" ELSE "idle"
    /\ UNCHANGED <<queue, exit, joinable, leave, batch, pusher, next, lastRun,
                   late, discarded>>

Join ==
    /\ owner = "joining" /\ worker = "off"
    /\ owner' = "idle"
    /\ joinable' = FALSE
    /\ UNCHANGED <<queue, exit, serverVars, pusher, next, late>>

ProcessTasks ==
    /\ owner = "idle" /\ ~joinable
    /\ batch' = queue
    /\ queue' = <<>>
    /\ owner' = "polling"
    /\ UNCHANGED <<exit, joinable, worker, leave, pusher, next, lastRun, late,
                   discarded>>

ProcessTasksReturn ==
    /\ owner = "polling" /\ batch = <<>>
    /\ owner' = "idle"
    /\ UNCHANGED <<queue, exit, joinable, serverVars, pusher, next, late>>

Clear ==
    /\ owner = "idle"
    /\ queue' = <<>>
    /\ UNCHANGED <<ownerVars, serverVars, pusher, next, late>>

-----------------------------------------------------------------------------
(* The serving thread: loop(), with getTasks() cut where it waits.         *)

TakeAllWithoutPop == batch' = queue /\ UNCHANGED queue
TakeAll == batch' = queue /\ queue' = <<>>

\* MustLeave: the first test of getTasks(); MustLeaveAtOnce drops the second half.
MustLeaveAtOnce == exit
MustLeave == exit /\ queue = <<>>

GetTasks ==
    /\ worker = "check"
    /\ \/ /\ MustLeave
          /\ leave' = TRUE
          /\ worker' = "run"
          /\ UNCHANGED <<queue, batch>>
       \/ /\ ~MustLeave /\ queue = <<>>
          /\ worker' = "waiting"
          /\ UNCHANGED <<queue, batch, leave>>
       \/ /\ ~MustLeave /\ queue # <<>>
          /\ leave' = FALSE
          /\ TakeAll
          /\ worker' = "run"
    /\ UNCHANGED <<ownerVars, pusher, next, lastRun, late, discarded>>

\* wait() returns, after a notification or spuriously.
GetTasksAfterWait ==
    /\ worker \in {"waiting", "woken"}
    /\ leave' = exit
    /\ TakeAll
    /\ worker' = "run"
    /\ UNCHANGED <<ownerVars, pusher, next, lastRun, late, discarded>>

RunTask ==
    /\ batch # <<>>
    /\ lastRun' = Head(batch)
    /\ batch' = Tail(batch)
    /\ UNCHANGED <<queue, worker, leave, discarded, ownerVars, pusher, next, late>>

NextTurn ==
    /\ worker = "run" /\ batch = <<>>
    /\ worker' = IF leave THEN "clear" ELSE "check"
    /\ UNCHANGED <<queue, leave, batch, lastRun, discarded, ownerVars, pusher,
                   next, late>>

ClearAndReturn ==
    /\ worker = "clear"
    /\ discarded' = discarded \cup Tickets(queue)
    /\ queue' = <<>>
    /\ worker' = "off"
    /\ UNCHANGED <<leave, batch, lastRun, ownerVars, pusher, next, late>>

-----------------------------------------------------------------------------

Server == GetTasks \/ GetTasksAfterWait \/ RunTask \/ NextTurn \/ ClearAndReturn

Owner ==
    \/ \E withThread \in BOOLEAN : Start(withThread)
    \/ Stop \/ StopNotify \/ Join \/ ProcessTasks \/ ProcessTasksReturn \/ Clear

Next ==
    \/ \E p \in Pushers : Push(p) \/ PushNotify(p)
    \/ PushFromTask
    \/ Owner
    \/ Server

Spec == Init /\ [][Next]_vars

\* Threads keep running and tasks return; a wait() that nobody notifies may
\* last for ever, so GetTasksAfterWait is only fair once the thread is woken.
Fairness ==
    /\ WF_vars(GetTasks \/ RunTask \/ NextTurn \/ ClearAndReturn)
    /\ WF_vars(worker = "woken" /\ GetTasksAfterWait)
    /\ WF_vars(StopNotify) /\ WF_vars(Join) /\ WF_vars(ProcessTasksReturn)
    /\ \A p \in Pushers : WF_vars(PushNotify(p))

FairSpec == Spec /\ Fairness

-----------------------------------------------------------------------------

\* The values the variables take; the thread runs only between start() and the
\* join of stop(), which waits for it.
TypeOK ==
    /\ queue \in Seq(Nat) /\ batch \in Seq(Nat)
    /\ exit \in BOOLEAN /\ leave \in BOOLEAN /\ joinable \in BOOLEAN
    /\ worker \in WorkerPlaces
    /\ owner \in OwnerPlaces
    /\ pusher \in [Pushers -> {"idle", "notify"}]
    /\ next \in Nat /\ lastRun \in Nat
    /\ late \subseteq Nat /\ discarded \subseteq Nat
    /\ worker # "off" => joinable

\* Increasing(s): the tickets of s were pushed in the order they have in s.
Increasing(s) == \A i, j \in DOMAIN s : i < j => s[i] < s[j]

\* Tasks run in the order they were pushed, none twice: what is still to run
\* was pushed after what has run, and the batch being run before the queue.
FIFO ==
    /\ Increasing(batch) /\ Increasing(queue)
    /\ \A b \in Tickets(batch) : lastRun < b
    /\ \A q \in Tickets(queue) : lastRun < q
    /\ \A b \in Tickets(batch), q \in Tickets(queue) : b < q

\* The queue that loop() deletes on its way out (taskqueue.cpp, clear())
\* holds only tasks pushed after stop() was called: what was accepted before
\* is run, never dropped.
OnlyLateTasksDiscarded == discarded \subseteq late

\* stop() returns: the serving thread is woken, runs what is left and ends.
StopReturns == owner \in {"stopping", "joining"} ~> owner = "idle"

\* While the thread serves, a queued task leaves the queue: no wakeup is lost
\* between the emptiness test of getTasks() and its wait().
NoLostWakeup == (queue # <<>> /\ worker # "off") ~> (queue = <<>> \/ worker = "off")
=============================================================================
