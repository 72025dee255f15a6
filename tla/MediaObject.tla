---------------------------- MODULE MediaObject ----------------------------
(***************************************************************************)
(* One media object of a document (ExecutionObject) with its presentation  *)
(* events, the table of their transitions (EventTransitionManager), the    *)
(* player adapter that shows it, the player's timers, and the tasks those  *)
(* timers put in the queue of the system's thread.  Links, keys and the    *)
(* user ask for START, STOP, PAUSE, RESUME and ABORT at any time through   *)
(* FormatterScheduler::runAction.                                          *)
(*                                                                         *)
(* Everything runs on one thread, so a handler is one step; what           *)
(* interleaves are whole handlers: an action of the document, a timer that *)
(* fires, a task.  The parent composition only takes note of what it hears *)
(* (its own reaction is module Composition).                               *)
(***************************************************************************)
EXTENDS Integers, FiniteSets, SequencesExt

CONSTANTS
    Areas,          \* the events of the areas (temporal anchors) of the media
    Whole,          \* the event of the whole content (LambdaAnchor)
    Begin, AreaEnd, \* the times of each area
    ExplicitDur,    \* the explicitDur of the descriptor, or NoDur
    NoDur,
    None,
    MaxTime,        \* bound: the player's clock
    MaxTasks,       \* bound: tasks waiting in the queue
    MaxTimers,      \* bound: timers waiting in the player
    MaxPauses,      \* bound: pauses without a resume
    MaxRuns         \* bound: presentations in a behaviour

Events == Areas \cup {Whole}
Inf    == MaxTime + 1       \* IntervalAnchor::OBJECT_DURATION
Times  == 0..MaxTime

ASSUME EventsAssumption ==
    /\ MaxTime \in Nat /\ MaxTasks \in Nat /\ MaxTimers \in Nat
    /\ MaxPauses \in Nat /\ MaxRuns \in Nat
    /\ Whole \notin Areas /\ None \notin Events
    /\ \A a \in Areas : Begin[a] \in Times /\ AreaEnd[a] \in Begin[a]..Inf
    /\ ExplicitDur \in Times \cup {NoDur}

\* The documents modelled: no area begins after the explicit duration.  The end of the
\* whole content is put last in the table whatever its time; with two such areas the
\* binary search may put the end of a third one before its begin.
ASSUME DurAssumption == ExplicitDur # NoDur => \A a \in Areas : Begin[a] <= ExplicitDur

VARIABLES
    object,     \* the ExecutionObject and what its parent made of its events
    player,     \* _players: "none", or the adapter and what its player does
    clock,      \* uptime() of the player
    timers,     \* the timers of the player, by their time (TimeLineTimer)
    tasks,      \* the queued proccessTransition(object, ms)
    run,        \* history: how many presentations have begun or ended
    stale,      \* history: a task of an earlier presentation was run
    refused,    \* history: an object was prepared and then not played
    crashed     \* a NULL pointer was used

vars == <<object, player, clock, timers, tasks, run, stale, refused, crashed>>

States == {"SLEEPING", "OCCURRING", "PAUSED"}

\* "blank" is an adapter whose object is NULL, "ready" one that is not playing.
PlayerStates == {"none", "blank", "ready", "playing", "paused"}

-----------------------------------------------------------------------------
(* FormatterEvent: the state machine of an event, and the listeners.       *)

From == [start |-> {"SLEEPING"}, stop |-> {"OCCURRING", "PAUSED"},
         abort |-> {"OCCURRING", "PAUSED"}, pause |-> {"OCCURRING"},
         resume |-> {"PAUSED"}]

\* ST_ABORTED lasts only while the listeners are called.
To == [start |-> "OCCURRING", stop |-> "SLEEPING", abort |-> "SLEEPING",
       pause |-> "PAUSED", resume |-> "OCCURRING"]

\* CompositeExecutionObject::eventStateChanged: the sets kept by the parent, when
\* it is told of the same transition of each of these events.
ParentHears(o, es, tr) ==
    [o EXCEPT !.running = IF To[tr] = "OCCURRING" THEN @ \cup es
                          ELSE @ \ {e \in es : o.st[e] = "OCCURRING"},
              !.paused  = IF To[tr] = "PAUSED" THEN @ \cup es
                          ELSE @ \ {e \in es : o.st[e] = "PAUSED"}]

SetState(o, es, s) == [o EXCEPT !.st = [e \in Events |-> IF e \in es THEN s ELSE o.st[e]]]

\* The same transition of several events; each is made only by those in a state that
\* has it.  EventManager::onEvent: nobody hears the events of an unprepared object.
ChangeAll(o, es, tr) ==
    LET changed == {e \in es : o.st[e] \in From[tr]}
        told    == IF o.main = None THEN {} ELSE changed \cap o.heard
    IN SetState(ParentHears(o, told, tr), changed, To[tr])

-----------------------------------------------------------------------------
(* EventTransitionManager                                                  *)

BeginOf(e) == IF e = Whole THEN 0 ELSE Begin[e]

Transition(kind, at, e) == [kind |-> kind, at |-> at, event |-> e]

Before(t, u) == t.at < u.at \/ (t.at = u.at /\ t.kind = "begin" /\ u.kind = "end")

\* The binary search of addEventTransition(), on positions counted from 0.
Search(table, t) ==
    LET n == Len(table)
        search[r \in (0..n) \X (-1..n-1)] ==
            IF r[1] > r[2] THEN r[1]
            ELSE LET pos == (r[1] + r[2]) \div 2 IN
                 IF Before(t, table[pos + 1]) THEN search[<<r[1], pos - 1>>]
                                              ELSE search[<<pos + 1, r[2]>>]
    IN search[<<0, n - 1>>]

AddTransition(table, t) == InsertAt(table, Search(table, t) + 1, t)

InTable(table, e) == \E i \in DOMAIN table : table[i].event = e

AddPresentationEvent(table, e, end) ==
    IF e = Whole
    THEN Append(<<Transition("begin", 0, e)>> \o table, Transition("end", end, e))
    ELSE AddTransition(AddTransition(table, Transition("begin", BeginOf(e), e)),
                       Transition("end", end, e))

\* An event is in the table with both its ends or not at all.
Place(table, kind, e) ==
    CHOOSE i \in DOMAIN table : table[i].kind = kind /\ table[i].event = e

RemovePresentationEvent(table, e) ==
    RemoveAt(RemoveAt(table, Place(table, "end", e)), Place(table, "begin", e))

UptoTooFar(table, from, time) ==
    LET later == {i \in from + 1 .. Len(table) : table[i].at > time + 1}
    IN IF later = {} THEN Len(table) ELSE Min(later) - 1

\* The loops over the table go on from a position up to the first transition later
\* than a time.
Upto(table, from, time) ==
    CHOOSE n \in from..Len(table) :
        /\ \A i \in from + 1 .. n : table[i].at <= time
        /\ n < Len(table) => table[n + 1].at > time

EventsAt(o, kind, positions) ==
    {o.table[i].event : i \in {j \in positions : o.table[j].kind = kind}}

\* prepare(): skip, without telling anyone, what lies before startTime.
PrepareTransitions(o, startTime) ==
    LET n == IF o.main = Whole /\ startTime = 0 THEN 0 ELSE Upto(o.table, 0, startTime - 1)
        begun == SetState(o, EventsAt(o, "begin", 1..n), "OCCURRING")
    IN [SetState(begun, EventsAt(o, "end", 1..n), "SLEEPING") EXCEPT !.first = n, !.current = n]

ResetTimeIndex(o) == [o EXCEPT !.current = o.first]

\* The positions passed when the time comes.
Due(o, time) == o.current + 1 .. Upto(o.table, o.current, time)

Advance(o, time) == [o EXCEPT !.current = Upto(o.table, o.current, time)]

\* start(): takes no notice of the ends it passes.
StartTransitions(o, offset) ==
    ChangeAll(Advance(o, offset), EventsAt(o, "begin", Due(o, offset)), "start")

\* EndAll: stop() of the whole table, abort() of what lies after the current
\* index; what ends later than the main event is put to sleep silently.
EndAll(o, from, tr) ==
    LET positions == from..Len(o.table)
        late == {i \in positions : o.table[i].at > o.end[o.main]}
    IN ChangeAll(SetState(o, {o.table[i].event : i \in late}, "SLEEPING"),
                 EventsAt(o, "end", positions \ late), tr)

\* updateTransitionTable(): the end of the main event is left to the caller ...
UpdateTransitionTable(o, ms) ==
    LET begun == ChangeAll(Advance(o, ms), EventsAt(o, "begin", Due(o, ms)), "start")
    IN ChangeAll(begun, EventsAt(o, "end", Due(o, ms)) \ {o.main}, "stop")

\* ... who is told of it by the result: FALSE when the last end met is the main's.
MustGoOnAlways(o, ms) == TRUE

MustGoOn(o, ms) ==
    LET ends == {i \in Due(o, ms) : o.table[i].kind = "end"}
    IN ends = {} \/ o.table[Max(ends)].event # o.main

NextTransition(o) ==
    LET t == o.table[o.current + 1] IN
    IF o.main = None \/ o.current = Len(o.table) THEN None
    ELSE IF o.st[o.main] = "SLEEPING" \/ t.at = Inf THEN None
    ELSE IF o.end[o.main] # Inf /\ t.at > o.end[o.main] THEN None
    ELSE t.at

-----------------------------------------------------------------------------
(* ExecutionObject                                                         *)

Asleep(o) == o.main = None \/ o.st[o.main] = "SLEEPING"

PrepareObject(o, e) ==
    IF ~Asleep(o) THEN o
    ELSE IF BeginOf(e) > o.end[e] THEN [o EXCEPT !.main = e]
    ELSE PrepareTransitions([o EXCEPT !.main = e, !.heard = @ \cup {e},
                                      !.offset = BeginOf(e)], BeginOf(e))

StopObjectStillPaused(o) ==
    IF Asleep(o) THEN o ELSE ResetTimeIndex(EndAll(o, 1, "stop"))

StopObject(o) ==
    IF Asleep(o) THEN o ELSE [ResetTimeIndex(EndAll(o, 1, "stop")) EXCEPT !.pauseCount = 0]

AbortObject(o) ==
    IF Asleep(o) THEN o
    ELSE [ResetTimeIndex(EndAll(o, o.current + 1, "abort")) EXCEPT !.pauseCount = 0]

PauseObject(o) ==
    LET occurring == {e \in Events : o.st[e] = "OCCURRING"} IN
    [IF o.pauseCount = 0 THEN ChangeAll(o, occurring, "pause") ELSE o
        EXCEPT !.pauseCount = @ + 1]

ResumeObject(o) ==
    LET paused == {e \in Events : o.st[e] = "PAUSED"} IN
    [IF o.pauseCount = 1 THEN ChangeAll(o, paused, "resume") ELSE o
        EXCEPT !.pauseCount = @ - 1]

UnprepareKeepListening(o) == IF ~Asleep(o) THEN o ELSE [o EXCEPT !.main = None]

Unprepare(o) ==
    IF o.main = None \/ ~Asleep(o) THEN o
    ELSE [o EXCEPT !.heard = @ \ {o.main}, !.main = None]

-----------------------------------------------------------------------------
(* The adapter of the player, and the manager of the adapters.             *)

NoTimer == [t \in Times |-> 0]

AddTimer(ts, at) == IF at = None THEN ts ELSE [ts EXCEPT ![at] = @ + 1]

TimerRoom == FoldFunction(+, 0, timers) < MaxTimers

\* FormatterPlayerAdapter::hasPrepared()
HasPrepared == player \notin {"none", "blank"} /\ ~Asleep(object)

\* The explicit duration is given to the event again at each preparation.
SetExplicitDur(o, e) ==
    LET end == IF ExplicitDur >= BeginOf(e) THEN ExplicitDur ELSE o.end[e] IN
    IF ExplicitDur = NoDur THEN o
    ELSE [o EXCEPT !.end[e] = end,
                   !.table = AddPresentationEvent(RemovePresentationEvent(@, e), e, end)]

Playing == player \in {"playing", "paused"}

Play(o) ==
    /\ object' = StartTransitions(o, o.offset)
    /\ player' = "playing"
    /\ clock' = 0
    /\ timers' = AddTimer(IF Playing THEN NoTimer ELSE timers, NextTransition(object'))
    /\ UNCHANGED refused

\* The adapter has an object, and a player that does not play.
NotPlayed(o) ==
    /\ object' = o
    /\ player' = IF Playing THEN player ELSE "ready"
    /\ refused' = TRUE
    /\ UNCHANGED <<clock, timers>>

PlayFailed(o) ==
    /\ object' = o
    /\ player' = "ready"
    /\ clock' = 0
    /\ timers' = IF Playing THEN NoTimer ELSE timers
    /\ refused' = TRUE

\* START.  A START of what has been prepared changes nothing (canStart() is
\* false), nor does one for which no player can be created.
Start(e) ==
    /\ ~crashed /\ ~HasPrepared /\ run < MaxRuns /\ \A f \in Events : InTable(object.table, f)
    /\ LET o == SetExplicitDur(object, e) IN
       IF o.st[e] # "SLEEPING" THEN NotPlayed(o)
       ELSE LET ready == PrepareObject(o, e) IN
            \/ NotPlayed(ready)                 \* createPlayer() was refused a property
            \/ Asleep(ready) /\ Play(ready)
            \/ Asleep(ready) /\ PlayFailed(ready)
    /\ UNCHANGED <<tasks, run, stale, crashed>>

DeletePlayer(o) ==
    /\ object' = o
    /\ player' = "none"
    /\ clock' = 0
    /\ timers' = NoTimer
    /\ run' = run + 1

\* PlayerAdapterManager::stop() of an object whose adapter is o's.
StopPlayer(o) ==
    \/ /\ player = "none"
       /\ object' = o
       /\ UNCHANGED <<player, clock, timers, run, crashed>>
    \/ /\ player = "blank"      \* object->getDescriptor() with object NULL
       /\ object' = o
       /\ crashed' = TRUE
       /\ UNCHANGED <<player, clock, timers, run>>
    \/ /\ player \notin {"none", "blank"}
       /\ DeletePlayer(Unprepare(StopObject(o)))
       /\ UNCHANGED crashed

Stop ==
    /\ ~crashed
    /\ StopPlayer(object)
    /\ UNCHANGED <<tasks, stale, refused>>

Abort ==
    /\ ~crashed /\ HasPrepared
    /\ StopPlayer(AbortObject(object))
    /\ UNCHANGED <<tasks, stale, refused>>

Pause ==
    /\ ~crashed /\ HasPrepared /\ object.pauseCount < MaxPauses
    /\ object' = PauseObject(object)
    /\ player' = IF player = "playing" THEN "paused" ELSE player
    /\ UNCHANGED <<clock, timers, tasks, run, stale, refused, crashed>>

\* The player is only unpaused by the RESUME that answers the first PAUSE.
Resume ==
    /\ ~crashed /\ player \notin {"none", "blank"} /\ object.pauseCount > 0
    /\ object' = ResumeObject(object)
    /\ player' = IF object.pauseCount = 1 /\ player = "paused" THEN "playing" ELSE player
    /\ UNCHANGED <<clock, timers, tasks, run, stale, refused, crashed>>

-----------------------------------------------------------------------------
(* Time, timers and tasks.                                                 *)

Tick ==
    /\ player = "playing" /\ clock < MaxTime
    /\ clock' = clock + 1
    /\ UNCHANGED <<object, player, timers, tasks, run, stale, refused, crashed>>

\* onTransitionTimer(): "Enqueue because timelinetimer belongs to the player".
TimerFires ==
    /\ ~crashed /\ player = "playing" /\ Len(tasks) < MaxTasks
    /\ \E t \in Times :
          /\ timers[t] > 0 /\ t <= clock
          /\ \A u \in 0..(t - 1) : timers[u] = 0
          /\ timers' = [timers EXCEPT ![t] = @ - 1]
          /\ tasks' = Append(tasks, [ms |-> t, run |-> run])
    /\ UNCHANGED <<object, player, clock, run, stale, refused, crashed>>

\* ProcessTransitions: getPlayer(object, true)->processTransitions(); when there
\* is no adapter one is created, that knows of no object.
ProcessTransitions(o) ==
    /\ player' = IF player = "none" THEN "blank" ELSE player
    /\ timers' = IF player' = "blank" THEN timers ELSE AddTimer(timers, NextTransition(o))

ProccessTransition ==
    /\ ~crashed /\ tasks # <<>> /\ TimerRoom
    /\ LET ms == Head(tasks).ms
           o  == UpdateTransitionTable(object, ms)
       IN IF MustGoOn(object, ms)
          THEN /\ object' = o
               /\ ProcessTransitions(o)
               /\ UNCHANGED <<clock, run, crashed>>
          ELSE StopPlayer(o)
    /\ tasks' = Tail(tasks)
    /\ stale' = (stale \/ Head(tasks).run # run)
    /\ UNCHANGED refused

-----------------------------------------------------------------------------

EndOf(e) == IF e = Whole THEN Inf ELSE AreaEnd[e]

Init ==
    /\ object = [st |-> [e \in Events |-> "SLEEPING"], main |-> None, offset |-> 0,
                 table |-> <<>>, end |-> [e \in Events |-> EndOf(e)],
                 first |-> 0, current |-> 0, pauseCount |-> 0,
                 heard |-> {}, running |-> {}, paused |-> {}]
    /\ player = "none" /\ clock = 0 /\ timers = NoTimer
    /\ tasks = <<>> /\ run = 0 /\ stale = FALSE /\ refused = FALSE
    /\ crashed = FALSE

\* The converter adds the events in any order, the whole content among them, before
\* any of them is started.
AddEvent(e) ==
    /\ ~InTable(object.table, e)
    /\ object' = [object EXCEPT !.table = AddPresentationEvent(@, e, object.end[e])]
    /\ UNCHANGED <<player, clock, timers, tasks, run, stale, refused, crashed>>

Next ==
    \/ \E e \in Events : AddEvent(e) \/ Start(e)
    \/ Stop \/ Abort \/ Pause \/ Resume
    \/ Tick \/ TimerFires \/ ProccessTransition

Spec == Init /\ [][Next]_vars

\* What ProccessTransition does to the queue; only it shortens the queue, and it
\* can whenever this can (stated apart because TLC decides it much faster).
TaskTaken == ~crashed /\ TimerRoom /\ tasks # <<>> /\ tasks' = Tail(tasks)

\* The player's clock runs, its timers fire, and the thread runs its tasks.
Fairness == WF_vars(Tick) /\ WF_vars(TimerFires) /\ WF_tasks(TaskTaken)

FairSpec == Spec /\ Fairness

-----------------------------------------------------------------------------

Main == object.main

\* Nothing has gone wrong before: no task outlived its presentation, no START
\* was given up half way.
Smooth == ~stale /\ ~refused

\* The values of the variables; an event that is in the table has both its ends there.
TypeOK ==
    /\ object.st \in [Events -> States]
    /\ object.main \in Events \cup {None}
    /\ object.first \in 0..Len(object.table) /\ object.current \in object.first..Len(object.table)
    /\ \A e \in Events : InTable(object.table, e) =>
          \A kind \in {"begin", "end"} : \E i \in DOMAIN object.table :
              object.table[i] = Transition(kind, IF kind = "begin" THEN BeginOf(e) ELSE object.end[e], e)
    /\ object.heard \subseteq Events
    /\ object.running \subseteq Events /\ object.paused \subseteq Events
    /\ player \in PlayerStates /\ timers \in [Times -> Nat]

\* What the parent composition holds of the object agrees with the object: the
\* main event is in its running or paused set exactly when it is occurring or
\* paused, whatever was changed silently, and no other event is in them.
ParentAgrees ==
    Smooth =>
    /\ object.running = {e \in {Main} \cap Events : object.st[e] = "OCCURRING"}
    /\ object.paused  = {e \in {Main} \cap Events : object.st[e] = "PAUSED"}

\* An event that ends just where another begins (or the explicit duration of which
\* ends there): an object started at that point never learns of its end, as start()
\* takes no notice of the ends it passes.
Touching(e) == \E f \in Events : BeginOf(f) \in {EndOf(e), ExplicitDur}

\* The events of the object follow its main event: none outlives it, and pauses are
\* counted right, so that while one is in force the main event is paused and its player
\* is not playing, and when none is no event stays paused.
EventsFollowMain ==
    /\ object.pauseCount > 0 =>
          Main # None /\ object.st[Main] = "PAUSED" /\ player # "playing"
    /\ Smooth => \A e \in Events : ~Touching(e) =>
          /\ Asleep(object) => object.st[e] = "SLEEPING"
          /\ object.pauseCount = 0 => object.st[e] # "PAUSED"

\* No area begins before its time on the player's clock, unless the object is
\* started at a later point of the content or a task outlived its presentation.
NothingEarly ==
    [][\A e \in Areas :
          (object.st[e] = "SLEEPING" /\ object'.st[e] = "OCCURRING" /\ ~stale')
              => Begin[e] <= clock \/ Begin[e] <= object'.offset]_vars

\* No transition that is later comes before the end of the main event in the table, and no
\* end of its time or sooner comes after it.
EndsInTurn == \A i, j \in DOMAIN object.table :
    object.table[i].event = Main /\ object.table[i].kind = "end" =>
        /\ j < i => object.table[j].at <= object.table[i].at
        /\ j > i /\ object.table[j].kind = "end" => object.table[i].at < object.table[j].at

\* A main event that has an end, later than where it is started, comes to it, unless it is
\* kept paused.  (Another end of the same time, later in the table, would hide it, and so
\* would an area that outlasts the explicit duration, whose end comes before it.)
MainEnds ==
    (/\ Smooth /\ ~Asleep(object) /\ EndsInTurn
     /\ object.end[Main] < Inf /\ object.offset < object.end[Main])
        ~> (Asleep(object) \/ object.pauseCount > 0 \/ ~Smooth)
=============================================================================
