# Ginga, verified in part

Ginga is a player of NCL documents: XML files that say which media (video, audio,
text, HTML, Lua) are shown where and when, and which links between them react to
what happens. This directory holds TLA+ models of the part of it that decides
*what runs when*, the TLC configurations that check them on small instances, and
TLAPS proofs of theorems about them for every value of their constants.

Paths below are relative to `src/lib/`.

1. The system: its components, their state and what makes them correct
2. Plan
3. The modules and the code
4. The runs, their bounds and what they show
5. Fairness
6. What is proved
7. What is only model-checked, and what is not modelled

## 1. The system

### 1.1 How the parts work together

Everything that matters to a document runs in **one thread**, the main loop of the
system of the canvas (`dtv-canvas/src/impl/gtk/system.cpp` for the gtk build). It
takes, one at a time: keys, timers that are due, callbacks of players, and *tasks*
that any part may enqueue. So a handler is never interrupted by another thread.
What makes the code hard is something else:

* **Handlers nest.** A transition of an event calls its listeners before it
  returns; a link among them runs actions; an action changes another event, or the
  same one, whose listeners are called in turn; only then does the outer loop over
  its listeners go on. The same happens with keys and with the timers of a player.
* **What a timer or a task was set for may be gone** when it runs: the object was
  stopped, stopped and started again, or deleted.
* **Delays.** Conditions and actions of links may wait; the composition they belong
  to must neither end too soon nor never.
* **Half-done operations.** A player cannot be created, refuses a property or does
  not start, after the object was prepared and others have been told.

Two pieces do run between threads: the task queue of `dtv-util`, and the event
dispatcher of `dtv-util` that other builds use for their main loop.

    keys, user          document (NCL)            timers of players, delays of links
        |                    |                                  |
    input manager     converter, mediator                  task queue
        |                    |                                  |
    focus manager ---> scheduler: runAction(object, action) <---+
                             |
              player adapters <-> media objects (events, transition table)
                             |          | transitions of events
                        players         v
                     (time line)   event manager: scheduler, links, compositions
                                              |          |
                                   actions of links     running, paused, pending

### 1.2 Components

| component | state it keeps | operations | what makes it correct |
|---|---|---|---|
| task queue (`dtv-util/src/taskqueue.cpp`) | queue of tasks, exit flag, serving thread | `push`, `start`, `stop`, `processTasks`, `clear`, `loop` | order of the pushes; none accepted is lost; `stop()` returns; no wakeup is lost |
| event manager and events (`ncl30-presenter/src/model/event`) | listeners of each event by priority, enabled or not; state of the event | `addListener`, `delListener`, `onEvent`; `start`, `stop`, `abort`, `pause`, `resume` | scheduler first and before anything else happens, links, then compositions; those who left are not called; one record each |
| media objects (`model/components/ExecutionObject.cpp`, `model/event/transition`) | main event, events, table of transitions and an index in it, count of pauses | `prepare`, `start`, `stop`, `abort`, `pause`, `resume`, `unprepare`, `updateTransitionTable` | areas begin and end on time and never outlive the object; the parent knows what runs; pauses balance; the object ends |
| player adapters (`adapters/FormatterPlayerAdapter.cpp`, `PlayerAdapterManager.cpp`) | adapter of each object and its player, next timer, queued tasks | the same actions, `onTransitionTimer`, `proccessTransition` | one timer for the next transition, always; nothing is done for an object that is gone |
| time line of a player (`dtv-gingaplayer/src/player/timelinetimer.cpp`) | state, elapsed time, heap of timers, one timer of the system | `addTimer`, `start`, `stop`, `pause`, `unpause`, `onExpired` | each timer once, in order, not early, not never; one timer in the system |
| compositions (`model/components/CompositeExecutionObject.cpp`) | running and paused objects, pending links, own event | `eventStateChanged`, `linkEvaluationStarted`, `linkEvaluationFinished` | its event occurs exactly while something in it runs or is still to run |
| links (`model/link`) | conditions, delays under way, pending actions of compound actions | `eventStateChanged`, `conditionSatisfied`, `run`, `actionProcessed` | each evaluation that starts is reported finished once, with whether it started something |
| scheduler (`FormatterScheduler.cpp`) | documents under way | `runAction`, `runActionOver...`, `startDocument`, `stopDocument` | an action reaches what it is for, in the order of the document |
| conditions of links (`model/link/Link*Condition.cpp`, `Link*Statement.cpp`) | what a conjunction still waits for, delays under way | `eventStateChanged`, `conditionSatisfied`, `evaluate` | the composition counts the evaluations under way; none is lost; all end |
| switches (`model/switches`, `adapters/RuleAdapter.cpp`) | selected component, mapped events | selection, `eventStateChanged` | only the selected component plays, and its events are the switch's |
| focus manager (`focus/FormatterFocusManager.cpp`) | focus, selection, objects that may get it | `showObject`, `hideObject`, `changeFocus`, `setKeyMaster` | focus is on an object that is shown; keys reach the selected one |
| document life cycle (`presentationenginemanager.cpp`, `FormatterMediator.cpp`) | the formatter of the current document, flags of pause and stop | `startDocument`, `stopDocument`, keys, `run` | nobody uses a formatter that is gone; every start returns |
| converter (`emconverter`) | objects and links made from the document, on demand | `getExecutionObject`, `processLink`, `eventStateChanged` | each node once; links compiled while their composition runs |
| application objects, Lua player | current event of the application | as media objects, plus events of the script | one event at a time |
| player (`dtv-gingaplayer/src/player.cpp`) | loaded, playing, paused; duration; callbacks | `play`, `pause`, `resume`, `stop` | stop callbacks once |
| input manager (`dtv-gingaplayer/src/input/manager.cpp`) | listeners, their keys, keys reserved for all | `addInputListener`, `delInputListener`, `dispatchKey` | a key reaches who reserved it; a key is taken from the devices while someone wants it |
| canvas (`dtv-canvas/src/canvas.cpp`, `surface.cpp`, `rect.cpp`) | surfaces, dirty regions, transactions | draw, show, hide, move, resize, remove; `flush`, `beginDraw`, `endDraw` | what changed is painted, from all that shows there, though regions are joined and cut |
| dispatcher (`dtv-util/src/io/ev/dispatcher.cpp`) | posted tasks, timers, the loop | `postEvent`, `addTimer`, `stopTimer`, `exit`, `run`, `finalize` | each task once, in order; a stopped timer does not fire |
| parser, data model, animations, identifiers, utilities | | | not where the ordering of a presentation is decided |

`PROJECT.json` lists every one of these with its files and status, and under
`hazards` the lines of the code where something could go wrong that a test would
hardly reach, with the property that watches it or why there is none yet.

## 2. Plan

The order follows the importance for what a viewer sees.

1. **Done: what runs when.** `TaskQueue`; `EventDispatch`, the mechanism all the rest
   uses; `MediaObject`, a media from START to its end; `Composition`, objects and links
   that react on one another; `LinkConditions`, from transitions to the run of a link;
   `Switch`; `TimeLineTimer` over the abstract `TimerService`.
2. **Done: what is around it.** `PresentationEngine` (documents, one after the other),
   `InputManager` (keys), `Canvas` over the abstract `Painting`, `Dispatcher` over the
   abstract `Mailbox`.
3. **Done: theorems** about all of these (section 6): every invariant and every action property
   that a run checks is proved for all values of the constants.
4. **Left, components.** The focus manager over `InputManager`; compositions inside
   compositions; repetitions and attribution events of media objects; `Player`;
   application objects with the event queue of the Lua player.
5. **Left, theorems.** Those of the components left. Liveness stays with TLC (section 7).

Modules that are proved about declare no `RECURSIVE` operator: recursion is a fold or
a recursive function.

## 3. The modules and the code

| module | code | variables | actions |
|---|---|---|---|
| `TaskQueue` | `util::TaskQueue` | `queue` = `_tasks`, `exit` = `_exit`, `joinable`, the place and the locals of `loop()` (`worker`, `leave`, `batch`), the places of the owner and of the pushing threads | each section under the mutex and each notification outside it is a step |
| `EventDispatch` | `EventManager`, `FormatterEvent` | `state` = `currentState`, `records` = the list of one event, `enabled`, `freed`, and `stack`: one frame per `onEvent()` under way, with its copy of the list | registration, change of state, each iteration of the loop, the return of a listener, the clean-up |
| `MediaObject` | `ExecutionObject`, `EventTransitionManager`, `FormatterPlayerAdapter`, `PlayerAdapterManager` | `object` (states, main event, table, index, pauses, listeners, and what the parent holds), `player`, `clock`, `timers`, `tasks` | `AddEvent` of the converter, one per action of the scheduler, plus clock, timers and tasks |
| `Composition` | `CompositeExecutionObject`, `FormatterCausalLink` and its actions, `FormatterScheduler` | `child`, `composite`, `compound`, `delayed`, and `stack`: the calls under way | each step of a nested call; what the main loop takes when no call is under way |
| `TimerService` | the promise of a time line | `mode`, `ran`, `heap` | add, begin, end, hold, release, pass, dispatch |
| `TimeLineTimer` | `player::TimeLineTimer` over timers of gtk | those, `elapsed`, `startTimer`, `timerID`, `system`, `frames`: the activations under way | the methods, the loop of `startTimer()`, `onExpired()` and the returns of callbacks |
| `LinkConditions` | `LinkTransitionTriggerCondition`, `LinkCompoundTriggerCondition`, `LinkAndCompoundTriggerCondition`, statements, `FormatterCausalLink`, `LinkCompoundAction` | `tree` = the conditions, `unsatisfied` = `unsatisfiedConditions`, `due`, `timers`, `rising` (the condition that is calling the one around it), `pending`; `action`, `waiting` (runs of it that are delayed), `todo` (simple actions to come), `pendingActions` | a transition, the call of each leaf, the rise of each condition to the next, the end of a delay, the begin of a delayed compound action, the end of each simple action |
| `Switch` | `ExecutionObjectSwitch`, `SwitchEvent`, `RuleAdapter`, and what the scheduler and the converter do with them | `selected` = `selectedObject`, `mapped` = `mappedEvent`, `states`, `component`, `settings` | actions through an event and over the composition, the end of a component, late events, changes of settings |
| `PresentationEngine` | `PresentationEngineManager`, `FormatterMediator`, start and end in `FormatterScheduler` | `formatter`, `stopped`, `paused`, `queue`, `client` (its place in `startDocument()`), `phase` of each document | the steps of the client, the tasks of the loop, keys, the end of a document |
| `InputManager` | `input::Manager` | `listeners`, `enabled`, `keys`, `globalKeys` = `_globalKeys`, `told`, `frames` (one per `dispatchKey()`) | add, delete, dispatch, each turn of the loop, the return of a callback, the clean-up |
| `Painting` | the promise of a canvas | `outOfDate`, `noted` | change, paint |
| `Rects`, `Canvas` | `Rect`, `Canvas`, `Surface` | `bounds`, `visible`, `autoFlush`, `dirtySurfaces`, `dirtyRegions`, `work` (calls of `invalidateRegion()` to be made), `inTransaction`, `stale` (pixels that show what they should not) | operations of surfaces, each call of `invalidateRegion()`, flush and transactions |
| `Mailbox` | the promise to those who post a task | `posted`, `begun`, `running` | post, begin, finish |
| `Dispatcher` | `io::ev::Dispatcher` on libev | `tasks`, `signalled`, `timers`, `frames` (what the main thread is in the middle of), `waking`, `sending` | hand-over and signal of each thread, `wakeup()`, each task, `timer_cb()`, run and finalize |
| `MCMediaObject`, `MCComposition`, `MCLinkConditions`, `MCSwitch`, `MCCanvas` | | instances for TLC | |
| the eight `...Proofs` | | theorems; `EventDispatchProofs` also has those of `LinkConditions`, `CompositionProofs` those of `Switch`, `CanvasProofs` those of `InputManager` | |

`MediaObject` models one object and takes the listeners' reactions away (links act
between its steps, not inside them); `Composition` models the reactions inside a
transition and takes the inside of an object away (an object is its main event). They
meet in `Hear`/`ParentHears` and in the four states of an adapter, which are the same
code in both. `EventDispatch` explains why `Composition` may call its links first
and the composition last. `LinkConditions` is the front of the links of `Composition`,
whose conditions are single triggers: both count in `pending` what the composition
waits for, by the same two calls. In `LinkConditions` a link may also run again while its compound
action is unfinished: its `pendingActions` is then set anew, and the report of one of the
two runs is `lost`. `PendingIsCounted` and `EvaluationsEnd` count those runs.

Choices worth knowing:

* *Undefined behaviour and half-done operations end the claim, not the model.* A
  flag records that the code has entered a state from which it works on deleted
  memory or that a START was given up half way: `dangling` (a record deleted by a
  nested clean-up is read: what is read is a free choice), `stale` (a task of an
  earlier presentation was run), `refused` and `failed` (an object could not be
  played), `reentered` (an action met the very object whose transition was being
  told). `stale`, `refused` and `failed` states go on, and the properties say
  themselves whether they are claimed there; after `reentered` the model of the
  composition stops, because the code goes on with an adapter that was deleted.
  Each is listed as a hazard. So are the flags of the newer modules: `refused` in
  `LinkConditions` (a statement was false), `cut` and `left` in `Switch` (an event that
  missed a transition, a component forgotten while it plays), `rushed` and `failed` in
  `PresentationEngine` (a key came while there was no document), `forgotten` in `Canvas`
  (pixels of a resized surface that nobody marks) and the `deleted` part of a frame of
  `InputManager`.
* *Time is discrete.* In `MediaObject` a tick is the distance between two times of
  the document, in `TimeLineTimer` a fraction of a millisecond (`Unit` ticks each),
  because rounding elapsed time is where a time line could go wrong.
* *Order without order.* `std::sort` and sets of pointers have no order the code can
  rely on: listeners of one priority, the links to call and the order in which the
  converter adds the events of an object are free choices.

## 4. The runs, their bounds and what they show

| run | instance | distinct states | checks |
|---|---|---|---|
| `task_queue` | 2 pushing threads, 4 tasks, with or without thread | 79,184 | `FIFO`, `OnlyLateTasksDiscarded`, `StopReturns`, `NoLostWakeup`, no deadlock |
| `event_dispatch` | one listener of each priority, 4 records, 2 nested dispatches | 1,769,926 | `CoreIsCurrent`, `CalledByPriority`, `RegisteredOnce`, `OnlyRegisteredCalled` |
| `media_object` | 3 areas at 1..2, 1..3 and 2..3, explicit duration 3, clock to 4, 2 presentations | 51,234 | `ParentAgrees`, `EventsFollowMain`, `NothingEarly`, `MainEnds` |
| `composition` | 2 objects, 2 links: 56 each with delays of conditions, or 8 each with delays of actions | 7,425,876 | `ChildrenAgree`, `PendingAgrees`, `EndsWithItsObjects`, `EndsOnce` |
| `link_conditions` | 34 trees of at most 5 conditions, 3 actions (a simple one; a compound of 2; a delayed compound of 1), 2 transitions heard twice, 2 assessments: 408 initial states | 305,926 | `PendingIsCounted`, `RunsNoMoreThanDue`, `NothingHeardIsLost`, `EvaluationsEnd` |
| `switch` | 3 components, 2 overlapping rules over 2 properties, 3 interfaces, one made late | 12,492 | `OnlySelectedPlays`, `MappedIsSelected`, `EventsAgree` |
| `presentation_engine` | 4 documents, 4 keys | 2,977 | `NothingFails`, `EngineAgrees`, `StopIsForTheWaiter`, `StartsReturn` |
| `input` | 3 listeners, 2 of which dispatch, 1 key, 2 nested dispatches | 228,335 | `KeysAgree`, `NobodyIsMissed`, `OnlyReservingAreCalled`, `DispatchEnds` |
| `dispatcher` | 2 threads and the main one, 2 timers, 4 tasks | 207,111 | `StoppedAreGone`, `ImplementsMailbox`, `EveryTaskRuns` |
| `canvas` | 3 by 2 pixels, 2 surfaces, 3 places, 2 nested transactions | 209,520 | `CutIsAside`, `ImplementsPainting`, `EndDrawPaints` |
| `time_line` | timers at 0, 1, 2 ms, 2 ticks a ms, 6 ticks, 3 activations | 50,344 | `ExpiresAsRegistered`, `DueIsDispatched`, `Service` |
| `time_line_nested` | the same, late callbacks may add timers | violation | `ExpiresAsRegistered`: two timers in the system, the forgotten one fails the assertion |

Why the bounds are enough to meet the interesting cases:

* *Task queue*: two pushers may both be between push and notification while the
  worker is between its test and its wait; four tasks fill a batch and the queue at
  the same time and leave one for after `stop()`. Tasks may push others, `wait()` may
  return by itself, and the owner may start and stop again.
* *Media object*: areas that begin at the same time, that overlap, one that ends
  together with the object, one that begins where another ends; the converter adds them
  in any order; two presentations, so that timers and tasks of the first meet the second;
  two pauses, so that the count matters; two tasks in the queue. An area that outlasts the
  explicit duration, with which the whole content does not end by it, is left to the
  proofs, so that the run shows that the whole content ends.
* *Event dispatch*: a dispatch inside another is the case that matters (the code
  treats every depth alike, and what is proved does not depend on it); four records
  let each listener leave and one come back while the old record is still there.
* *Composition*: two links are enough for one to undo what the other did, for both to
  wait for a delay, and for a cycle; eight frames are two actions deep from the main
  loop. Steps beyond the bounds on frames, pending runs and delayed runs are not
  taken (no property is about progress there). The links are interchangeable, hence the
  symmetry, and the runs have no liveness property.
* *Link conditions*: the trees have each kind inside each other kind that a document may
  write, a conjunction with the same trigger twice, statements of both operators, and
  delays on a trigger or on a compound condition. A transition heard twice finds the
  delays and the half-satisfied conjunctions of the first, and a compound action of two parts that
  is half done; such runs overlap up to three at a time.
* *Switch*: both rules may be true, only one, or none (then the default); one interface
  leads to all the components, one to two, one to one; the settings change while it plays.
* *Presentation engine*: a client that waits meets a document that is stopped for the one
  before it; four documents also let a flag of the first reach the third. Keys may come
  in any state; four of them are two pauses.
* *Input manager*: a listener that dispatches from its callback, inside of another that
  does, with a third that comes and goes meanwhile. Each key is handled apart from the
  others (the proofs do not depend on their number).
* *Dispatcher*: an exit or a stop in the middle of a task in the middle of another, a
  signal that is late, and a task pushed between the last look and the exit.
* *Canvas*: three places that include, overlap and touch each other, and a stroke that
  crosses them: regions include one another, are joined and are cut. The surfaces are interchangeable, hence the symmetry: the run checks steps and no liveness.
* *Time line*: the least timers at which "due now", "overdue" and "later" differ, half
  milliseconds for the rounding, and three activations: a callback inside the loop
  inside a callback. After tick `MaxTime` methods are not called any more and the
  clock goes on for the timers still registered, so nothing is cut off.

Deadlock is not checked where the system may rightly come to rest: an object that was
stopped for the last time, a composition with nothing to do, a stopped time line. The
task queue is checked for it.

### The violation

`time_line_nested` (`timelinetimer.cpp:136`): `startTimer()` looks once, before its
loop, whether a system timer is registered. A callback dispatched by the loop that adds
a timer (the test `register_on_callback` has one that does, from `onExpired()`)
registers one, and the loop then registers another and forgets the first.
The proof that the time line is right assumes what this run shows to be needed:
callbacks dispatched by that loop at most stop the time line. The callbacks in the
repository satisfy it (`PlayerAdapterManager::onTransitionTimer` enqueues a task,
`Player::onDurationExpired` stops the player).

### Other disagreements met while modelling

They have no run of their own. Where a model covers the code, it does what the code
does, and its properties say where they stop being claimed; the last two lie outside of
the models.

* `EventTransitionManager.cpp:350`: the end of the whole content is put last whatever its
  time; an explicit duration that ends before an area leaves the table unsorted, which
  `addEventTransition` searches by bisection. The object then does not end by its duration
  (`EndsInTurn`, under which `MainEnds` is claimed). Two areas that *begin* after the explicit
  duration may even have the end of a third put before its begin: the documents modelled have
  none (`DurAssumption`).
* `EventTransitionManager.cpp:396`: `next = ev != mainEvent` is set by each end that is due, so
  a main event whose end ties with one later in the table does not end (`EndsInTurn` again);
  nor does one that ends just where the object is started, whose end `start()` passes over.
* `EventTransitionManager.cpp:270`: `start()` takes no notice of the ends it passes. An event that
  ends exactly where the object is started was begun by `prepare()` and goes on; an ABORT leaves
  it occurring when the object is asleep (`Touching`, which `EventsFollowMain` leaves out).
* `PlayerAdapterManager.cpp:165`: the task queued by a timer is not cancelled by STOP. Run
  after it, it makes an adapter whose object is NULL, which the next STOP uses
  (`FormatterPlayerAdapter.cpp:559`).
* `LinkCompoundAction.cpp:238`: a compound action remembers until its last delayed action
  that it started something; if that has ended by then, the composition stays occurring
  with nothing in it, though the comment at `CompositeExecutionObject.cpp:600` expects
  this only when nothing starts.
* `FormatterConverter.cpp:1146`: meant to clear the selection of a switch "after each
  execution" (line 585), but it listens to an event whose listeners are never called, as
  its object has no main event: the next start plays the same component whatever the
  rules say by then.
* `LinkCompoundAction.cpp:214`: a link that runs again while an earlier run of its compound action
  is unfinished sets `pendingActions` anew; `actionProcessed` (237) then reports
  once for both, and the composition keeps a pending link for ever and never ends. In
  `LinkConditions` these runs are `lost`: `EvaluationsEnd` claims that all others end.
* `input/manager.cpp:97`: when one of two listeners that reserve a key leaves, the key is taken
  off for both: the devices are told to ask for it no more, though the other still waits for it. `KeysAgree` is not
  claimed of such a key from then on (`unreported`).
* `presentationenginemanager.cpp:203`: `_paused` is set when the document is *not* paused, so that the
  first key for a pause resumes, and nothing resets it for the next document. The model does so;
  no property is about it.
* `input/manager.cpp:123`: a nested dispatch deletes disabled listeners that the outer one
  still holds; the test at `input.cpp:228` expects a removed listener not to be called.
* `id/pool.cpp:88`: the highest number of a pool, once returned, is never given again.
* `FormatterMediator.cpp:702` and `616`: `removeNode()` does not advance its iterator over
  the ports of a composition, and never returns when there is one; the loop of
  `processInsertedComposition()` compares with `begin()`, and its body never runs.

## 5. Fairness

* `TaskQueue`: threads that can run do run, and tasks return. `wait()` may return by
  itself but need not: it is fair only once a notification has woken it, so that a lost
  notification would show. Nobody has to push, start or stop.
* `MediaObject`: the player's clock runs while it plays, its due timers fire
  (`TimeLineTimer` shows that they do), and the main loop runs its tasks. Nobody
  has to press keys or resume what was paused: `MainEnds` allows for that.
* `TimeLineTimer`: the clock runs, gtk dispatches timers that are due, loops and callbacks
  return. Nobody has to call a method.
* `LinkConditions`: calls return, and delays expire, of conditions and of actions (they are
  timers of the main loop), so that each simple action reports once (`ActionProcessed`). That a
  compound one reports each of its runs is not assumed: it does not.
  Nobody has to make a transition happen.
* `PresentationEngine`: `run()` is called, its loop takes the tasks in its queue and ends
  once told to, and the client goes on in `startDocument()` where it does not wait. Keys and
  new documents are nobody's duty. A client that enqueues its stop after the
  loop has ended waits for ever, and `StartsReturn` does not claim otherwise.
* `InputManager`: the loop of `dispatchKey()` goes on, and callbacks return.
* `Dispatcher`: the main thread takes its steps (`ev_run()` is called and ends after
  `ev_break()`), and a thread that has pushed goes on to signal. Timers need not fire, and
  nobody has to hand over anything.
* `Canvas`: only the calls of `invalidateRegion()` go on. That they end is not claimed: each
  joins or cuts, but no measure that always decreases was found.
* `EventDispatch`, `Composition` and `Switch` have safety properties only.

## 6. What is proved

The proofs are for all values of the constants, the bounds (`MaxTicket`, `MaxRecords`,
`MaxDepth`, `MaxTime` ...) among them.

**`TaskQueueProofs`.** `FIFO` is inductive with the type invariant and "whatever is in
the batch or the queue is below the next ticket"; lemmas on increasing sequences (taking
the head, appending a greater one, joining two) carry each step. For
`OnlyLateTasksDiscarded` the invariant says what `leave` means: once the worker has
left its last wait with the exit flag set, what comes into the queue was pushed after
`stop()`.

**`EventDispatchProofs`.** The inductive invariant `Inv` says, beyond types, that
identifiers of records are old ones, that the list and each copy of it are sorted by
priority, that the record last called is the one before the place in the loop, and that
every activation but the innermost has called a link last, since links are the only
listeners that change events. With copies sorted, a core listener that is still due can be due in
the innermost activation only, and nothing has happened to the event yet:
`CoreIsCurrent`; and `CalledByPriority` for any depth. Another
part, `Listed`, says that the list holds no two records of one listener or one
identifier, that the enabled ones are those of the registered listeners, and that a record
in a copy is still in the list or was deleted: `OneRecordEach`, `NobodyIsCalledLate`.

The last part is about `LinkConditions`, for trees of any shape. `ConditionsInv` has as tokens the
delays under way, one for each condition and run of its timer: what the composition counts is their
cardinality, one for a condition that is rising, the runs of the action that will be reported
(`RunsToReport`) and those that were overtaken (`lost`); that is `EvaluationsAreCounted`. A delay that is
added or ends moves one token. A compound action is counted while `pendingActions` is positive, and a run that
sets it anew moves that one over to `lost` (`OneMovesOver`). For
`LinkRunsForWhatItHeard`, the conditions that were satisfied at least once are the
least set closed under the tree (`Satisfies`), and each of them has made the one around it
progress or is about to.

For `LinkRunsNoMoreThanDue` the invariant is an account (`NothingAppears`): there are numbers, how
often each condition was satisfied and how often it told the one around it, such that what is
in between waits for a delay or is rising, a trigger was satisfied no more often than its
transition was heard, an alternative no more often than its parts told it, and a conjunction no
more often than *each* part told it, counting the round that part is ahead. Each step moves one
unit. That the account never exceeds `AtMost` follows from a condition of which it would,
while it does for none of its parts; there is always one such, as the trees are finite and no condition contains
itself (`ConditionsAssumption`). The same shows that the recursive definition of `AtMost`
defines a function (`AtMostIs`): partial ones grow to all of the tree (`GrowsToAll`).

**`MediaObjectProofs`.** For any areas that do not begin after the explicit duration
(`DurAssumption`), in any order of the converter's calls, and any number of tasks, timers, pauses and
presentations. The argument goes up in layers.

* The *binary search* of `addEventTransition` is a recursive function over ranges; that it
  exists is shown by the least length of a range where it would not (`SearchExists`). In whatever table, it
  ends between two neighbours that the new transition fits between (`SearchFits`).
* So the *table* has each event's two transitions once, at their times, and is sorted
  (`TableInv`): not as `compareTo()` has it, since the end of the whole content is put last, but
  with times cut at the explicit duration (`Sooner`), which is all the later loops need.
* Each *operation* of the object (prepare, start, the update of the table, pause, stop ...)
  has a lemma that says what it leaves of an object as a relation to the object before.
* `IInv`, which each action keeps, is `Typed`, `Sound` (the table, the indices into it, and that
  all the events are in it once there is a main event), `InStep` (the adapter, its player and
  the count of pauses are where the object is), `TasksRight` (a queued task of this presentation
  is of a time that has come) and `SmoothInv` (while nothing has gone wrong, the parent holds
  what the main event is, and an event sleeps when there is no main event and once
  the index has passed its end).

From it: `MediaObjectIsTyped`, `ParentIsTold`, `NoneOutlivesMain` and the action property
`NoneBeginsEarly`, an area begins only when the index passes its
begin, which a task moves to its own time and a start to the offset.

**`TimeLineTimerProofs`.** Assumption: `LateOps \subseteq {"stop"}`, see above. The
invariant: the running time counted in whole milliseconds never exceeds the
true one (`CountsNoMore`); the system's timer is due no earlier than the least timer of the heap
(`NothingIsDueEarly`); there is at most one, and `_timerID` names it (`OneAtMost`); only the innermost
activation can be in the loop (`OuterFramesExpired`), where there is none
(`LoopHasNone`); and the main loop never finds a running time line with timers and
without one (`MainHasOne`). From it: `TypeCorrect`, `AssertionHolds`, `OneTimer`,
`NeverEarly`, and `ImplementsService`: every step is a step of `TimerService` or leaves
its variables alone. The heart of it is that an expired system timer
dispatches the least timer and that the time line has been running long enough
(`ExpiresForLeast`).

`NeverEarly` and `OneTimer` state what no run lists: they follow from `Service`, which one does.

**`CanvasProofs`.** For any surfaces, places, strokes and join percentage. First the geometry:
what `intersection`, `encompass` and `cut` keep and lose of the pixels of two rectangles,
branch by branch. The invariant `IInv`: what is out of date is in a dirty region, in a
rectangle still to be marked or forgotten (`NothingStaleIsLost`); each surface seen in a dirty region is
dirty (`SeenSurfacesAreDirty`), which is why painting from dirty surfaces is enough; no region
includes another (`RegionsStayApart`). `CutIsAlwaysAside`: the assertion in `Rect::cut()`
holds in every call. `CanvasImplementsPainting` is the refinement: with `stale` and the pixels
of `dirtyRegions` and `work` in the place of its variables, every step is one of `Painting`.
`EndDrawPaintsWhatChanged`: the end of the outermost transaction leaves nothing out of date.

Its second part is about `InputManager`. `NoneIsMissed`: a frame's `due` are those who had reserved
the key when it began and have neither been called nor removed, and a listener that is passed
without a call stays due. So the invariant must show that who is due is not passed: it
is in the copy, was not deleted by a nested dispatch (`FrameOK`), and still is registered, enabled and
has the key among its own when it is asked (`DueReserve`), since only a removal disables a listener, and
who was removed is not due again by registering anew. The keys agree by the property itself.

**`PresentationEngineProofs`.** The invariant says, until the loop ends, who has the formatter
(`Current`, `Handed`: the task that stops a document is the last in the queue, as the client
that enqueued it waits), and, if every key came in time, that no one failed and the loop finds a document to stop (`InTime`).

**`CompositionProofs`.** For any objects, any links with any actions and any depth of calls. The
assumption (`CompositionAssumption`) only says what the constants are. The invariant `IInv` relates the calls under way
to the state, in named parts:

* `ObjectsInv`: each object is being told of at most once at a time, and until the
  composition, which is called last, has heard of it, the sets of the composition hold what the
  object was; an object nobody is telling of is in the sets as it is (`UntoldAgree`). Hence
  `ChildrenAgree`.
* `LinksInv`: which runs of a link are on the stack, and how often. Each run, delayed action and
  action of a compound that is called is a token: a pair of a place (in the stack, or among the
  timers) and an action. `ToDoCounted` says that `pendingActions` of a link is the number of
  its tokens, a cardinality of sets; without delays of actions a run is pending exactly while
  it is on the stack or waits for its condition. Hence `PendingAgrees`.
* `StartsInv`: a run remembered as one that started something has started it, and the start is
  either still being told or what it started runs. With it `EndsInTime`: when nothing is left
  the composition ends, unless a start is being told. Hence `EndsWithItsObjects`, and the action
  property `EndsOnce`. The property itself says where it is not claimed: an object failed to
  play, an action of a link is delayed (see the disagreements in section 4), or a compound action
  starts something and then does more (`StartsLast`).

Its second part is about `Switch`. The three properties are inductive together with `Resolves`: the events
made with the document were there when the selection was made. `Greatest` shows
that the last true rule, which the code's loop leaves selected, exists.

**`DispatcherProofs`.** Three parts. `Ordered`: numbers increase along the queue and each
batch, and a frame that waits in the middle of another has later tasks only. `Counted`: each
task handed over waits once, or was begun. `StartsOnce` and `StopsWait`: a timer is started by
one task at most, and a fired or stopped timer that is still in the loop has its stop
task waiting, which the main thread runs before it is idle. From the first two
`DispatcherImplementsMailbox`, with the numbers of the tasks in the frames as `running`; from
the third `NoStoppedTimerIsKept`.

Each component has a theorem `TypeCorrect` too (also `CanvasTypeCorrect`, or `...IsTyped` where a
module of proofs has two parts, and `MediaObjectIsTyped`), so that `TypeOK` needs no run of its own.

Each invariant was first checked with TLC as an invariant of the run of its module.

## 7. What is only model-checked, and what is not modelled

Only checked by TLC: the liveness properties (`StopReturns`, `NoLostWakeup`, `MainEnds`,
`DueIsDispatched`, `DispatchEnds`, `EveryTaskRuns`, `EvaluationsEnd`, `StartsReturn`), since
TLAPS does not reason about fairness and `ENABLED`.

Not modelled, in the modules there are:

* `TaskQueue`: tasks that throw (logged, and the loop goes on).
* `MediaObject`: repetitions, areas with labels, attribution and selection events,
  node perspectives, animations, the end of the content as told by a player.
* `Composition`: compositions in compositions, assignments, links
  compiled again while they run; the calls after `reentered`. That a STOP leaves nothing playing is
  not claimed: the events are listed before the first is stopped (`FormatterScheduler.cpp:621`),
  links run in between, and an object that one of them starts goes on, as the model has it.
* `LinkConditions`: how two values compare (an assessment is true or false and changes at
  any time), assignment and repeat actions, a compound action in another, or one without parts
  (which reports nothing).
* `Switch`: alternatives of descriptors, components that are compositions, `lt`, `lte`, `gt`
  and `gte` in rules. `RunActionOverSwitch` is one step: links that react on the end of the
  component run in the code before the selection is forgotten (`FormatterScheduler.cpp:647` and
  `655`), and may start the switch again there, which is not covered.
* `PresentationEngine`: the editing commands, documents embedded in documents, and the calls
  after a formatter that is gone was used. `ExitKey` makes the loop leave at once, where the code
  posts the exit to the loop and may take other keys before it; `Complete` may end any document, where the scheduler hears
  nothing of a body that is a composition (`eventmanager.cpp:105`).
* `Canvas`: what is drawn (a pixel is right or wrong), the order of surfaces in depth beyond
  that a change of it marks them, windows of the system; `Canvas::reset()` (`canvas.cpp:365`), which
  drops surfaces without marking their regions and is called by tests only;
  `flushCompositionMode(mode)` (`surface.cpp:458`), which marks nothing either and is called by a video
  player before the video plays; a `blit()` beyond the target surface (`surface.cpp:652`), which
  marks more than it changes.
* `Dispatcher`: events of files and of signals.
* `TimeLineTimer`: a clock that is set back (the code reads local time, and `uptime()`
  asserts that it was not), and the deletion of a player by one of its own timers
  (`onExpired()` goes on with the time line then).

Components not modelled at all are in `PROJECT.json` with the reason. Most lines of the
repository belong to them, which is why the share of the code that is mapped stays small:
the parser and the converters (a document is read once, before anything runs), the data
model (containers with getters and setters), and the back ends of drawing, video, HTML and Lua,
which bind libraries and hold numbers and pictures. The resource pool of `dtv-util` is used
by nothing in the repository.
