---------------------------- MODULE Composition ----------------------------
(***************************************************************************)
(* A composition (CompositeExecutionObject) with the media objects in it   *)
(* and its causal links (FormatterCausalLink).  The links react while the  *)
(* transition that triggers them is still being told: an action of a link  *)
(* makes another object change, which triggers other links, and only then  *)
(* do the compositions hear of the two, the inner one first.  Those nested *)
(* calls are the frames of an explicit stack, and every step of the top    *)
(* frame is an action.  Between two such trees of calls the thread takes a *)
(* delay that expired, an object that came to its end, or an action asked  *)
(* for from outside.                                                       *)
(*                                                                         *)
(* An object is here its main event; module MediaObject has the rest of    *)
(* it.  The composition's own event is heard by nobody: the EventManager   *)
(* skips the events of objects without a main event, and a composition     *)
(* never has one.                                                          *)
(***************************************************************************)
EXTENDS Integers, FiniteSets, Sequences

CONSTANTS
    Media,          \* the objects of the composition
    Order,          \* the same, in the order of their ids
    Ports,          \* the objects that the ports map, in the order of the ports
    Links,
    LinkSet,        \* the links a document may give to each of Links
    MaxActs,        \* the actions of a compound action, at most
    MaxDepth,       \* bound: frames of the stack
    MaxDelayed,     \* bound: runs of an action that wait for a delay
    MaxPending,     \* bound: runs of a link that have not come to their end
    MaxPauses       \* bound: pauses of an object without a resume

Acts == {"start", "stop", "abort", "pause", "resume"}

\* A link: its condition, and its action: one simple action, or a compound one
\* with several.  "delay" is one of the condition, or of an action.
IsLink(k) ==
    /\ k.on \in Media /\ k.tr \in Acts /\ k.delay \in BOOLEAN
    /\ k.acts \in Seq([what : Acts, who : Media, delay : BOOLEAN])
    /\ Len(k.acts) \in 1..MaxActs

ASSUME CompositionAssumption ==
    /\ \A k \in LinkSet : IsLink(k)
    /\ Order \in Seq(Media) \ {<<>>} /\ Ports \in Seq(Media) \ {<<>>}
    /\ \A n \in {MaxActs, MaxDepth, MaxDelayed, MaxPending, MaxPauses} : n \in Nat

VARIABLES
    links,      \* the links of the document
    child,      \* the main event and the player adapter of each object
    composite,  \* wholeContent, runningEvents, pausedEvents, pendingLinks ...
    compound,   \* of each compound action: pendingActions, hasStart
    delayed,    \* timers of delays: <<l, 0>> of a condition, <<l, i>> of an action
    stack,      \* the calls under way, the innermost last
    failed,     \* history: an object could not be played
    reentered   \* an action met an object whose transition was being told

vars == <<links, child, composite, compound, delayed, stack, failed, reentered>>

-----------------------------------------------------------------------------
(* The state machine of an event.                                          *)

From == [start |-> {"SLEEPING"}, stop |-> {"OCCURRING", "PAUSED"},
         abort |-> {"OCCURRING", "PAUSED"}, pause |-> {"OCCURRING"},
         resume |-> {"PAUSED"}]

To == [start |-> "OCCURRING", stop |-> "SLEEPING", abort |-> "ABORTED",
       pause |-> "PAUSED", resume |-> "OCCURRING"]

\* The composition's own event: nobody is called, so ST_ABORTED is not seen.
ChangeWhole(c, tr) ==
    IF c.whole \notin From[tr] THEN c
    ELSE [c EXCEPT !.whole = IF tr = "abort" THEN "SLEEPING" ELSE To[tr]]

-----------------------------------------------------------------------------
(* What the composition does when it hears of an object or of a link.      *)

NoneActive(c)  == c.running = {} /\ c.paused = {}
NonePending(c) == \A l \in Links : c.pending[l] = 0
NothingLeft(c) == NoneActive(c) /\ NonePending(c)

HearStarts(c, m) ==
    [(IF NoneActive(c) THEN ChangeWhole(c, "start") ELSE c) EXCEPT !.running = @ \cup {m}]

ForgetRunning(c, m, previous) == [c EXCEPT !.running = @ \ {m}]

Forget(c, m, previous) ==
    IF previous = "OCCURRING" THEN [c EXCEPT !.running = @ \ {m}]
                              ELSE [c EXCEPT !.paused = @ \ {m}]

HearEnds(c, m, tr, previous) ==
    LET d == [Forget(c, m, previous) EXCEPT !.last = tr] IN
    IF NothingLeft(d) THEN ChangeWhole(d, tr) ELSE d

HearPauses(c, m) ==
    LET d == [c EXCEPT !.running = @ \ {m}, !.paused = @ \cup {m}] IN
    IF d.running = {} THEN ChangeWhole(d, "pause") ELSE d

HearResumes(c, m) ==
    LET d == [c EXCEPT !.paused = @ \ {m}, !.running = @ \cup {m}] IN
    IF d.running = {m} THEN ChangeWhole(d, "resume") ELSE d

Hear(c, m, tr, previous) ==
    CASE tr = "start"  -> HearStarts(c, m)
      [] tr = "pause"  -> HearPauses(c, m)
      [] tr = "resume" -> HearResumes(c, m)
      [] OTHER         -> HearEnds(c, m, tr, previous)

LinkEvaluationStartedOnce(c, l) == [c EXCEPT !.pending[l] = 1]

LinkEvaluationStarted(c, l) == [c EXCEPT !.pending[l] = @ + 1]

LinkEvaluationFinishedQuietly(c, l, start) ==
    [c EXCEPT !.pending[l] = IF @ > 0 THEN @ - 1 ELSE 0]

\* "if nothing starts the composition may stay locked as occurring"
LinkEvaluationFinished(c, l, start) ==
    LET d == [c EXCEPT !.pending[l] = @ - 1] IN
    IF c.pending[l] = 0 THEN c
    ELSE IF NothingLeft(d) /\ ~start THEN ChangeWhole(d, d.last) ELSE d

-----------------------------------------------------------------------------
(* The stack.                                                              *)

Dispatch(m, tr)   == [call |-> "dispatch", who |-> m, what |-> tr, prev |-> child[m].st,
                      due |-> {l \in Links : links[l].on = m /\ links[l].tr = tr}]
After(act, m)     == [call |-> "after", who |-> m, what |-> act]
Actions(l, i, n, expired) ==
    [call |-> "actions", who |-> l, at |-> i, upto |-> n, expired |-> expired, run |-> FALSE]
Compose(act, seq) == [call |-> "compose", what |-> act, todo |-> seq]

Free  == stack = <<>>
Top   == stack[Len(stack)]
Below == SubSeq(stack, 1, Len(stack) - 1)
InCall(call) == ~reentered /\ ~Free /\ Top.call = call

\* The object has calls under way; what is done to it now, they will not know.
Busy(m) == \E k \in DOMAIN stack : stack[k].call \in {"dispatch", "after"} /\ stack[k].who = m

Push(below, frames) == Len(below) + Len(frames) <= MaxDepth /\ stack' = below \o frames

-----------------------------------------------------------------------------
(* FormatterScheduler::runAction over a media object; "rest" is the stack  *)
(* to which it returns.                                                    *)

Unplayed == [st |-> "SLEEPING", prepared |-> FALSE, player |-> FALSE, pauseCount |-> 0]

Asleep(m)      == child[m].st = "SLEEPING"
HasPrepared(m) == child[m].player /\ ~Asleep(m)

\* Nothing is there for the action to change.
NoEffect(act, m) ==
    CASE act = "start"  -> HasPrepared(m)
      [] act = "stop"   -> ~child[m].player
      [] act = "resume" -> child[m].pauseCount = 0
      [] OTHER          -> ~HasPrepared(m)

\* The object is prepared for the event, and in the hands of a player.
Played(m, st) == [child EXCEPT ![m] =
    [st |-> st, prepared |-> TRUE, player |-> TRUE, pauseCount |-> @.pauseCount]]

ChangeChild(m, tr, after, rest) ==
    /\ child' = Played(m, To[tr])
    /\ Push(rest, after \o <<Dispatch(m, tr)>>)
    /\ UNCHANGED <<failed, reentered>>

StartPlayed(m, rest) == ChangeChild(m, "start", <<>>, rest)

\* No player for the object, a player that refuses a property, or one whose
\* play() fails.
StartFailed(m, rest) ==
    /\ \/ child' = child
       \/ child' = Played(m, "SLEEPING")
    /\ failed' = TRUE
    /\ stack' = rest
    /\ UNCHANGED reentered

StopAsleep(m, rest) ==
    /\ child' = [child EXCEPT ![m] = Unplayed]
    /\ stack' = rest
    /\ UNCHANGED <<failed, reentered>>

CountPause(m, n, rest) ==
    /\ child' = [child EXCEPT ![m].pauseCount = @ + n]
    /\ stack' = rest
    /\ UNCHANGED <<failed, reentered>>

RunMedia(act, m, rest) ==
    \/ /\ NoEffect(act, m)
       /\ stack' = rest
       /\ UNCHANGED <<child, failed, reentered>>
    \/ /\ ~NoEffect(act, m) /\ Busy(m)
       /\ reentered' = TRUE
       /\ UNCHANGED <<stack, child, failed>>
    \/ /\ ~NoEffect(act, m) /\ ~Busy(m)
       /\ \/ act = "start" /\ StartPlayed(m, rest)
          \/ act = "start" /\ StartFailed(m, rest)
          \/ act = "stop" /\ Asleep(m) /\ StopAsleep(m, rest)
          \/ /\ act \in {"stop", "abort"} /\ ~Asleep(m)
             /\ ChangeChild(m, act, <<After(act, m)>>, rest)
          \/ /\ act = "pause" /\ child[m].pauseCount = 0
             /\ ChangeChild(m, act, <<After(act, m)>>, rest)
          \/ act = "pause" /\ child[m].pauseCount \in 1..(MaxPauses - 1) /\ CountPause(m, 1, rest)
          \/ /\ act = "resume" /\ child[m].pauseCount = 1
             /\ ChangeChild(m, act, <<After(act, m)>>, rest)
          \/ act = "resume" /\ child[m].pauseCount > 1 /\ CountPause(m, -1, rest)

\* What is left of the action once the listeners have been told: an object that
\* stops is unprepared and its player deleted, be it after a STOP or an ABORT.
AfterDispatch ==
    /\ InCall("after")
    /\ LET m == Top.who IN
       child' = IF Top.what \in {"stop", "abort"} THEN [child EXCEPT ![m] = Unplayed]
                ELSE [child EXCEPT ![m].pauseCount = IF Top.what = "pause" THEN 1 ELSE 0]
    /\ stack' = Below
    /\ UNCHANGED <<links, composite, compound, delayed, failed, reentered>>

-----------------------------------------------------------------------------
(* The listeners of an object: first the links, in any order, then the     *)
(* composition.                                                            *)

\* LinkCompoundAction::onRun() counts anew, whatever run was under way.
Begun(l) == [pendingActions |-> Len(links[l].acts), hasStart |-> FALSE]

TellLink ==
    /\ InCall("dispatch")
    /\ \E l \in Top.due :
          /\ composite.pending[l] < MaxPending
          /\ LET rest == Append(Below, [Top EXCEPT !.due = @ \ {l}])
             IN /\ composite' = LinkEvaluationStarted(composite, l)
                /\ IF links[l].delay
                   THEN /\ delayed[<<l, 0>>] < MaxDelayed
                        /\ delayed' = [delayed EXCEPT ![<<l, 0>>] = @ + 1]
                        /\ stack' = rest
                        /\ UNCHANGED compound
                   ELSE /\ Push(rest, <<Actions(l, 1, Len(links[l].acts), FALSE)>>)
                        /\ compound' = [compound EXCEPT ![l] = Begun(l)]
                        /\ UNCHANGED delayed
    /\ UNCHANGED <<links, child, failed, reentered>>

TellComposite ==
    /\ InCall("dispatch") /\ Top.due = {}
    /\ LET m == Top.who IN
       /\ composite' = IF child[m].prepared THEN Hear(composite, m, Top.what, Top.prev)
                                            ELSE composite
       /\ child' = IF child[m].st = "ABORTED" THEN [child EXCEPT ![m].st = "SLEEPING"]
                                              ELSE child
    /\ stack' = Below
    /\ UNCHANGED <<links, compound, delayed, failed, reentered>>

-----------------------------------------------------------------------------
(* The actions of a link, one after the other.                             *)

Returned == IF Top.at = Top.upto THEN Below ELSE Append(Below, [Top EXCEPT !.at = @ + 1, !.run = FALSE])

\* LinkAction::run(): an action with a delay is left to a timer.
DelayLinkAction ==
    /\ InCall("actions") /\ ~Top.run
    /\ links[Top.who].acts[Top.at].delay /\ ~Top.expired
    /\ delayed[<<Top.who, Top.at>>] < MaxDelayed
    /\ delayed' = [delayed EXCEPT ![<<Top.who, Top.at>>] = @ + 1]
    /\ stack' = Returned
    /\ UNCHANGED <<links, child, composite, compound, failed, reentered>>

RunLinkAction ==
    /\ InCall("actions") /\ ~Top.run
    /\ LET action == links[Top.who].acts[Top.at] IN
       /\ ~action.delay \/ Top.expired
       /\ RunMedia(action.what, action.who, Append(Below, [Top EXCEPT !.run = TRUE]))
    /\ UNCHANGED <<links, composite, compound, delayed>>

AllProcessedTooSoon(d) == d.pendingActions <= 1
AllProcessed(d) == d.pendingActions = 0

\* A simple action tells the link when it returns; a compound one counts, and
\* tells the link when none of its actions is pending.
Processed(l, start) ==
    LET c == compound[l]
        d == [pendingActions |-> c.pendingActions - 1, hasStart |-> c.hasStart \/ start]
    IN IF Len(links[l].acts) = 1
       THEN /\ composite' = LinkEvaluationFinished(composite, l, start)
            /\ UNCHANGED compound
       ELSE /\ compound' = [compound EXCEPT ![l] = d]
            /\ composite' = IF ~AllProcessed(d) THEN composite
                            ELSE LinkEvaluationFinished(composite, l, d.hasStart)

ActionProcessed ==
    /\ InCall("actions") /\ Top.run
    /\ Processed(Top.who, links[Top.who].acts[Top.at].what = "start")
    /\ stack' = Returned
    /\ UNCHANGED <<links, child, delayed, failed, reentered>>

-----------------------------------------------------------------------------
(* FormatterScheduler::runActionOverComposition.                           *)

RunCompose ==
    /\ InCall("compose")
    /\ LET rest == IF Len(Top.todo) = 1 THEN Below
                   ELSE Append(Below, [Top EXCEPT !.todo = Tail(@)])
       IN RunMedia(Top.what, Head(Top.todo), rest)
    /\ UNCHANGED <<links, composite, compound, delayed>>

\* What links and documents around the composition ask of it.
Outside(act) ==
    /\ Free /\ ~reentered
    /\ stack' = <<Compose(act, IF act = "start" THEN Ports ELSE Order)>>
    /\ UNCHANGED <<links, child, composite, compound, delayed, failed, reentered>>

\* The timer of an object's end (PlayerAdapterManager::proccessTransition).
NaturalEnd(m) ==
    /\ Free /\ ~reentered /\ child[m].st = "OCCURRING"
    /\ RunMedia("stop", m, <<>>)
    /\ UNCHANGED <<links, composite, compound, delayed>>

DelayExpires(l, i) ==
    /\ Free /\ ~reentered /\ delayed[<<l, i>>] > 0
    /\ delayed' = [delayed EXCEPT ![<<l, i>>] = @ - 1]
    /\ LET n == Len(links[l].acts) IN
       IF i = 0
       THEN /\ stack' = <<Actions(l, 1, n, FALSE)>>
            /\ compound' = [compound EXCEPT ![l] = Begun(l)]
       ELSE /\ stack' = <<Actions(l, i, i, TRUE)>>
            /\ UNCHANGED compound
    /\ UNCHANGED <<links, child, composite, failed, reentered>>

-----------------------------------------------------------------------------

Init ==
    /\ links \in [Links -> LinkSet]
    /\ child = [m \in Media |-> Unplayed]
    /\ composite = [whole |-> "SLEEPING", running |-> {}, paused |-> {},
                    pending |-> [l \in Links |-> 0], last |-> "stop"]
    /\ compound = [l \in Links |-> [pendingActions |-> 0, hasStart |-> FALSE]]
    /\ delayed = [t \in Links \X (0..MaxActs) |-> 0]
    /\ stack = <<>>
    /\ failed = FALSE /\ reentered = FALSE

Next ==
    \/ \E act \in Acts : Outside(act)
    \/ \E m \in Media : NaturalEnd(m)
    \/ \E l \in Links, i \in 0..MaxActs : DelayExpires(l, i)
    \/ AfterDispatch \/ TellLink \/ TellComposite
    \/ DelayLinkAction \/ RunLinkAction \/ ActionProcessed
    \/ RunCompose

Spec == Init /\ [][Next]_vars

-----------------------------------------------------------------------------

RunsOf(l) == delayed[<<l, 0>>]
             + Cardinality({k \in DOMAIN stack : stack[k].call = "actions" /\ stack[k].who = l})

\* When no call is under way the composition knows which of its objects occur
\* and which are paused, whatever the links did to them in the meantime.
ChildrenAgree ==
    Free => /\ composite.running = {m \in Media : child[m].st = "OCCURRING"}
            /\ composite.paused  = {m \in Media : child[m].st = "PAUSED"}

\* An action that starts an object is not undone by a later one of the same link.
StartsLast == \A l \in Links :
    (\E i \in DOMAIN links[l].acts : links[l].acts[i].what = "start")
        => links[l].acts[Len(links[l].acts)].what = "start"

DelayedActions == \E l \in Links : \E i \in DOMAIN links[l].acts : links[l].acts[i].delay

\* pendingLinks counts the runs of each link that have not come to their end (of
\* the links whose actions have no delays of their own).
PendingAgrees ==
    ~reentered => \A l \in Links :
        (\A i \in DOMAIN links[l].acts : ~links[l].acts[i].delay)
            => composite.pending[l] = RunsOf(l)

\* A composition is over exactly when nothing in it is left to happen: it is not while
\* one of its objects occurs or is paused, and it is when none does, unless one of
\* them could not be played, or was started by a link and stopped by the next action of
\* it ("if nothing starts the composition may stay locked as occurring"), or an action
\* with a delay of its own has made its link report that it started what is over by then.
EndsWithItsObjects == Free =>
    /\ composite.whole = "SLEEPING" => \A m \in Media : Asleep(m)
    /\ (/\ ~failed /\ StartsLast /\ ~DelayedActions
        /\ NoneActive(composite) /\ \A t \in DOMAIN delayed : delayed[t] = 0)
          => composite.whole = "SLEEPING"

\* The composition does not end, to start again, while an action of one of its
\* links waits for its delay.
EndsOnce ==
    [][(composite.whole # "SLEEPING" /\ composite'.whole = "SLEEPING")
          => \A t \in DOMAIN delayed : delayed'[t] = 0]_vars
=============================================================================
