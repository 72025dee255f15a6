--------------------------- MODULE LinkConditions ---------------------------
(***************************************************************************)
(* The condition of a causal link: a tree whose leaves hear the transitions *)
(* of events.  A leaf that hears its transition tells the composition that *)
(* an evaluation of the link has started, and that it is satisfied to the  *)
(* condition around it, at once or when its delay is over.  Of a compound  *)
(* condition any part is enough; a conjunction waits for all its triggers, *)
(* looks at its statements, and ends the evaluation when it must wait.  At *)
(* the root the action of the link runs, and ends the evaluation.  It is a *)
(* simple action, or a compound one that counts down its parts, with one   *)
(* counter for all of its runs.                                            *)
(*                                                                         *)
(* All of it runs on one thread: the calls from a leaf to the root are     *)
(* steps one after the other, "rising" is the condition that makes the next *)
(* of them.  What a running action does to the events comes back as other  *)
(* transitions, heard before or after what is still to be told.            *)
(***************************************************************************)
EXTENDS Integers, FiniteSets, FiniteSetsExt

CONSTANTS
    Link,        \* the root of the conditions: the FormatterCausalLink
    None,        \* no condition
    EventTransitions, \* of events, which the conditions may listen to
    Leaves,      \* assessment statements
    Trees,       \* the conditions that a document may give to the link
    Actions,     \* the actions that it may give to it
    MaxHeard     \* bound: transitions

Kinds == {"transition", "or", "and"}

Parts(tree, n) == {m \in DOMAIN tree : tree[m].up = n}

\* What createCondition() and createStatement() make of the condition of a connector.
\* "tests" are the statements of a conjunction, of one leaf or compound; no condition
\* contains itself.
IsCondition(tree) ==
    /\ Cardinality(Parts(tree, Link)) = 1
    /\ \A n \in DOMAIN tree :
          /\ tree[n].kind \in Kinds /\ tree[n].delay \in BOOLEAN
          /\ tree[n].up # Link => tree[n].up \in DOMAIN tree /\ tree[tree[n].up].kind # "transition"
          /\ IF tree[n].kind = "transition" THEN tree[n].on \in EventTransitions
                                            ELSE Parts(tree, n) # {}
          /\ \A s \in tree[n].tests :
                s.op \in {"or", "and"} /\ s.negated \in BOOLEAN /\ s.of \subseteq Leaves
          /\ tree[n].tests # {} => tree[n].kind = "and"
    /\ IsFiniteSet(DOMAIN tree)
    /\ \A S \in SUBSET DOMAIN tree : S # {} => \E n \in S : Parts(tree, n) \cap S = {}

\* What createAction() makes of the action: a compound one has parts, each a simple
\* action, and maybe a delay of its own.
IsAction(a) == a.parts \in Nat /\ a.delay \in BOOLEAN

IsSimple(a) == a.parts = 0

ASSUME ConditionsAssumption ==
    /\ \A a \in Actions : IsAction(a)
    /\ \A tree \in Trees : Link \notin DOMAIN tree /\ None \notin DOMAIN tree /\ IsCondition(tree)
    /\ MaxHeard \in Nat

VARIABLES
    tree,        \* the conditions of the link
    action,      \* its action
    holds,       \* what the assessments are worth
    unsatisfied, \* unsatisfiedConditions, for each conjunction
    due,         \* how often each leaf is yet to be told of its transition
    timers,      \* how many timers of its delay each condition has
    rising,      \* the condition that is satisfied and about to tell its listener
    pending,     \* pendingLinks of the composition, for this link
    waiting,     \* runs of a compound action that wait for its delay
    todo,        \* simple actions that run, or wait for their delay
    pendingActions, \* of the compound action
    lost,        \* history: runs that began while another one was unfinished
    heard,       \* history: how often each transition happened
    ran,         \* history: how often the action was run
    refused      \* history: a statement was false

actionVars == <<action, waiting, todo, pendingActions, lost>>
conditionsVars == <<tree, holds, unsatisfied, due, timers, rising, pending, heard, ran, refused, actionVars>>

conditions == DOMAIN tree
Conjunctions == {n \in conditions : tree[n].kind = "and"}
Listening(t) == {n \in conditions : tree[n].kind = "transition" /\ tree[n].on = t}

\* Nothing is being told upwards.
Still == rising = None

-----------------------------------------------------------------------------

\* LinkCompoundStatement::evaluate(); one leaf is as a conjunction of it alone.
Evaluate(s) == s.negated # (IF s.op = "or" THEN \E l \in s.of : holds[l] ELSE \A l \in s.of : holds[l])

\* LinkTriggerCondition::conditionSatisfied() of n.
Satisfied(n) ==
    IF tree[n].delay THEN timers' = [timers EXCEPT ![n] = @ + 1] /\ rising' = None
                     ELSE rising' = n /\ UNCHANGED timers

\* linkEvaluationStarted() and linkEvaluationFinished() of the composition.
EvaluationStarted == pending' = pending + 1
EvaluationEnded == pending' = IF pending = 0 THEN 0 ELSE pending - 1

-----------------------------------------------------------------------------

\* A transition happens: the event calls its listeners, in any order.
Happen(t) ==
    /\ Still
    /\ \A u \in EventTransitions : heard[u] + (IF u = t THEN 1 ELSE 0) <= MaxHeard
    /\ heard' = [heard EXCEPT ![t] = @ + 1]
    /\ due' = [n \in conditions |-> due[n] + (IF n \in Listening(t) THEN 1 ELSE 0)]
    /\ UNCHANGED <<tree, holds, unsatisfied, timers, rising, pending, ran, refused, actionVars>>

\* LinkTransitionTriggerCondition::eventStateChanged().
Tell(n) ==
    /\ Still /\ due[n] > 0
    /\ due' = [due EXCEPT ![n] = @ - 1]
    /\ EvaluationStarted
    /\ Satisfied(n)
    /\ UNCHANGED <<tree, holds, unsatisfied, heard, ran, refused, actionVars>>

Expire(n) ==
    /\ Still /\ timers[n] > 0
    /\ timers' = [timers EXCEPT ![n] = @ - 1]
    /\ rising' = n
    /\ UNCHANGED <<tree, holds, unsatisfied, due, pending, heard, ran, refused, actionVars>>

\* LinkCompoundTriggerCondition::conditionSatisfied().
RiseInOr ==
    /\ ~Still /\ tree[rising].up # Link /\ tree[tree[rising].up].kind = "or"
    /\ Satisfied(tree[rising].up)
    /\ UNCHANGED <<tree, holds, unsatisfied, due, pending, heard, ran, refused, actionVars>>

\* What the conjunction n still waits for once "rising" is satisfied.
Left(n) == unsatisfied[n] \ {rising}

\* As if it forgot what it has heard, or waited for nothing after the first time.
WaitsForAll(n) == Parts(tree, n)
WaitsForLeft(n) == Left(n)

\* What it waits for is set again when all of it is satisfied.
WaitsFor(n) == IF Left(n) # {} THEN Left(n) ELSE Parts(tree, n)

\* The evaluation ends at a conjunction that must wait; as if that told nobody.
EndsUntold == UNCHANGED pending
EndsWaiting == EvaluationEnded

\* LinkAndCompoundTriggerCondition::conditionSatisfied(): what it waits for is set
\* again before the statements are looked at.
RiseInAnd ==
    /\ ~Still /\ tree[rising].up \in Conjunctions
    /\ LET n == tree[rising].up
           true == \A s \in tree[n].tests : Evaluate(s)
       IN /\ unsatisfied' = [unsatisfied EXCEPT ![n] = WaitsFor(n)]
          /\ \/ /\ Left(n) # {}
                /\ rising' = None /\ EndsWaiting
                /\ UNCHANGED <<timers, refused>>
             \/ /\ Left(n) = {} /\ true
                /\ Satisfied(n)
                /\ UNCHANGED <<refused, pending>>
             \/ /\ Left(n) = {} /\ ~true
                /\ rising' = None /\ refused' = TRUE /\ EvaluationEnded
                /\ UNCHANGED timers
    /\ UNCHANGED <<tree, holds, due, heard, ran, actionVars>>

-----------------------------------------------------------------------------

\* LinkCompoundAction::onRun(): it counts anew, whatever run is unfinished; what is left
\* of that one will be taken for parts of this one, and only one of them be told of.
OnRun ==
    /\ todo' = todo + action.parts
    /\ pendingActions' = action.parts
    /\ lost' = lost + (IF pendingActions > 0 THEN 1 ELSE 0)

\* LinkAction::run() of the action.
RunAction ==
    \/ /\ IsSimple(action)
       /\ todo' = todo + 1
       /\ UNCHANGED <<waiting, pendingActions, lost>>
    \/ /\ ~IsSimple(action) /\ action.delay
       /\ waiting' = waiting + 1
       /\ UNCHANGED <<todo, pendingActions, lost>>
    \/ /\ ~IsSimple(action) /\ ~action.delay
       /\ OnRun
       /\ UNCHANGED waiting

\* FormatterCausalLink::conditionSatisfied() runs the action.
RiseInLink ==
    /\ ~Still /\ tree[rising].up = Link
    /\ rising' = None /\ ran' = ran + 1
    /\ RunAction
    /\ UNCHANGED <<tree, action, holds, unsatisfied, due, timers, pending, heard, refused>>

\* The delay of a compound action is over.
BeginAction ==
    /\ Still /\ waiting > 0
    /\ waiting' = waiting - 1
    /\ OnRun
    /\ UNCHANGED <<tree, action, holds, unsatisfied, due, timers, rising, pending, heard, ran, refused>>

\* As if the composition was not told that the action was processed.
ActionProcessedSilently ==
    /\ Still /\ todo > 0
    /\ todo' = todo - 1
    /\ pendingActions' = pendingActions - (IF IsSimple(action) THEN 0 ELSE 1)
    /\ UNCHANGED <<tree, action, holds, unsatisfied, due, timers, rising, pending, waiting, lost, heard, ran, refused>>

\* A simple action has run, at once or after its delay: it tells the link, or the
\* compound action that it is a part of, which tells the link when none is pending.
ActionProcessed ==
    /\ Still /\ todo > 0
    /\ todo' = todo - 1
    /\ \/ /\ IsSimple(action)
          /\ EvaluationEnded
          /\ UNCHANGED pendingActions
       \/ /\ ~IsSimple(action)
          /\ pendingActions' = pendingActions - 1
          /\ IF pendingActions' = 0 THEN EvaluationEnded ELSE UNCHANGED pending
    /\ UNCHANGED <<tree, action, holds, unsatisfied, due, timers, rising, waiting, lost, heard, ran, refused>>

\* A property or the state of an event changes.
Assess(l) ==
    /\ Still
    /\ holds' = [holds EXCEPT ![l] = ~@]
    /\ UNCHANGED <<tree, unsatisfied, due, timers, rising, pending, heard, ran, refused, actionVars>>

ConditionsInit ==
    /\ tree \in Trees
    /\ holds \in [Leaves -> BOOLEAN]
    /\ unsatisfied = [n \in Conjunctions |-> Parts(tree, n)]
    /\ due = [n \in conditions |-> 0] /\ timers = [n \in conditions |-> 0]
    /\ rising = None
    /\ action \in Actions
    /\ pending = 0 /\ waiting = 0 /\ todo = 0 /\ pendingActions = 0 /\ lost = 0
    /\ heard = [t \in EventTransitions |-> 0] /\ ran = 0 /\ refused = FALSE

ConditionsNext ==
    \/ \E t \in EventTransitions : Happen(t)
    \/ \E n \in conditions : Tell(n) \/ Expire(n)
    \/ RiseInOr \/ RiseInAnd \/ RiseInLink
    \/ BeginAction \/ ActionProcessed
    \/ \E l \in Leaves : Assess(l)

\* Calls return, timers expire and simple actions come to their end.
ConditionsSpec ==
    /\ ConditionsInit /\ [][ConditionsNext]_conditionsVars
    /\ WF_conditionsVars(RiseInOr \/ RiseInAnd \/ RiseInLink)
    /\ WF_conditionsVars(\E n \in conditions : Tell(n))
    /\ WF_conditionsVars(\E n \in conditions : Expire(n))
    /\ WF_conditionsVars(BeginAction) /\ WF_conditionsVars(ActionProcessed)

-----------------------------------------------------------------------------

\* f[n] things for each n of S.
Units(f, S) == UNION {{n} \X (1..f[n]) : n \in S}

\* The timers of the delays that are under way.
Delays == Units(timers, conditions)

\* The runs of the action whose end the link will be told of.
RunsToReport ==
    IF IsSimple(action) THEN todo ELSE waiting + (IF pendingActions > 0 THEN 1 ELSE 0)

\* The composition counts the evaluations of the link that are under way, no more and
\* no less, whichever of them wait for a delay, stopped at a conjunction or run the
\* action: it does not end too early, and it stays locked only for the runs of a
\* compound action that were overtaken by the next one.
PendingIsCounted == pending = Cardinality(Delays) + RunsToReport + lost + (IF Still THEN 0 ELSE 1)

\* How often the condition n was satisfied at most by the transitions that happened, if
\* its parts were satisfied as often as f says.
AtMostBy(f, n) ==
    CASE tree[n].kind = "transition" -> heard[tree[n].on]
      [] tree[n].kind = "or"  -> Cardinality(Units(f, Parts(tree, n)))
      [] tree[n].kind = "and" -> Min({f[m] : m \in Parts(tree, n)})

AtMost[n \in conditions] == AtMostBy(AtMost, n)

Root == CHOOSE n \in conditions : tree[n].up = Link

\* The link runs no more often than what happened allows: a conjunction takes each
\* transition that it heard for one run only.
RunsNoMoreThanDue == ran <= AtMost[Root]

\* What happened satisfies these conditions: S has all the triggers that heard their
\* transition, the compound conditions with one of their parts, the conjunctions with all.
Satisfies(S) ==
    \A n \in conditions :
        CASE tree[n].kind = "transition" -> heard[tree[n].on] > 0 => n \in S
          [] tree[n].kind = "or"  -> Parts(tree, n) \cap S # {} => n \in S
          [] tree[n].kind = "and" -> Parts(tree, n) \subseteq S => n \in S

\* What happened is not lost: once all the triggers that a run takes have heard their
\* transitions, in any order and however long ago, and nothing is on its way, the link
\* has run, unless one of its statements was false.
NothingHeardIsLost ==
    (/\ \A S \in SUBSET conditions : Satisfies(S) => Root \in S
     /\ Still /\ pending = 0 /\ ~refused /\ \A n \in conditions : due[n] = 0)
        => ran > 0

\* Every evaluation comes to its end, but for one with each run of a compound action
\* that began while another one was unfinished: those, and only those, stay pending.
EvaluationsEnd == (pending > lost) ~> (pending = lost)
=============================================================================
