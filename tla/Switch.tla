------------------------------- MODULE Switch -------------------------------
(***************************************************************************)
(* A switch: a composition of alternatives of which its rules select one   *)
(* when it is started.  Links and ports refer to the events of the switch; *)
(* each is mapped to an event of the component that is selected, forwards  *)
(* the actions to it, and repeats its transitions to those who listen.     *)
(* Here the components are media and the events their whole presentation.  *)
(*                                                                         *)
(* The selection is for one presentation only, but nobody says so when the *)
(* component ends by itself: the whole content of the switch tells nobody, *)
(* since a composition has no main event.                                  *)
(***************************************************************************)
EXTENDS Naturals, Sequences, FiniteSets

CONSTANTS
    Components,  \* the nodes of the switch
    None,        \* no component
    Default,     \* the default component, or None
    Rules,       \* the rules of the switch, in order: each with the component it is for
    Attributes,  \* properties of the settings
    Values,      \* their values
    Empty,       \* the empty one of them
    Interfaces,  \* interfaces of the switch: for each event, the components it maps to
    Late         \* the events that are made with a link that is compiled later

Events == DOMAIN Interfaces

IsSimple(r) == r.op \in {"eq", "ne"} /\ r.attribute \in Attributes /\ r.value \in Values

ASSUME SwitchAssumption ==
    /\ None \notin Components /\ Default \in Components \cup {None} /\ Empty \in Values
    /\ Len(Rules) \in Nat /\ DOMAIN Rules = 1..Len(Rules)
    /\ \A i \in DOMAIN Rules :
          /\ Rules[i].for \in Components
          /\ \/ IsSimple(Rules[i].rule)
             \/ Rules[i].rule.op \in {"and", "or"} /\ \A r \in Rules[i].rule.of : IsSimple(r)
    /\ \A e \in Events : Interfaces[e] \subseteq Components
    /\ Late \subseteq Events

VARIABLES
    settings,  \* the values of the properties
    made,      \* the events of the switch that were made
    selected,  \* selectedObject
    mapped,    \* mappedEvent of each event: the component it belongs to
    states,    \* the states of the events of the switch
    component, \* the states of the events of the components
    cut,       \* history: events that missed a transition of what they map to
    left       \* history: components that the switch forgot before they were stopped

switchVars == <<settings, made, selected, mapped, states, component, cut, left>>

States == {"sleeping", "occurring", "paused"}
SwitchActions == {"start", "stop", "pause", "resume"}

-----------------------------------------------------------------------------
(* The rules: RuleAdapter                                                  *)

\* A property without a value is as no other value.
EvaluateSimple(r) ==
    LET equal == IF settings[r.attribute] = Empty THEN r.value = Empty
                                                  ELSE settings[r.attribute] = r.value
    IN equal = (r.op = "eq")

Evaluate(r) ==
    CASE r.op = "or"  -> \E s \in r.of : EvaluateSimple(s)
      [] r.op = "and" -> \A s \in r.of : EvaluateSimple(s)
      [] OTHER        -> EvaluateSimple(r)

\* adaptSwitch() does not leave its loop at a rule that is true: the last one counts.
AdaptSwitch ==
    LET true == {i \in DOMAIN Rules : Evaluate(Rules[i].rule)} IN
    IF true = {} THEN Default ELSE Rules[CHOOSE i \in true : \A j \in true : j <= i].for

-----------------------------------------------------------------------------
(* The events of the components and those of the switch.                   *)

\* What an action on a component comes to.  A start may be refused by the player; the
\* pauses are counted, so that one resume may not be enough.
Outcomes(action, s) ==
    CASE action = "start"  /\ s = "sleeping"  -> {"sleeping", "occurring"}
      [] action = "stop"                      -> {"sleeping"}
      [] action = "pause"  /\ s = "occurring" -> {"paused"}
      [] action = "resume" /\ s = "paused"    -> {"paused", "occurring"}
      [] OTHER                                -> {s}

\* The events that come to map to a component left behind, whose start they missed.
Rejoined(m) == {e \in Events : mapped[e] = None /\ m[e] \in left}

\* eventStateChanged(): what happens to the component n happens to the events that
\* listen to it, m being the mapping at that time.
Tell(m) ==
    LET told == {e \in Events : m[e] # None /\ component'[m[e]] # component[m[e]]} IN
    /\ states' = [e \in Events |-> IF e \in told THEN component'[m[e]] ELSE states[e]]
    /\ cut' = (cut \cup Rejoined(m)) \ told

Run(n, action, m) ==
    /\ \E s \in Outcomes(action, component[n]) : component' = [component EXCEPT ![n] = s]
    /\ Tell(m)

\* The events that would miss the end of what they map to, were they unmapped now.
Deaf(m) == {e \in Events : m[e] # None /\ component[m[e]] # "sleeping"}

Unmapped == [e \in Events |-> None]

\* resolveSwitchEvents(): the events that were made are mapped to what they map to in n.
Resolved(n) == [e \in Events |-> IF e \in made /\ n \in Interfaces[e] THEN n ELSE mapped[e]]

\* As if the events kept what they mapped to.
ForgetSelectionOnly ==
    /\ selected' = None /\ UNCHANGED mapped
    /\ left' = {n \in left \cup ({selected} \ {None}) : component'[n] # "sleeping"}

\* select(NULL) before or after the action: the events let go of what they mapped to.
ForgetSelection ==
    /\ selected' = None /\ mapped' = Unmapped
    /\ left' = {n \in left \cup ({selected} \ {None}) : component'[n] # "sleeping"}

\* The selection is n, the mapping m; the action may have ended a component left behind.
Keep(n, m) ==
    /\ selected' = n /\ mapped' = m
    /\ left' = {o \in left : component'[o] # "sleeping"} \ {n}

-----------------------------------------------------------------------------
(* Actions of links and of compositions.                                   *)

\* A link that refers to e is compiled; the selection may have been made by then.
MakeEvent(e) ==
    /\ e \notin made
    /\ made' = made \cup {e}
    /\ UNCHANGED <<settings, selected, mapped, states, component, cut, left>>

\* As if the rules were evaluated at every action.
SelectionAnew == AdaptSwitch

\* getSelectedObject(), and processExecutionObjectSwitch() when there is none.
Selection == IF selected = None THEN AdaptSwitch ELSE selected

\* The mapping the action goes by: runSwitchEvent() maps an event that was not made
\* when the selection was.
Mapping(e, n) ==
    LET resolved == IF selected = None THEN Resolved(n) ELSE mapped IN
    IF resolved[e] = None /\ n \in Interfaces[e] THEN [resolved EXCEPT ![e] = n] ELSE resolved

\* An action on the event e of the switch.  After a stop the selection is forgotten,
\* also when e maps to nothing in the component that is selected and nothing was stopped.
\* It is one step.  In the code the links that react on the end of the component run
\* before the selection is forgotten: one that starts the switch again there starts the same
\* component, which is forgotten while it plays; that is not covered.
RunActionOverSwitch(e, action) ==
    /\ e \in made
    /\ LET n == Selection
           m == Mapping(e, n)
       IN /\ n # None
          /\ \/ m[e] # None /\ Run(m[e], action, m)
             \/ /\ m[e] = None /\ UNCHANGED <<component, states>>
                /\ cut' = cut \cup Rejoined(m) \cup IF action = "stop" THEN Deaf(m) ELSE {}
          /\ IF action = "stop" THEN ForgetSelection ELSE Keep(n, m)
    /\ UNCHANGED <<settings, made>>

\* The action on the composition the switch is in, which is for all of its components.
\* A stop forgets the selection first: the events of the switch hear of it no more.
RunActionOverComposition(action) ==
    /\ action \in SwitchActions \ {"start"}
    /\ \E c \in [Components -> States] :
          /\ \A n \in Components : c[n] \in Outcomes(action, component[n])
          /\ component' = c
    /\ IF action = "stop"
       THEN /\ ForgetSelection
            /\ cut' = cut \cup Deaf(mapped)
            /\ UNCHANGED states
       ELSE Keep(selected, mapped) /\ Tell(mapped)
    /\ UNCHANGED <<settings, made>>

\* As if the events of the switch did not listen to what they map to.
EndUnheard(n) ==
    /\ component[n] = "occurring"
    /\ component' = [component EXCEPT ![n] = "sleeping"]
    /\ Keep(selected, mapped)
    /\ UNCHANGED <<settings, made, states, cut>>

\* The component has come to its end by itself; the selection stays as it is, since
\* onEvent() calls nobody for the whole content of the switch.
End(n) ==
    /\ component[n] = "occurring"
    /\ Run(n, "stop", mapped)
    /\ Keep(selected, mapped)
    /\ UNCHANGED <<settings, made>>

SetProperty(a, v) ==
    /\ settings' = [settings EXCEPT ![a] = v]
    /\ UNCHANGED <<made, selected, mapped, states, component, cut, left>>

SwitchInit ==
    /\ settings \in [Attributes -> Values]
    /\ made = Events \ Late
    /\ selected = None /\ mapped = Unmapped
    /\ states = [e \in Events |-> "sleeping"]
    /\ component = [n \in Components |-> "sleeping"]
    /\ cut = {} /\ left = {}

SwitchNext ==
    \/ \E e \in Events : MakeEvent(e)
    \/ \E e \in Events, action \in SwitchActions : RunActionOverSwitch(e, action)
    \/ \E action \in SwitchActions : RunActionOverComposition(action)
    \/ \E n \in Components : End(n)
    \/ \E a \in Attributes, v \in Values : SetProperty(a, v)

SwitchSpec == SwitchInit /\ [][SwitchNext]_switchVars

-----------------------------------------------------------------------------

TypeOK ==
    /\ settings \in [Attributes -> Values] /\ made \subseteq Events
    /\ selected \in Components \cup {None}
    /\ mapped \in [Events -> Components \cup {None}]
    /\ states \in [Events -> States] /\ component \in [Components -> States]
    /\ cut \subseteq Events /\ left \subseteq Components

\* The alternatives exclude each other: what plays is the component that is selected,
\* or one the switch could not reach when it was stopped.
OnlySelectedPlays ==
    \A n \in Components : component[n] # "sleeping" => n = selected \/ n \in left

\* An event of the switch never forwards to a component that is not the selected one,
\* however the selections, the links that are compiled late and the stops interleave.
MappedIsSelected == \A e \in Events : mapped[e] # None => mapped[e] = selected

\* Who listens to the switch sees the state of what is selected, whoever changed it,
\* except an event that was made late or lost its component while that was playing.
EventsAgree ==
    \A e \in Events \ (Late \cup cut) :
        states[e] = IF mapped[e] = None THEN "sleeping" ELSE component[mapped[e]]
=============================================================================
