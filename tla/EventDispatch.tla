--------------------------- MODULE EventDispatch ---------------------------
(***************************************************************************)
(* One FormatterEvent and the EventManager that tells its listeners of its *)
(* transitions.  The listeners are called one after the other, from a copy *)
(* of the list of records taken when the transition was made; what they do *)
(* comes back here before the loop is over: the scheduler leaves the list, *)
(* a link stops, pauses or starts the very event it has just heard of, and *)
(* so on to any depth.  The stack of the activations of onEvent() is kept  *)
(* explicit, and every call, return and iteration of the loop is a step.   *)
(***************************************************************************)
EXTENDS Integers, Sequences, FiniteSets

CONSTANTS
    Core,       \* listeners with PT_CORE: the scheduler and the converter
    Links,      \* PT_LINK: conditions of links and events of switches
    Parents,    \* PT_OBJECT: the compositions that hold the object
    Nobody,
    MaxRecords, \* bound: records allocated in a behaviour
    MaxDepth    \* bound: activations of onEvent() at a time

Listeners == Core \cup Links \cup Parents

ASSUME ListenersAssumption ==
    /\ Core \cap Links = {} /\ Core \cap Parents = {} /\ Links \cap Parents = {}
    /\ Nobody \notin Listeners
    /\ MaxRecords \in Nat /\ MaxDepth \in Nat

VARIABLES
    state,      \* currentState of the event
    records,    \* _listeners[eventId]: records [id, who] by priority
    enabled,    \* the ids of the records that are enabled
    freed,      \* the ids of the records that were deleted
    nextId,     \* history: the next record to be allocated
    stack,      \* the activations of onEvent(), the innermost last
    prepared,   \* getExecutionObject()->getMainEvent() != NULL
    registered, \* history: who asked to listen and has not asked to stop
    dangling    \* history: a deleted record was read

vars == <<state, records, enabled, freed, nextId, stack, prepared, registered,
          dangling>>
listVars == <<records, enabled, freed, nextId, registered>>

States == {"SLEEPING", "OCCURRING", "PAUSED", "ABORTED"}
Transitions == {"start", "stop", "abort", "pause", "resume"}

\* getPriorityType(): the order in which the listeners are called.
LinksFirst(l) == IF l \in Links THEN 0 ELSE IF l \in Core THEN 1 ELSE 2

Priority(l) == IF l \in Core THEN 0 ELSE IF l \in Links THEN 1 ELSE 2

From(tr) == CASE tr = "start" -> {"SLEEPING"}
              [] tr = "pause" -> {"OCCURRING"}
              [] tr = "resume" -> {"PAUSED"}
              [] OTHER -> {"OCCURRING", "PAUSED"}

To(tr) == CASE tr = "start" -> "OCCURRING"
            [] tr = "resume" -> "OCCURRING"
            [] tr = "pause" -> "PAUSED"
            [] tr = "abort" -> "ABORTED"
            [] OTHER -> "SLEEPING"

Ids(s) == {s[i].id : i \in DOMAIN s}
Elements(s) == {s[i] : i \in DOMAIN s}

Sorted(s) == \A i, j \in DOMAIN s : i < j => Priority(s[i].who) <= Priority(s[j].who)

\* What std::sort may make of a list: any order of S that respects priorities.
Unsorted(S) == {s \in [1..Cardinality(S) -> S] : Elements(s) = S}
Arrangements(S) == {s \in [1..Cardinality(S) -> S] : Elements(s) = S /\ Sorted(s)}

Depth == Len(stack)
Top   == stack[Depth]

\* The code that runs: a listener being called, or code outside of any call.
Free    == stack = <<>>
Running == IF Free THEN Nobody ELSE Top.callee
InCode(ls) == Free \/ Running \in ls

-----------------------------------------------------------------------------

Init ==
    /\ state = "SLEEPING"
    /\ records = <<>> /\ enabled = {} /\ freed = {} /\ nextId = 1
    /\ stack = <<>>
    /\ prepared = FALSE
    /\ registered = {}
    /\ dangling = FALSE

-----------------------------------------------------------------------------
(* addListener(), delListener()                                            *)

\* The record that addListener() finds and enables again: any of l's, as long as
\* it is in the list.
EnabledRecordsOf(l) == {r \in Elements(records) : r.who = l /\ r.id \in enabled}
RecordsOf(l) == {r \in Elements(records) : r.who = l}

\* Only the scheduler registers itself or the parents, and it does so when a
\* link, a key or a task makes it act; so do the links that are compiled then.
AddListener(l) ==
    /\ InCode(Links)
    /\ registered' = registered \cup {l}
    /\ \/ \E r \in RecordsOf(l) :
             /\ enabled' = enabled \cup {r.id}
             /\ UNCHANGED <<records, nextId>>
       \/ /\ RecordsOf(l) = {}
          /\ nextId <= MaxRecords
          /\ records' \in Arrangements(Elements(records) \cup {[id |-> nextId, who |-> l]})
          /\ enabled' = enabled \cup {nextId}
          /\ nextId' = nextId + 1
    /\ UNCHANGED <<state, freed, stack, prepared, dangling>>

\* The scheduler also leaves while it is being told of the end.
DelListener(l) ==
    /\ InCode(Links) \/ (l \in Core /\ Running = l)
    /\ registered' = registered \ {l}
    /\ enabled' = enabled \ {r.id : r \in RecordsOf(l)}
    /\ UNCHANGED <<state, records, freed, nextId, stack, prepared, dangling>>

-----------------------------------------------------------------------------
(* start(), stop(), abort(), pause(), resume(): changeState() and onEvent() *)

Frame(tr) == [tr |-> tr, copy |-> records, at |-> 1, callee |-> Nobody]

ChangeState(tr) ==
    /\ InCode(Links) /\ Depth < MaxDepth
    /\ state \in From(tr)
    /\ state' = To(tr)
    /\ stack' = Append(stack, Frame(tr))
    /\ UNCHANGED <<listVars, prepared, dangling>>

\* The table of transitions puts an event to sleep, or makes it occur, without
\* telling anyone.
SetCurrentState ==
    /\ InCode(Links)
    /\ state' \in {"SLEEPING", "OCCURRING"}
    /\ UNCHANGED <<listVars, stack, prepared, dangling>>

\* ExecutionObject::prepare() and unprepare() want the event asleep.
Prepare ==
    /\ InCode(Links) /\ state = "SLEEPING"
    /\ prepared' = ~prepared
    /\ UNCHANGED <<state, listVars, stack, dangling>>

\* One iteration of the loop of onEvent().  A record that was deleted may read
\* as enabled or not.
InLoop == ~Free /\ Running = Nobody
Record == Top.copy[Top.at]

WouldCallAll == prepared
WouldCall == prepared /\ (Record.id \in enabled \/ Record.id \in freed)

CallOrSkip ==
    /\ InLoop /\ Top.at <= Len(Top.copy)
    /\ \E called \in BOOLEAN :
          /\ called => WouldCall
          /\ WouldCall => (called \/ Record.id \in freed)
          /\ stack' = [stack EXCEPT ![Depth].at = @ + 1,
                                    ![Depth].callee = IF called THEN Record.who ELSE Nobody]
    /\ dangling' = (dangling \/ Record.id \in freed)
    /\ UNCHANGED <<state, listVars, prepared>>

ListenerReturns ==
    /\ ~Free /\ Running # Nobody
    /\ stack' = [stack EXCEPT ![Depth].callee = Nobody]
    /\ UNCHANGED <<state, listVars, prepared, dangling>>

\* What is left of the list, in the same order, without the disabled records:
\* one sequence.
Cleanup ==
    LET kept == {r \in Elements(records) : r.id \in enabled}
    IN {s \in [1..Cardinality(kept) -> kept] :
           /\ Elements(s) = kept
           /\ \A i, j \in DOMAIN s : i < j =>
                 \E p, q \in DOMAIN records : p < q /\ records[p] = s[i] /\ records[q] = s[j]}

\* The end of onEvent(), which deletes the disabled records, and of
\* changeState(), which leaves ST_ABORTED.
OnEventReturns ==
    /\ InLoop /\ Top.at > Len(Top.copy)
    /\ records' \in Cleanup
    /\ freed' = freed \cup {id \in Ids(records) : id \notin enabled}
    /\ stack' = SubSeq(stack, 1, Depth - 1)
    /\ state' = IF state = "ABORTED" THEN "SLEEPING" ELSE state
    /\ UNCHANGED <<enabled, nextId, prepared, registered, dangling>>

-----------------------------------------------------------------------------

Next ==
    \/ \E l \in Listeners : AddListener(l) \/ DelListener(l)
    \/ \E tr \in Transitions : ChangeState(tr)
    \/ SetCurrentState \/ Prepare
    \/ CallOrSkip \/ ListenerReturns \/ OnEventReturns

Spec == Init /\ [][Next]_vars

-----------------------------------------------------------------------------

RecordSet == [id : Nat, who : Listeners]
FrameSet  == [tr : Transitions, copy : Seq(RecordSet), at : Nat,
              callee : Listeners \cup {Nobody}]

\* The values the variables take; no record is both in the list and deleted.
TypeOK ==
    /\ state \in States
    /\ records \in Seq(RecordSet)
    /\ enabled \subseteq Nat /\ freed \subseteq Nat /\ nextId \in Nat
    /\ stack \in Seq(FrameSet)
    /\ prepared \in BOOLEAN /\ dangling \in BOOLEAN
    /\ registered \subseteq Listeners
    /\ Ids(records) \cap freed = {}

\* CoreIsCurrent: a core listener that is still to be called for a transition is
\* told of it before anything else happens to the event: its call is due in the
\* innermost activation only, and the event is in the state it will be told.
Due(k) == {i \in DOMAIN stack[k].copy : i >= stack[k].at}

CoreIsCurrent ==
    \A k \in DOMAIN stack : \A i \in Due(k) :
        stack[k].copy[i].who \in Core => k = Depth /\ state = To(stack[k].tr)

\* The calls of an activation are made by priority: the scheduler knows before
\* the links react, and the composition hears when the links are done.
CalledByPriority ==
    \A k \in DOMAIN stack : stack[k].callee # Nobody =>
        \A i \in Due(k) : Priority(stack[k].callee) <= Priority(stack[k].copy[i].who)

\* A listener that left is not called any more, not even by the loops that
\* were under way when it left, as long as no deleted record is read.
OnlyRegisteredCalled ==
    [][\A l \in Listeners :
          (CallOrSkip /\ stack'[Depth].callee = l /\ ~dangling') => l \in registered]_vars

\* The list holds a record, and one only, for each of those who listen.
RegisteredOnce ==
    \A l \in registered :
        Cardinality({i \in DOMAIN records : records[i].who = l}) = 1
=============================================================================
