---------------------------- MODULE InputManager ----------------------------
(***************************************************************************)
(* The listeners of keys.  A key is dispatched over a copy of the list of  *)
(* listeners, since their callbacks register and remove listeners; one that *)
(* is removed is only disabled, and the end of a dispatch erases and deletes *)
(* those that are.  The callback of the focus manager dispatches a key of  *)
(* its own, so that dispatches nest.                                       *)
(*                                                                         *)
(* Everything runs on the thread of the main loop.  A step is what happens *)
(* between two places where a callback is entered or left.                 *)
(***************************************************************************)
EXTENDS Naturals, Sequences, FiniteSets, SequencesExt

CONSTANTS
    Ids,      \* ListenerId: who listens
    Keys,     \* the keys
    Nesting,  \* the ids whose callback dispatches a key
    MaxDepth, \* how deep dispatches nest
    None      \* no listener, no report

ASSUME InputAssumption ==
    /\ Nesting \subseteq Ids /\ MaxDepth \in Nat \ {0}
    /\ None \notin Ids

VARIABLES
    listeners,  \* _listeners of the manager: at most one for each id
    enabled,    \* _enabled of each listener
    keys,       \* _keys of each listener
    globalKeys, \* _globalKeys
    observed,   \* whether _onGlobalKeysChange is set
    told,       \* the keys _onGlobalKeysChange was last called with
    unreported, \* history: keys of enabled listeners that left globalKeys, see Del
    frames      \* the calls of dispatchKey() that are running, innermost first

listenerVars == <<listeners, enabled, keys>>
keyVars == <<globalKeys, observed, told, unreported>>
inputVars == <<listeners, enabled, keys, globalKeys, observed, told, unreported, frames>>

\* copy: what is left of tmp; deleted: those in copy that no longer exist;
\* callee: whose callback runs; nested: whether it has dispatched its key;
\* due: history, who had reserved the key when the dispatch began, and has neither been
\* called nor removed since.
Frame == [key : Keys, copy : Seq(Ids), deleted : SUBSET Ids,
          callee : Ids \cup {None}, nested : BOOLEAN, due : SUBSET Ids]

Registered == ToSet(listeners)

\* A mutant: a listener that was removed is called as long as it is in the list.
HasReservedOnce(l, k) == k \in keys[l]

HasReserved(l, k) == enabled[l] /\ k \in keys[l]

Reserving(k) == {l \in Registered : HasReserved(l, k)}

Reserved == UNION {keys[l] : l \in {i \in Registered : enabled[i]}}

\* Code other than that of dispatchKey() runs outside of any dispatch and in callbacks.
OthersRun == frames # <<>> => frames[1].callee # None

-----------------------------------------------------------------------------

UpdateGlobalKeys(isAdd, ks) ==
    LET modified == IF isAdd THEN \E k \in ks : k \notin globalKeys
                             ELSE \E k \in ks : k \in globalKeys
        new == IF isAdd THEN globalKeys \cup ks ELSE globalKeys \ ks
    IN /\ globalKeys' = new
       /\ told' = IF modified /\ observed THEN new ELSE told

\* addInputListener(): one that is found is enabled again and keeps its keys,
\* and only those of this call become global.
Add(l, ks) ==
    /\ OthersRun
    /\ IF l \in Registered
       THEN /\ keys' = [keys EXCEPT ![l] = @ \cup ks]
            /\ enabled' = [enabled EXCEPT ![l] = TRUE]
            /\ UNCHANGED listeners
            /\ unreported' = (unreported \cup (keys[l] \ globalKeys)) \ ks
       ELSE /\ keys' = [keys EXCEPT ![l] = ks]
            /\ enabled' = [enabled EXCEPT ![l] = TRUE]
            /\ listeners' = Append(listeners, l)
            /\ unreported' = unreported \ ks
    /\ UpdateGlobalKeys(TRUE, ks)
    /\ UNCHANGED <<observed, frames>>

NoLongerDue(l) == [i \in DOMAIN frames |-> [frames[i] EXCEPT !.due = @ \ {l}]]

\* A mutant: the keys are forgotten as if nobody else reserved them.
DelUnshared(l) ==
    /\ OthersRun
    /\ l \in Registered /\ enabled[l]
    /\ enabled' = [enabled EXCEPT ![l] = FALSE]
    /\ UpdateGlobalKeys(FALSE, Keys)
    /\ unreported' = unreported \cup (keys[l] \cap UNION {keys[i] : i \in Registered \ {l}})
    /\ frames' = NoLongerDue(l)
    /\ UNCHANGED <<listeners, keys, observed>>

\* delInputListener(): its keys are no longer global, whoever else reserves them.
Del(l) ==
    /\ OthersRun
    /\ l \in Registered /\ enabled[l]
    /\ enabled' = [enabled EXCEPT ![l] = FALSE]
    /\ UpdateGlobalKeys(FALSE, keys[l])
    /\ unreported' = unreported \cup (keys[l] \cap UNION {keys[i] : i \in Registered \ {l}})
    /\ frames' = NoLongerDue(l)
    /\ UNCHANGED <<listeners, keys, observed>>

\* onGlobalKeysChange(): set when the system starts to run, and not called yet.
OnGlobalKeysChange ==
    /\ ~observed /\ frames = <<>>
    /\ observed' = TRUE
    /\ UNCHANGED <<listenerVars, globalKeys, told, unreported, frames>>

-----------------------------------------------------------------------------
(* Manager::dispatchKey()                                                  *)

Entered(k) == [key |-> k, copy |-> listeners, deleted |-> {}, callee |-> None,
               nested |-> FALSE, due |-> Reserving(k)]

\* A device has a key, or the callback of a nesting listener dispatches one.
Dispatch(k) ==
    /\ IF frames = <<>>
       THEN frames' = <<Entered(k)>>
       ELSE /\ frames[1].callee \in Nesting /\ ~frames[1].nested
            /\ Len(frames) < MaxDepth
            /\ frames' = <<Entered(k)>> \o [frames EXCEPT ![1].nested = TRUE]
    /\ UNCHANGED <<listenerVars, keyVars>>

\* A mutant: a listener that has not reserved the key ends the dispatch.
VisitUntilRefused ==
    /\ frames # <<>> /\ frames[1].callee = None /\ frames[1].copy # <<>>
    /\ LET l == Head(frames[1].copy)
           passed == [frames EXCEPT ![1].copy = <<>>, ![1].deleted = {}]
           called == [frames EXCEPT ![1].copy = Tail(@), ![1].due = @ \ {l},
                                    ![1].callee = l, ![1].nested = FALSE]
       IN frames' = IF HasReserved(l, frames[1].key) THEN called ELSE passed
    /\ UNCHANGED <<listenerVars, keyVars>>

\* A mutant: the listener that was called stays in the copy.
VisitAgain ==
    /\ frames # <<>> /\ frames[1].callee = None /\ frames[1].copy # <<>>
    /\ LET l == Head(frames[1].copy)
           passed == [frames EXCEPT ![1].copy = Tail(@)]
           called == [frames EXCEPT ![1].callee = l, ![1].nested = FALSE]
       IN frames' = IF HasReserved(l, frames[1].key) THEN called ELSE passed
    /\ UNCHANGED <<listenerVars, keyVars>>

\* The next of the copy is asked and, when it has reserved the key, called.  What
\* the memory of one that was deleted answers is anything.
Visit ==
    /\ frames # <<>> /\ frames[1].callee = None /\ frames[1].copy # <<>>
    /\ LET l == Head(frames[1].copy)
           passed == [frames EXCEPT ![1].copy = Tail(@), ![1].deleted = @ \ {l}]
           called == [passed EXCEPT ![1].callee = l, ![1].nested = FALSE, ![1].due = @ \ {l}]
       IN IF l \in frames[1].deleted
          THEN frames' \in {passed, called}
          ELSE frames' = IF HasReserved(l, frames[1].key) THEN called ELSE passed
    /\ UNCHANGED <<listenerVars, keyVars>>

Return ==
    /\ frames # <<>> /\ frames[1].callee # None
    /\ frames' = [frames EXCEPT ![1].callee = None]
    /\ UNCHANGED <<listenerVars, keyVars>>

\* The list without those that are disabled, in the order of the list.
Kept == {l \in Registered : enabled[l]}

Compacted ==
    {s \in [1 .. Cardinality(Kept) -> Kept] :
        /\ ToSet(s) = Kept
        /\ \A i, j \in DOMAIN s : i < j =>
              \E p, q \in DOMAIN listeners :
                 p < q /\ listeners[p] = s[i] /\ listeners[q] = s[j]}

\* Nobody is left to be asked: the listeners that are disabled are erased and
\* deleted, and the copies of the dispatches around this one still hold them.
CleanUp ==
    /\ frames # <<>> /\ frames[1].callee = None /\ frames[1].copy = <<>>
    /\ LET gone == Registered \ Kept
           outer == Tail(frames)
       IN /\ listeners' \in Compacted
          /\ keys' = [l \in Ids |-> IF l \in gone THEN {} ELSE keys[l]]
          /\ frames' = [i \in DOMAIN outer |->
                          [outer[i] EXCEPT !.deleted = @ \cup (gone \cap ToSet(outer[i].copy))]]
    /\ UNCHANGED <<enabled, keyVars>>

InputInit ==
    /\ listeners = <<>> /\ frames = <<>>
    /\ enabled = [l \in Ids |-> FALSE]
    /\ keys = [l \in Ids |-> {}]
    /\ globalKeys = {} /\ observed = FALSE /\ told = None /\ unreported = {}

InputNext ==
    \/ \E l \in Ids, ks \in SUBSET Keys : Add(l, ks)
    \/ \E l \in Ids : Del(l)
    \/ OnGlobalKeysChange
    \/ \E k \in Keys : Dispatch(k)
    \/ Visit
    \/ Return
    \/ CleanUp

\* A dispatch runs on and a callback returns.
InputSpec == InputInit /\ [][InputNext]_inputVars /\ WF_inputVars(Visit) /\ WF_inputVars(Return) /\ WF_inputVars(CleanUp)

-----------------------------------------------------------------------------

\* The types of the variables; the list has each id once, and a listener that is
\* enabled is in it.
InputTypeOK ==
    /\ listeners \in Seq(Ids) /\ IsInjective(listeners)
    /\ enabled \in [Ids -> BOOLEAN] /\ keys \in [Ids -> SUBSET Keys]
    /\ \A l \in Ids : enabled[l] => l \in Registered
    /\ globalKeys \subseteq Keys /\ observed \in BOOLEAN
    /\ told \in (SUBSET Keys) \cup {None} /\ unreported \subseteq Keys
    /\ frames \in Seq(Frame)

\* A key is global exactly while a listener that is enabled reserves it, and it is what
\* the devices were last told: they are neither asked for keys that nobody takes nor left
\* without one that somebody waits for.  The exceptions are what the code does: a key
\* that was shared with a listener that was removed, and one that a listener kept from
\* before it was removed itself.
KeysAgree ==
    /\ globalKeys \subseteq Reserved /\ Reserved \subseteq globalKeys \cup unreported
    /\ told # None => told = globalKeys

\* In every dispatch that is running, who had reserved its key when it began is called,
\* unless it was removed: as long as it has not been, it is among those that are left to
\* be asked, whatever callbacks register, remove and dispatch, and whatever the dispatches
\* nested in this one erase.  When nobody is left to be asked, nobody is due.
NobodyIsMissed == \A i \in DOMAIN frames : frames[i].due \subseteq ToSet(frames[i].copy)

\* A step that enters a callback.
Calls == /\ frames # <<>> /\ Len(frames') = Len(frames)
         /\ frames[1].callee = None /\ frames'[1].callee # None

\* Only a listener that is registered, enabled and has reserved the key is called, and
\* none is called twice by a dispatch: who is removed by a callback is not called after.
\* The exception is a listener that the end of a nested dispatch deleted while the copy
\* of the outer one holds it: what its memory answers is not the program's.
OnlyReservingAreCalled ==
    [][Calls => LET l == frames'[1].callee
                IN /\ l \notin frames[1].deleted => /\ l \in Registered /\ enabled[l]
                                                 /\ frames[1].key \in keys[l]
                   /\ l \notin ToSet(frames'[1].copy)]_inputVars

\* A dispatch ends, whatever its callbacks register and remove.
DispatchEnds == frames # <<>> ~> frames = <<>>

=============================================================================
