------------------------ MODULE EventDispatchProofs ------------------------
(***************************************************************************)
(* What EventManager promises of the order of its calls, for any listeners *)
(* and any depth of nested dispatches; then what the conditions of a link, *)
(* which are among those listeners, make of the transitions they hear of.  *)
(***************************************************************************)
EXTENDS EventDispatch, LinkConditions, TLAPS, SequenceTheorems, FiniteSetTheorems,
        WellFoundedInduction

(***************************************************************************)
(* The inductive strengthening.  Every list is sorted, the copies that the *)
(* dispatches walk too; who is being called is the record just passed; and *)
(* whoever made a nested change is a link, called after the core.          *)
(***************************************************************************)
AllSorted == Sorted(records) /\ \A k \in DOMAIN stack : Sorted(stack[k].copy)

CalleeIsPassed ==
    \A k \in DOMAIN stack : stack[k].callee # Nobody =>
        /\ stack[k].at - 1 \in DOMAIN stack[k].copy
        /\ stack[k].copy[stack[k].at - 1].who = stack[k].callee

AtIsPositive == \A k \in DOMAIN stack : stack[k].at >= 1

OuterCalleesAreLinks == \A k \in DOMAIN stack : k < Depth => stack[k].callee \in Links

IdsAreOld == \A id \in Ids(records) \cup freed : id < nextId

Types ==
    /\ state \in States
    /\ records \in Seq(RecordSet)
    /\ enabled \subseteq Nat /\ freed \subseteq Nat /\ nextId \in Nat
    /\ stack \in Seq(FrameSet)
    /\ prepared \in BOOLEAN /\ dangling \in BOOLEAN
    /\ registered \subseteq Listeners
    /\ Ids(records) \cap freed = {}

Inv == /\ Types /\ IdsAreOld
       /\ AllSorted /\ AtIsPositive /\ CalleeIsPassed
       /\ OuterCalleesAreLinks /\ CoreIsCurrent

-----------------------------------------------------------------------------

LEMMA PriorityType == \A l : Priority(l) \in 0..2
BY DEF Priority

LEMMA EmptyIsSeq == \A S : <<>> \in Seq(S) /\ Len(<<>>) = 0
BY EmptySeq

LEMMA SeqDomain ==
  ASSUME NEW S, NEW s \in Seq(S)
  PROVE  /\ Len(s) \in Nat /\ DOMAIN s = 1..Len(s)
         /\ \A i \in 1..Len(s) : s[i] \in S
BY ElementOfSeq, LenProperties

(***************************************************************************)
(* An enumeration of a finite set of records is a list of records.         *)
(***************************************************************************)
LEMMA EnumerationIsSeq ==
  ASSUME NEW S, NEW T, S \subseteq T, IsFiniteSet(S),
         NEW s \in [1..Cardinality(S) -> S]
  PROVE  s \in Seq(T)
<1>1. Cardinality(S) \in Nat
  BY FS_CardinalityType
<1>2. QED
  BY <1>1

LEMMA ElementsFinite ==
  ASSUME NEW S, NEW s \in Seq(S)
  PROVE  IsFiniteSet(Elements(s)) /\ Elements(s) \subseteq S
<1>1. Len(s) \in Nat /\ DOMAIN s = 1..Len(s) /\ \A i \in 1..Len(s) : s[i] \in S
  BY SeqDomain
<1>2. IsFiniteSet(1..Len(s))
  BY <1>1, FS_Interval
<1>3. s \in [1..Len(s) -> Elements(s)]
  BY LenProperties, <1>1 DEF Elements
<1>4. s \in Surjection(1..Len(s), Elements(s))
  BY <1>1, <1>3 DEF Surjection, Elements
<1>5. IsFiniteSet(Elements(s))
  BY <1>2, <1>4, FS_Surjection
<1>6. QED
  BY <1>1, <1>5 DEF Elements

LEMMA IdsAreOfElements == \A s : Ids(s) = {r.id : r \in Elements(s)}
BY DEF Ids, Elements

(***************************************************************************)
(* A list sorted anew after an insertion, and a list without its disabled  *)
(* records, are sorted lists of the records they should hold.              *)
(***************************************************************************)
LEMMA ArrangementsProperties ==
  ASSUME NEW S \in SUBSET RecordSet, IsFiniteSet(S), NEW s \in Arrangements(S)
  PROVE  s \in Seq(RecordSet) /\ Sorted(s) /\ Elements(s) = S
BY EnumerationIsSeq DEF Arrangements

LEMMA CleanupProperties ==
  ASSUME records \in Seq(RecordSet), Sorted(records), NEW s \in Cleanup
  PROVE  /\ s \in Seq(RecordSet) /\ Sorted(s)
         /\ Elements(s) = {r \in Elements(records) : r.id \in enabled}
<1> DEFINE kept == {r \in Elements(records) : r.id \in enabled}
<1>1. IsFiniteSet(kept) /\ kept \subseteq RecordSet
  BY ElementsFinite, FS_Subset
<1>2. s \in [1..Cardinality(kept) -> kept] /\ Elements(s) = kept
  BY DEF Cleanup
<1>3. s \in Seq(RecordSet)
  BY <1>1, <1>2, EnumerationIsSeq
<1>4. Sorted(s)
  <2> SUFFICES ASSUME NEW i \in DOMAIN s, NEW j \in DOMAIN s, i < j
               PROVE  Priority(s[i].who) <= Priority(s[j].who)
    BY DEF Sorted
  <2>1. PICK p \in DOMAIN records, q \in DOMAIN records :
            p < q /\ records[p] = s[i] /\ records[q] = s[j]
    BY DEF Cleanup
  <2>2. QED
    BY <2>1 DEF Sorted
<1>5. QED
  BY <1>2, <1>3, <1>4

(***************************************************************************)
(* While a link or a composition is called, no core listener is due.       *)
(***************************************************************************)
LEMMA NoCoreAfterLinks ==
  ASSUME Inv, NEW k \in DOMAIN stack, stack[k].callee \in Links,
         NEW i \in Due(k)
  PROVE  stack[k].copy[i].who \notin Core
<1> DEFINE f == stack[k]
<1>1. f \in FrameSet
  BY SeqDomain DEF Inv, Types
<1>2. f.callee # Nobody
  BY ListenersAssumption DEF Listeners
<1>3. f.at - 1 \in DOMAIN f.copy /\ f.copy[f.at - 1].who = f.callee
  BY <1>2 DEF Inv, CalleeIsPassed
<1>4. i \in DOMAIN f.copy /\ i >= f.at /\ DOMAIN f.copy = 1..Len(f.copy) /\ f.at \in Nat
  BY <1>1, SeqDomain DEF Due, FrameSet
<1>5. f.at - 1 < i
  BY <1>4
<1>6. Priority(f.callee) <= Priority(f.copy[i].who)
  BY <1>3, <1>4, <1>5 DEF Inv, AllSorted, Sorted
<1>7. Priority(f.callee) = 1
  BY ListenersAssumption DEF Priority
<1>8. QED
  BY <1>6, <1>7 DEF Priority

-----------------------------------------------------------------------------

LEMMA InitInv == Init => Inv
<1> SUFFICES ASSUME Init PROVE Inv
  OBVIOUS
<1>1. records = <<>> /\ stack = <<>> /\ DOMAIN stack = {} /\ DOMAIN records = {}
  BY EmptyIsSeq, SeqDomain DEF Init
<1>2. Types
  BY <1>1, EmptyIsSeq DEF Init, Types, States, Ids
<1>3. IdsAreOld /\ AllSorted /\ AtIsPositive /\ CalleeIsPassed /\ OuterCalleesAreLinks /\ CoreIsCurrent
  BY <1>1 DEF Init, IdsAreOld, Ids, AllSorted, Sorted, AtIsPositive, CalleeIsPassed,
     OuterCalleesAreLinks, CoreIsCurrent
<1>4. QED
  BY <1>2, <1>3 DEF Inv

(***************************************************************************)
(* The steps that leave the stack alone.                                   *)
(***************************************************************************)
StackParts == AtIsPositive /\ CalleeIsPassed /\ OuterCalleesAreLinks

LEMMA StackKept ==
  ASSUME Inv, stack' = stack
  PROVE  /\ StackParts' /\ (\A k \in DOMAIN stack' : Sorted(stack'[k].copy))
         /\ (state' = state => CoreIsCurrent')
<1>1. StackParts'
  BY DEF Inv, StackParts, AtIsPositive, CalleeIsPassed, OuterCalleesAreLinks, Depth
<1>2. \A k \in DOMAIN stack' : Sorted(stack'[k].copy)
  BY DEF Inv, AllSorted
<1>3. ASSUME state' = state PROVE CoreIsCurrent'
  BY <1>3 DEF Inv, CoreIsCurrent, Due, Depth
<1>4. QED
  BY <1>1, <1>2, <1>3

LEMMA AddListenerInv ==
  ASSUME Inv, NEW l \in Listeners, AddListener(l)
  PROVE  Inv'
<1>1. /\ state' = state /\ freed' = freed /\ stack' = stack
      /\ prepared' = prepared /\ dangling' = dangling
      /\ registered' = registered \cup {l}
  BY DEF AddListener
<1>2. CASE \E r \in RecordsOf(l) :
              enabled' = enabled \cup {r.id} /\ UNCHANGED <<records, nextId>>
  <2>1. PICK r \in RecordsOf(l) :
              enabled' = enabled \cup {r.id} /\ records' = records /\ nextId' = nextId
    BY <1>2
  <2>2. r.id \in Nat
    <3>1. r \in Elements(records) /\ Elements(records) \subseteq RecordSet
      BY <2>1, ElementsFinite DEF Inv, Types, RecordsOf
    <3>2. QED
      BY <3>1 DEF RecordSet
  <2>3. Types' /\ IdsAreOld'
    BY <1>1, <2>1, <2>2 DEF Inv, Types, IdsAreOld
  <2>4. AllSorted'
    BY <1>1, <2>1, StackKept DEF Inv, AllSorted
  <2>5. QED
    BY <1>1, <2>3, <2>4, StackKept DEF Inv, StackParts
<1>3. CASE /\ records' \in Arrangements(Elements(records) \cup {[id |-> nextId, who |-> l]})
           /\ enabled' = enabled \cup {nextId}
           /\ nextId' = nextId + 1
  <2> DEFINE r == [id |-> nextId, who |-> l]
             S == Elements(records) \cup {r}
  <2>1. r \in RecordSet /\ nextId \in Nat
    BY DEF Inv, Types, RecordSet
  <2>2. IsFiniteSet(S) /\ S \subseteq RecordSet
    BY <2>1, ElementsFinite, FS_AddElement DEF Inv, Types
  <2>3. records' \in Seq(RecordSet) /\ Sorted(records') /\ Elements(records') = S
    BY <1>3, <2>2, ArrangementsProperties
  <2>4. Ids(records') = Ids(records) \cup {nextId}
    <3>1. r.id = nextId
      OBVIOUS
    <3>2. {x.id : x \in S} = {x.id : x \in Elements(records)} \cup {r.id}
      BY Zenon
    <3>3. QED
      BY <2>3, <3>1, <3>2, IdsAreOfElements
  <2>5. IdsAreOld'
    <3>1. Ids(records) \subseteq Nat /\ freed \subseteq Nat
      <4>1. \A i \in DOMAIN records : records[i] \in RecordSet
        BY SeqDomain DEF Inv, Types
      <4>2. QED
        BY <4>1 DEF Inv, Types, Ids, RecordSet
    <3>2. \A id \in Ids(records) \cup freed : id \in Nat /\ id < nextId
      BY <3>1 DEF Inv, IdsAreOld
    <3>3. \A id \in Ids(records') \cup freed : id < nextId + 1
      BY <2>1, <2>4, <3>2
    <3>4. QED
      BY <1>1, <1>3, <3>3 DEF IdsAreOld
  <2>6. nextId \notin freed
    BY <2>1 DEF Inv, IdsAreOld
  <2>7. Types'
    BY <1>1, <1>3, <2>1, <2>3, <2>4, <2>6 DEF Inv, Types
  <2>8. AllSorted'
    BY <1>1, <2>3, StackKept DEF AllSorted
  <2>9. QED
    BY <1>1, <2>5, <2>7, <2>8, StackKept DEF Inv, StackParts
<1>4. QED
  BY <1>2, <1>3 DEF AddListener

LEMMA DelListenerInv ==
  ASSUME Inv, NEW l \in Listeners, DelListener(l)
  PROVE  Inv'
<1>1. UNCHANGED <<state, records, freed, nextId, stack, prepared, dangling>>
  BY DEF DelListener
<1>2. enabled' \subseteq enabled /\ registered' \subseteq registered
  BY DEF DelListener
<1>3. Types' /\ IdsAreOld'
  BY <1>1, <1>2 DEF Inv, Types, IdsAreOld
<1>4. QED
  BY <1>1, <1>3, StackKept DEF Inv, StackParts, AllSorted

(***************************************************************************)
(* A step of the code of a link, or outside of any call, may change the    *)
(* state: no core listener is due anywhere.                                *)
(***************************************************************************)
LEMMA NoneDueInLinks ==
  ASSUME Inv, InCode(Links), NEW k \in DOMAIN stack, NEW i \in Due(k)
  PROVE  stack[k].copy[i].who \notin Core
<1>1. Len(stack) \in Nat /\ DOMAIN stack = 1..Len(stack)
  BY SeqDomain DEF Inv, Types
<1>2. stack # <<>>
  BY <1>1, EmptyIsSeq
<1>3. Top.callee \in Links
  BY <1>2 DEF InCode, Running, Free
<1>4. stack[k].callee \in Links
  BY <1>1, <1>3 DEF Inv, OuterCalleesAreLinks, Top, Depth
<1>5. QED
  BY <1>4, NoCoreAfterLinks

LEMMA SilentInv ==
  ASSUME Inv, SetCurrentState \/ Prepare
  PROVE  Inv'
<1>1. /\ InCode(Links)
      /\ UNCHANGED <<records, enabled, freed, nextId, registered, stack, dangling>>
  BY DEF SetCurrentState, Prepare, listVars
<1>2. state' \in States /\ prepared' \in BOOLEAN
  BY DEF SetCurrentState, Prepare, States, Inv, Types
<1>3. Types' /\ IdsAreOld'
  BY <1>1, <1>2 DEF Inv, Types, IdsAreOld
<1>4. CoreIsCurrent'
  BY <1>1, NoneDueInLinks DEF CoreIsCurrent, Due
<1>5. QED
  BY <1>1, <1>3, <1>4, StackKept DEF Inv, StackParts, AllSorted

(***************************************************************************)
(* A change of state opens a dispatch: the new frame is the only one in    *)
(* which a core listener is due.                                           *)
(***************************************************************************)
LEMMA ChangeStateInv ==
  ASSUME Inv, NEW tr \in Transitions, ChangeState(tr)
  PROVE  Inv'
<1> DEFINE f == Frame(tr)
<1>1. /\ InCode(Links) /\ state' = To(tr) /\ stack' = Append(stack, f)
      /\ UNCHANGED <<records, enabled, freed, nextId, registered, prepared, dangling>>
  BY DEF ChangeState, listVars
<1>2. /\ Len(stack) \in Nat /\ DOMAIN stack = 1..Len(stack)
      /\ stack' \in Seq(FrameSet) /\ Len(stack') = Len(stack) + 1
      /\ DOMAIN stack' = 1..(Len(stack) + 1)
      /\ \A k \in 1..Len(stack) : stack'[k] = stack[k]
      /\ stack'[Len(stack) + 1] = f
  <2>1. f \in FrameSet
    BY DEF Frame, FrameSet, Inv, Types
  <2>2. QED
    BY <1>1, <2>1, SeqDomain, AppendProperties DEF Inv, Types
<1>3. f.tr = tr /\ f.copy = records /\ f.at = 1 /\ f.callee = Nobody
  BY DEF Frame
<1>4. Types' /\ IdsAreOld'
  <2>1. state' \in States
    BY <1>1 DEF To, States, Transitions
  <2>2. QED
    BY <1>1, <1>2, <2>1 DEF Inv, Types, IdsAreOld
<1>5. AllSorted'
  BY <1>1, <1>2, <1>3 DEF Inv, AllSorted
<1>6. CalleeIsPassed' /\ AtIsPositive'
  BY <1>2, <1>3 DEF Inv, CalleeIsPassed, AtIsPositive
<1>7. OuterCalleesAreLinks'
  <2> SUFFICES ASSUME NEW k \in 1..Len(stack) PROVE stack[k].callee \in Links
    BY <1>2 DEF OuterCalleesAreLinks, Depth
  <2>1. Top.callee \in Links
    BY <1>1, <1>2, EmptyIsSeq DEF InCode, Running, Free
  <2>2. QED
    BY <1>2, <2>1 DEF Inv, OuterCalleesAreLinks, Top, Depth
<1>8. CoreIsCurrent'
  <2> SUFFICES ASSUME NEW k \in DOMAIN stack', NEW i \in Due(k)',
                      stack'[k].copy[i].who \in Core
               PROVE  k = Len(stack') /\ state' = To(stack'[k].tr)
    BY DEF CoreIsCurrent, Depth
  <2>1. CASE k = Len(stack) + 1
    BY <1>1, <1>2, <1>3, <2>1
  <2>2. CASE k \in 1..Len(stack)
    BY <1>1, <1>2, <2>2, NoneDueInLinks DEF Due
  <2>3. QED
    BY <1>2, <2>1, <2>2
<1>9. QED
  BY <1>4, <1>5, <1>6, <1>7, <1>8 DEF Inv

(***************************************************************************)
(* A step of the innermost dispatch that keeps its copy: who is called, if *)
(* anyone, is the record it has just passed, and it never goes back.       *)
(***************************************************************************)
LEMMA InnermostInv ==
  ASSUME Inv, stack # <<>>,
         NEW g \in FrameSet, stack' = [stack EXCEPT ![Depth] = g],
         g.tr = Top.tr, g.copy = Top.copy, g.at >= Top.at,
         g.callee # Nobody => /\ g.at - 1 \in DOMAIN g.copy
                              /\ g.copy[g.at - 1].who = g.callee,
         UNCHANGED <<state, records, enabled, freed, nextId, registered, prepared>>,
         dangling' \in BOOLEAN
  PROVE  Inv'
<1>1. /\ Len(stack) \in Nat \ {0} /\ DOMAIN stack = 1..Len(stack)
      /\ Depth = Len(stack) /\ Top = stack[Len(stack)] /\ Top \in FrameSet
  BY SeqDomain, EmptySeq DEF Inv, Types, Depth, Top
<1>2. /\ stack' \in Seq(FrameSet) /\ Len(stack') = Len(stack)
      /\ DOMAIN stack' = 1..Len(stack)
      /\ stack'[Len(stack)] = g
      /\ \A k \in 1..Len(stack) : k # Len(stack) => stack'[k] = stack[k]
  BY <1>1, ExceptSeq DEF Inv, Types
<1>3. Types' /\ IdsAreOld'
  BY <1>2 DEF Inv, Types, IdsAreOld
<1>4. AllSorted'
  BY <1>1, <1>2 DEF Inv, AllSorted
<1>5. CalleeIsPassed' /\ AtIsPositive'
  <2>1. g.at \in Nat /\ Top.at \in Nat /\ Top.at >= 1
    BY <1>1 DEF Inv, AtIsPositive, FrameSet
  <2>2. QED
    BY <1>1, <1>2, <2>1 DEF Inv, CalleeIsPassed, AtIsPositive
<1>6. OuterCalleesAreLinks'
  BY <1>1, <1>2 DEF Inv, OuterCalleesAreLinks, Depth
<1>7. CoreIsCurrent'
  <2> SUFFICES ASSUME NEW k \in DOMAIN stack', NEW i \in Due(k)',
                      stack'[k].copy[i].who \in Core
               PROVE  k = Len(stack') /\ state' = To(stack'[k].tr)
    BY DEF CoreIsCurrent, Depth
  <2>1. g.at \in Nat /\ Top.at \in Nat /\ DOMAIN g.copy \subseteq Nat
    BY <1>1, SeqDomain DEF FrameSet
  <2>2. i \in Due(k) /\ stack[k].copy[i].who \in Core /\ stack'[k].tr = stack[k].tr
    BY <1>1, <1>2, <2>1 DEF Due
  <2>3. QED
    BY <1>1, <1>2, <2>2 DEF Inv, CoreIsCurrent
<1>8. QED
  BY <1>3, <1>4, <1>5, <1>6, <1>7 DEF Inv

LEMMA FramePassed ==
  ASSUME NEW f \in FrameSet, NEW c \in Listeners \cup {Nobody}
  PROVE  LET g == [f EXCEPT !.at = @ + 1, !.callee = c]
         IN  g \in FrameSet /\ g.tr = f.tr /\ g.copy = f.copy
             /\ g.at = f.at + 1 /\ g.callee = c
<1> DEFINE h == [f EXCEPT !.at = @ + 1]
           g == [h EXCEPT !.callee = c]
<1>1. h \in FrameSet /\ h.tr = f.tr /\ h.copy = f.copy /\ h.at = f.at + 1
  BY DEF FrameSet
<1> HIDE DEF h
<1>2. g \in FrameSet /\ g.tr = h.tr /\ g.copy = h.copy /\ g.at = h.at /\ g.callee = c
  BY <1>1 DEF FrameSet
<1> USE DEF h
<1>3. g = [f EXCEPT !.at = @ + 1, !.callee = c]
  OBVIOUS
<1>4. QED
  BY <1>1, <1>2, <1>3

LEMMA CallOrSkipInv ==
  ASSUME Inv, CallOrSkip
  PROVE  Inv'
<1>1. /\ stack # <<>> /\ Top.at <= Len(Top.copy)
      /\ UNCHANGED <<state, records, enabled, freed, nextId, registered, prepared>>
  BY DEF CallOrSkip, InLoop, Free, listVars
<1>2. Depth \in DOMAIN stack /\ Top = stack[Depth] /\ Top \in FrameSet
  <2>1. Len(stack) \in Nat \ {0} /\ DOMAIN stack = 1..Len(stack)
    BY <1>1, SeqDomain, EmptySeq DEF Inv, Types
  <2>2. QED
    BY <2>1, SeqDomain DEF Inv, Types, Depth, Top
<1>3. PICK called \in BOOLEAN :
         stack' = [stack EXCEPT ![Depth].at = @ + 1,
                                ![Depth].callee = IF called THEN Record.who ELSE Nobody]
  BY DEF CallOrSkip
<1> DEFINE c == IF called THEN Record.who ELSE Nobody
           g == [Top EXCEPT !.at = @ + 1, !.callee = c]
<1>4. stack' = [stack EXCEPT ![Depth] = g]
  BY <1>2, <1>3
<1>5. dangling' \in BOOLEAN
  BY DEF CallOrSkip, Inv, Types
<1>6. CASE Top.at \in DOMAIN Top.copy
  <2>1. Record \in RecordSet /\ Record = Top.copy[Top.at]
    BY <1>2, <1>6, SeqDomain DEF FrameSet, Record
  <2>2. /\ g \in FrameSet /\ g.tr = Top.tr /\ g.copy = Top.copy /\ g.at = Top.at + 1
        /\ g.callee # Nobody => g.callee = Record.who
    <3>1. c \in Listeners \cup {Nobody} /\ (c # Nobody => c = Record.who)
      BY <2>1 DEF RecordSet
    <3> HIDE DEF c
    <3>2. g \in FrameSet /\ g.tr = Top.tr /\ g.copy = Top.copy
          /\ g.at = Top.at + 1 /\ g.callee = c
      BY <1>2, <3>1, FramePassed
    <3>3. QED
      BY <3>1, <3>2
  <2>3. g.at >= Top.at /\ g.at - 1 = Top.at
    BY <1>2, <2>2 DEF FrameSet
  <2>4. QED
    BY <1>1, <1>4, <1>5, <1>6, <2>1, <2>2, <2>3, InnermostInv
<1>7. Top.at \in DOMAIN Top.copy
  BY <1>1, <1>2, SeqDomain DEF FrameSet, Inv, AtIsPositive
<1>8. QED
  BY <1>6, <1>7

LEMMA ListenerReturnsInv ==
  ASSUME Inv, ListenerReturns
  PROVE  Inv'
<1>1. /\ stack # <<>> /\ stack' = [stack EXCEPT ![Depth].callee = Nobody]
      /\ UNCHANGED <<state, records, enabled, freed, nextId, registered, prepared, dangling>>
  BY DEF ListenerReturns, Free, listVars
<1>2. Depth \in DOMAIN stack /\ Top = stack[Depth] /\ Top \in FrameSet
  <2>1. Len(stack) \in Nat \ {0} /\ DOMAIN stack = 1..Len(stack)
    BY <1>1, SeqDomain, EmptySeq DEF Inv, Types
  <2>2. QED
    BY <2>1, SeqDomain DEF Inv, Types, Depth, Top
<1> DEFINE g == [Top EXCEPT !.callee = Nobody]
<1>3. stack' = [stack EXCEPT ![Depth] = g]
  BY <1>1, <1>2
<1>4. /\ g \in FrameSet /\ g.tr = Top.tr /\ g.copy = Top.copy
      /\ g.at = Top.at /\ g.callee = Nobody
  BY <1>2 DEF FrameSet
<1>5. g.at >= Top.at
  BY <1>2, <1>4 DEF FrameSet
<1>6. dangling' \in BOOLEAN
  BY <1>1 DEF Inv, Types
<1>7. QED
  BY <1>1, <1>3, <1>4, <1>5, <1>6, InnermostInv

(***************************************************************************)
(* The end of a dispatch that a link caused goes back into the code of the *)
(* link, where no core listener is due.                                    *)
(***************************************************************************)
LEMMA OnEventReturnsInv ==
  ASSUME Inv, OnEventReturns
  PROVE  Inv'
<1>1. /\ stack # <<>> /\ records' \in Cleanup
      /\ freed' = freed \cup {id \in Ids(records) : id \notin enabled}
      /\ stack' = SubSeq(stack, 1, Len(stack) - 1)
      /\ state' = IF state = "ABORTED" THEN "SLEEPING" ELSE state
      /\ UNCHANGED <<enabled, nextId, prepared, registered, dangling>>
  BY DEF OnEventReturns, InLoop, Free, Depth
<1>2. /\ Len(stack) \in Nat \ {0} /\ DOMAIN stack = 1..Len(stack)
      /\ \A k \in 1..Len(stack) : stack[k] \in FrameSet
  BY <1>1, SeqDomain, EmptySeq DEF Inv, Types
<1>3. /\ stack' \in Seq(FrameSet) /\ Len(stack') = Len(stack) - 1
      /\ DOMAIN stack' = 1..(Len(stack) - 1)
      /\ \A k \in 1..(Len(stack) - 1) : stack'[k] = stack[k]
  <2>1. \A i \in 1..(Len(stack) - 1) : stack[i] \in FrameSet
    BY <1>2
  <2>2. /\ stack' \in Seq(FrameSet) /\ Len(stack') = Len(stack) - 1
        /\ \A k \in 1..(Len(stack) - 1) : stack'[k] = stack[1 + k - 1]
    BY <1>1, <1>2, <2>1, SubSeqProperties
  <2>3. QED
    BY <1>2, <2>2, SeqDomain
<1>4. /\ records' \in Seq(RecordSet) /\ Sorted(records')
      /\ Elements(records') = {r \in Elements(records) : r.id \in enabled}
  BY <1>1, CleanupProperties DEF Inv, Types, AllSorted
<1>5. Ids(records') \subseteq Ids(records) \cap enabled
  BY <1>4, IdsAreOfElements
<1>6. Types'
  <2>1. freed' \subseteq Nat
    <3>1. \A i \in DOMAIN records : records[i] \in RecordSet
      BY SeqDomain DEF Inv, Types
    <3>2. QED
      BY <1>1, <3>1 DEF Inv, Types, Ids, RecordSet
  <2>2. Ids(records') \cap freed' = {}
    BY <1>1, <1>5 DEF Inv, Types
  <2>3. QED
    BY <1>1, <1>3, <1>4, <2>1, <2>2 DEF Inv, Types, States
<1>7. IdsAreOld'
  BY <1>1, <1>5 DEF Inv, IdsAreOld
<1>8. AllSorted' /\ CalleeIsPassed' /\ AtIsPositive'
  <2>1. AllSorted'
    BY <1>2, <1>3, <1>4 DEF Inv, AllSorted
  <2>2. CalleeIsPassed'
    BY <1>2, <1>3 DEF Inv, CalleeIsPassed
  <2>3. AtIsPositive'
    BY <1>2, <1>3 DEF Inv, AtIsPositive
  <2> QED
    BY <2>1, <2>2, <2>3
<1>9. OuterCalleesAreLinks'
  BY <1>2, <1>3 DEF Inv, OuterCalleesAreLinks, Depth
<1>10. CoreIsCurrent'
  <2> SUFFICES ASSUME NEW k \in DOMAIN stack', NEW i \in Due(k)',
                      stack'[k].copy[i].who \in Core
               PROVE  FALSE
    BY DEF CoreIsCurrent
  <2>1. k \in DOMAIN stack /\ k < Depth /\ i \in Due(k) /\ stack[k].copy[i].who \in Core
    BY <1>2, <1>3 DEF Due, Depth
  <2>2. QED
    BY <2>1, NoCoreAfterLinks DEF Inv, OuterCalleesAreLinks
<1>11. QED
  BY <1>6, <1>7, <1>8, <1>9, <1>10 DEF Inv

-----------------------------------------------------------------------------

LEMMA StepInv == Inv /\ [Next]_vars => Inv'
<1> SUFFICES ASSUME Inv, [Next]_vars PROVE Inv'
  OBVIOUS
<1>1. CASE UNCHANGED vars
  BY <1>1, StackKept DEF vars, Inv, Types, IdsAreOld, AllSorted, StackParts, AtIsPositive
<1>2. CASE \E l \in Listeners : AddListener(l) \/ DelListener(l)
  BY <1>2, AddListenerInv, DelListenerInv
<1>3. CASE \E tr \in Transitions : ChangeState(tr)
  BY <1>3, ChangeStateInv
<1>4. CASE SetCurrentState \/ Prepare
  BY <1>4, SilentInv
<1>5. CASE CallOrSkip
  BY <1>5, CallOrSkipInv
<1>6. CASE ListenerReturns
  BY <1>6, ListenerReturnsInv
<1>7. CASE OnEventReturns
  BY <1>7, OnEventReturnsInv
<1>8. QED
  BY <1>1, <1>2, <1>3, <1>4, <1>5, <1>6, <1>7 DEF Next

LEMMA InvHolds == Spec => []Inv
BY InitInv, StepInv, PTL DEF Spec

(***************************************************************************)
(* The variables keep their types, and no record of the list is deleted.   *)
(***************************************************************************)
THEOREM TypeCorrect == Spec => []TypeOK
<1>1. Inv => TypeOK
  BY DEF Inv, Types, TypeOK
<1>2. QED
  BY <1>1, InvHolds, PTL

(***************************************************************************)
(* The core hears of a transition before the links can change the event    *)
(* again: what the scheduler is told is still true when it is told.        *)
(***************************************************************************)
THEOREM CoreHearsInTime == Spec => []CoreIsCurrent
<1>1. Inv => CoreIsCurrent
  BY DEF Inv
<1>2. QED
  BY <1>1, InvHolds, PTL

(***************************************************************************)
(* Every dispatch calls its listeners by priority, whatever the listeners  *)
(* do to the list in the meantime.                                         *)
(***************************************************************************)
THEOREM CallsAreByPriority == Spec => []CalledByPriority
<1>1. Inv => CalledByPriority
  <2> SUFFICES ASSUME Inv, NEW k \in DOMAIN stack, stack[k].callee # Nobody,
                      NEW i \in Due(k)
               PROVE  Priority(stack[k].callee) <= Priority(stack[k].copy[i].who)
    BY DEF CalledByPriority
  <2> DEFINE f == stack[k]
  <2>1. f \in FrameSet
    BY SeqDomain DEF Inv, Types
  <2>2. f.at - 1 \in DOMAIN f.copy /\ f.copy[f.at - 1].who = f.callee
    BY DEF Inv, CalleeIsPassed
  <2>3. i \in DOMAIN f.copy /\ f.at - 1 < i
    BY <2>1, SeqDomain DEF Due, FrameSet
  <2>4. QED
    BY <2>2, <2>3 DEF Inv, AllSorted, Sorted
<1>2. QED
  BY <1>1, InvHolds, PTL

-----------------------------------------------------------------------------
(***************************************************************************)
(* The second part of the invariant, about who is in the list.  The list   *)
(* holds no two records for one listener, nor two of one id; those enabled *)
(* are those of the listeners that are registered; and a record in a copy  *)
(* that is no longer in the list was deleted.                              *)
(***************************************************************************)
Apart ==
    /\ \A i, j \in DOMAIN records : records[i] = records[j] => i = j
    /\ \A r, s \in Elements(records) : r.who = s.who \/ r.id = s.id => r = s

EnabledAreRegistered ==
    \A r \in Elements(records) : r.id \in enabled <=> r.who \in registered

EachHasARecord == \A l \in registered : RecordsOf(l) # {}

CopiesAreKnown ==
    \A k \in DOMAIN stack : \A r \in Elements(stack[k].copy) :
        r.id \in freed \/ r \in Elements(records)

Listed == Apart /\ EnabledAreRegistered /\ EachHasARecord /\ CopiesAreKnown

LEMMA EnumerationIsInjective ==
  ASSUME NEW S, IsFiniteSet(S), NEW s \in [1..Cardinality(S) -> S], Elements(s) = S
  PROVE  \A i, j \in DOMAIN s : s[i] = s[j] => i = j
<1>1. /\ Cardinality(S) \in Nat /\ DOMAIN s = 1..Cardinality(S)
      /\ IsFiniteSet(1..Cardinality(S)) /\ Cardinality(1..Cardinality(S)) = Cardinality(S)
  BY FS_CardinalityType, FS_Interval
<1>2. s \in Surjection(1..Cardinality(S), S)
  BY <1>1 DEF Surjection, Elements
<1>3. s \in Injection(1..Cardinality(S), S)
  BY <1>1, <1>2, FS_Surjection
<1>4. QED
  BY <1>1, <1>3 DEF Injection, IsInjective

LEMMA InitListed == Init => Listed
<1> SUFFICES ASSUME Init PROVE Listed
  OBVIOUS
<1>1. DOMAIN records = {} /\ DOMAIN stack = {} /\ registered = {}
  BY EmptyIsSeq, SeqDomain DEF Init
<1>2. QED
  BY <1>1 DEF Listed, Apart, EnabledAreRegistered, EachHasARecord, CopiesAreKnown, Elements

LEMMA AddListenerListed ==
  ASSUME Inv, Listed, NEW l \in Listeners, AddListener(l)
  PROVE  Listed'
<1>1. UNCHANGED <<freed, stack>> /\ registered' = registered \cup {l}
  BY DEF AddListener
<1>2. ASSUME NEW r \in RecordsOf(l), enabled' = enabled \cup {r.id}, records' = records
      PROVE  Listed'
  <2>1. r \in Elements(records) /\ r.who = l
    BY DEF RecordsOf
  <2>2. \A s \in Elements(records) : (s.id = r.id <=> s.who = l)
    BY <2>1 DEF Listed, Apart
  <2>3. Apart' /\ CopiesAreKnown'
    BY <1>1, <1>2 DEF Listed, Apart, CopiesAreKnown
  <2>4. EnabledAreRegistered'
    BY <1>1, <1>2, <2>2 DEF Listed, EnabledAreRegistered
  <2>5. EachHasARecord'
    BY <1>1, <1>2, <2>1 DEF Listed, EachHasARecord, RecordsOf
  <2>6. QED
    BY <2>3, <2>4, <2>5 DEF Listed
<1>3. CASE /\ RecordsOf(l) = {}
           /\ records' \in Arrangements(Elements(records) \cup {[id |-> nextId, who |-> l]})
           /\ enabled' = enabled \cup {nextId}
  <2> DEFINE r == [id |-> nextId, who |-> l]
             S == Elements(records) \cup {r}
  <2>1. r \in RecordSet /\ r.id = nextId /\ r.who = l
    BY DEF Inv, Types, RecordSet
  <2>2. IsFiniteSet(S)
    BY ElementsFinite, FS_AddElement DEF Inv, Types
  <2>3. records' \in [1..Cardinality(S) -> S] /\ Elements(records') = S
    BY <1>3 DEF Arrangements
  <2>4. \A i, j \in DOMAIN records' : records'[i] = records'[j] => i = j
    BY <2>2, <2>3, EnumerationIsInjective
  <2>5. \A s \in Elements(records) : s.who # l /\ s.id # nextId /\ s.id \in Nat
    <3> SUFFICES ASSUME NEW s \in Elements(records)
                 PROVE  s.who # l /\ s.id # nextId /\ s.id \in Nat
      OBVIOUS
    <3>1. s.id \in Ids(records)
      BY DEF Ids, Elements
    <3>2. s \in RecordSet
      BY ElementsFinite DEF Inv, Types
    <3>3. s.id < nextId /\ s.id \in Nat /\ nextId \in Nat
      BY <3>1, <3>2 DEF Inv, IdsAreOld, Types, RecordSet
    <3>4. s.who # l
      BY <1>3 DEF RecordsOf
    <3>5. QED
      BY <3>3, <3>4
  <2> HIDE DEF r
  <2>6. Apart'
    BY <2>1, <2>3, <2>4, <2>5 DEF Listed, Apart
  <2>7. EnabledAreRegistered'
    BY <1>1, <1>3, <2>1, <2>3, <2>5 DEF Listed, EnabledAreRegistered
  <2>8. EachHasARecord'
    BY <1>1, <2>1, <2>3 DEF Listed, EachHasARecord, RecordsOf
  <2>9. CopiesAreKnown'
    BY <1>1, <2>3 DEF Listed, CopiesAreKnown
  <2>10. QED
    BY <2>6, <2>7, <2>8, <2>9 DEF Listed
<1>4. QED
  BY <1>2, <1>3 DEF AddListener

LEMMA DelListenerListed ==
  ASSUME Inv, Listed, NEW l \in Listeners, DelListener(l)
  PROVE  Listed'
<1>1. /\ UNCHANGED <<records, freed, stack>> /\ registered' = registered \ {l}
      /\ enabled' = enabled \ {r.id : r \in RecordsOf(l)}
  BY DEF DelListener
<1>2. \A r \in Elements(records) :
          r.id \in {s.id : s \in RecordsOf(l)} <=> r.who = l
  BY DEF Listed, Apart, RecordsOf
<1>3. Apart' /\ CopiesAreKnown'
  BY <1>1 DEF Listed, Apart, CopiesAreKnown
<1>4. EnabledAreRegistered'
  BY <1>1, <1>2 DEF Listed, EnabledAreRegistered
<1>5. EachHasARecord'
  BY <1>1 DEF Listed, EachHasARecord, RecordsOf
<1>6. QED
  BY <1>3, <1>4, <1>5 DEF Listed

(***************************************************************************)
(* A step that leaves the list alone; it may open a dispatch, whose copy   *)
(* is the list.                                                            *)
(***************************************************************************)
LEMMA ListKeptListed ==
  ASSUME Listed, UNCHANGED <<records, enabled, freed, registered>>,
         \A k \in DOMAIN stack' :
             \/ stack'[k].copy = records
             \/ k \in DOMAIN stack /\ stack'[k].copy = stack[k].copy
  PROVE  Listed'
<1>1. Apart' /\ EnabledAreRegistered' /\ EachHasARecord'
  BY DEF Listed, Apart, EnabledAreRegistered, EachHasARecord, RecordsOf
<1>2. CopiesAreKnown'
  BY DEF Listed, CopiesAreKnown
<1>3. QED
  BY <1>1, <1>2 DEF Listed

LEMMA ChangeStateListed ==
  ASSUME Inv, Listed, NEW tr \in Transitions, ChangeState(tr)
  PROVE  Listed'
<1>1. /\ stack' = Append(stack, Frame(tr)) /\ Frame(tr).copy = records
      /\ UNCHANGED <<records, enabled, freed, registered>>
  BY DEF ChangeState, listVars, Frame
<1>2. Frame(tr) \in FrameSet
  BY DEF Frame, FrameSet, Inv, Types
<1>3. /\ DOMAIN stack = 1..Len(stack) /\ Len(stack) \in Nat
      /\ DOMAIN stack' = 1..(Len(stack) + 1)
      /\ \A k \in 1..Len(stack) : stack'[k] = stack[k]
      /\ stack'[Len(stack) + 1] = Frame(tr)
  BY <1>1, <1>2, SeqDomain, AppendProperties DEF Inv, Types
<1>4. QED
  BY <1>1, <1>3, ListKeptListed

LEMMA InnermostListed ==
  ASSUME Inv, Listed, CallOrSkip \/ ListenerReturns
  PROVE  Listed'
<1>1. UNCHANGED <<records, enabled, freed, registered>>
  BY DEF CallOrSkip, ListenerReturns, listVars
<1>2. /\ stack \in [DOMAIN stack -> FrameSet]
      /\ \A k \in DOMAIN stack : stack[k] \in FrameSet
  BY SeqDomain DEF Inv, Types
<1> DEFINE Same == /\ DOMAIN stack' = DOMAIN stack
                   /\ \A k \in DOMAIN stack : stack'[k].copy = stack[k].copy
<1>3. CASE CallOrSkip
  <2>1. PICK c : stack' = [stack EXCEPT ![Depth].at = @ + 1, ![Depth].callee = c]
    BY <1>3 DEF CallOrSkip
  <2>2. Same
    BY <1>2, <2>1 DEF FrameSet
  <2>3. QED
    BY <1>1, <2>2, ListKeptListed
<1>4. CASE ListenerReturns
  <2>1. stack' = [stack EXCEPT ![Depth].callee = Nobody]
    BY <1>4 DEF ListenerReturns
  <2>2. Same
    BY <1>2, <2>1 DEF FrameSet
  <2>3. QED
    BY <1>1, <2>2, ListKeptListed
<1>5. QED
  BY <1>3, <1>4

(***************************************************************************)
(* The end of a dispatch: what it takes off the list it deletes.           *)
(***************************************************************************)
LEMMA OnEventReturnsListed ==
  ASSUME Inv, Listed, OnEventReturns
  PROVE  Listed'
<1> DEFINE kept == {r \in Elements(records) : r.id \in enabled}
<1>1. /\ stack # <<>> /\ records' \in Cleanup /\ UNCHANGED <<enabled, registered>>
      /\ freed' = freed \cup {id \in Ids(records) : id \notin enabled}
      /\ stack' = SubSeq(stack, 1, Len(stack) - 1)
  BY DEF OnEventReturns, InLoop, Free, Depth
<1>2. IsFiniteSet(kept)
  BY ElementsFinite, FS_Subset DEF Inv, Types
<1>3. records' \in [1..Cardinality(kept) -> kept] /\ Elements(records') = kept
  BY <1>1 DEF Cleanup
<1>4. \A i, j \in DOMAIN records' : records'[i] = records'[j] => i = j
  BY <1>2, <1>3, EnumerationIsInjective
<1>5. Apart'
  BY <1>3, <1>4 DEF Listed, Apart
<1>6. EnabledAreRegistered'
  BY <1>1, <1>3 DEF Listed, EnabledAreRegistered
<1>7. EachHasARecord'
  BY <1>1, <1>3 DEF Listed, EachHasARecord, EnabledAreRegistered, RecordsOf
<1>8. \A k \in DOMAIN stack' : k \in DOMAIN stack /\ stack'[k] = stack[k]
  <2>1. /\ Len(stack) \in Nat \ {0} /\ DOMAIN stack = 1..Len(stack)
        /\ \A k \in 1..Len(stack) : stack[k] \in FrameSet
    BY <1>1, SeqDomain, EmptySeq DEF Inv, Types
  <2>2. \A i \in 1..(Len(stack) - 1) : stack[i] \in FrameSet
    BY <2>1
  <2>3. /\ stack' \in Seq(FrameSet) /\ Len(stack') = Len(stack) - 1
        /\ \A k \in 1..(Len(stack) - 1) : stack'[k] = stack[1 + k - 1]
    BY <1>1, <2>1, <2>2, SubSeqProperties
  <2>4. QED
    BY <2>1, <2>3, SeqDomain
<1>9. \A r \in Elements(records) : r \in kept \/ r.id \in freed'
  BY <1>1 DEF Ids, Elements
<1>10. CopiesAreKnown'
  BY <1>1, <1>3, <1>8, <1>9 DEF Listed, CopiesAreKnown
<1>11. QED
  BY <1>5, <1>6, <1>7, <1>10 DEF Listed

LEMMA StepListed == Inv /\ Listed /\ [Next]_vars => Listed'
<1> SUFFICES ASSUME Inv, Listed, [Next]_vars PROVE Listed'
  OBVIOUS
<1>1. CASE UNCHANGED vars
  BY <1>1, ListKeptListed DEF vars
<1>2. CASE \E l \in Listeners : AddListener(l) \/ DelListener(l)
  BY <1>2, AddListenerListed, DelListenerListed
<1>3. CASE \E tr \in Transitions : ChangeState(tr)
  BY <1>3, ChangeStateListed
<1>4. CASE SetCurrentState \/ Prepare
  BY <1>4, ListKeptListed DEF SetCurrentState, Prepare, listVars
<1>5. CASE CallOrSkip \/ ListenerReturns
  BY <1>5, InnermostListed
<1>6. CASE OnEventReturns
  BY <1>6, OnEventReturnsListed
<1>7. QED
  BY <1>1, <1>2, <1>3, <1>4, <1>5, <1>6 DEF Next

LEMMA ListedHolds == Spec => []Listed
BY InitListed, StepListed, InvHolds, PTL DEF Spec

(***************************************************************************)
(* addListener(), delListener() and the cleanup keep one record for each of*)
(* those who listen, whichever dispatches are under way.                   *)
(***************************************************************************)
THEOREM OneRecordEach == Spec => []RegisteredOnce
<1>1. Listed => RegisteredOnce
  <2> SUFFICES ASSUME Listed, NEW l \in registered
               PROVE  Cardinality({i \in DOMAIN records : records[i].who = l}) = 1
    BY DEF RegisteredOnce
  <2>1. PICK i \in DOMAIN records : records[i].who = l
    BY DEF Listed, EachHasARecord, RecordsOf, Elements
  <2>2. \A j \in DOMAIN records : records[j].who = l => j = i
    BY <2>1 DEF Listed, Apart, Elements
  <2>3. {j \in DOMAIN records : records[j].who = l} = {i}
    BY <2>1, <2>2
  <2>4. QED
    BY <2>3, FS_Singleton
<1>2. QED
  BY <1>1, ListedHolds, PTL

(***************************************************************************)
(* onEvent(): who has left is not called any more, unless the record that  *)
(* is read was deleted.                                                    *)
(***************************************************************************)
THEOREM NobodyIsCalledLate == Spec => OnlyRegisteredCalled
<1> DEFINE InTime == \A l \in Listeners :
                        (CallOrSkip /\ stack'[Depth].callee = l /\ ~dangling') => l \in registered
<1>1. ASSUME Inv, Listed, [Next]_vars
      PROVE  InTime
  <2> SUFFICES ASSUME NEW l \in Listeners, CallOrSkip, stack'[Depth].callee = l, ~dangling'
               PROVE  l \in registered
    OBVIOUS
  <2>1. PICK called \in BOOLEAN :
            /\ called => WouldCall
            /\ stack' = [stack EXCEPT ![Depth].at = @ + 1,
                                      ![Depth].callee = IF called THEN Record.who ELSE Nobody]
    BY DEF CallOrSkip
  <2>2. Record.id \notin freed /\ stack # <<>> /\ Top.at <= Len(Top.copy)
    BY DEF CallOrSkip, InLoop, Free
  <2>3. Depth \in DOMAIN stack /\ Top = stack[Depth] /\ Top \in FrameSet
    <3>1. Len(stack) \in Nat \ {0} /\ DOMAIN stack = 1..Len(stack)
      BY <1>1, <2>2, SeqDomain, EmptySeq DEF Inv, Types
    <3>2. QED
      BY <1>1, <3>1, SeqDomain DEF Inv, Types, Depth, Top
  <2>4. Top.at \in DOMAIN Top.copy
    BY <1>1, <2>2, <2>3, SeqDomain DEF FrameSet, Inv, AtIsPositive
  <2>5. stack'[Depth].callee = IF called THEN Record.who ELSE Nobody
    BY <2>1, <2>3 DEF FrameSet
  <2>6. called /\ Record.who = l
    BY <2>5, ListenersAssumption
  <2>7. Record.id \in enabled
    BY <2>1, <2>2, <2>6 DEF WouldCall
  <2>8. Record \in Elements(records)
    <3>1. Record \in Elements(stack[Depth].copy)
      BY <2>3, <2>4 DEF Record, Elements
    <3>2. QED
      BY <1>1, <2>2, <2>3, <3>1 DEF Listed, CopiesAreKnown
  <2>9. QED
    BY <1>1, <2>6, <2>7, <2>8 DEF Listed, EnabledAreRegistered
<1>2. InTime => [InTime]_vars
  OBVIOUS
<1>3. QED
  BY <1>1, InvHolds, ListedHolds, PTL DEF Spec, OnlyRegisteredCalled
-----------------------------------------------------------------------------
(* The conditions of links.                                                *)

ConditionsType ==
    /\ tree \in Trees
    /\ holds \in [Leaves -> BOOLEAN]
    /\ unsatisfied \in [Conjunctions -> SUBSET conditions]
    /\ due \in [conditions -> Nat] /\ timers \in [conditions -> Nat]
    /\ rising \in conditions \cup {None}
    /\ pending \in Nat /\ heard \in [EventTransitions -> Nat]
    /\ action \in Actions /\ waiting \in Nat /\ todo \in Nat
    /\ pendingActions \in Int /\ lost \in Nat
    /\ action.parts = 0 => waiting = 0
    /\ ran \in Nat /\ refused \in BOOLEAN

\* A conjunction always waits for one of its parts.
WaitsForSome == \A n \in Conjunctions : unsatisfied[n] # {} /\ unsatisfied[n] \subseteq Parts(tree, n)

\* The conditions of D, which were satisfied, wait for their delay, are about to tell
\* the condition around them, or have told it.
Passed(n, D) ==
    IF tree[n].up = Link THEN ran > 0
    ELSE \/ tree[n].up \in D
         \/ tree[n].up \in Conjunctions /\ n \notin unsatisfied[tree[n].up]

Progressed(D) == \A n \in D : timers[n] > 0 \/ rising = n \/ Passed(n, D)

ToldAreIn(D) == \A n \in conditions :
    tree[n].kind = "transition" /\ heard[tree[n].on] > 0 /\ due[n] = 0 => n \in D

SatisfiedProgressed == \E D \in SUBSET conditions : Progressed(D) /\ ToldAreIn(D)

ConditionsInv ==
    /\ ConditionsType /\ WaitsForSome
    /\ IsFiniteSet(Delays) /\ PendingIsCounted
    /\ ~refused => SatisfiedProgressed

-----------------------------------------------------------------------------

LEMMA DelayMore ==
    ASSUME NEW n \in conditions, timers \in [conditions -> Nat], IsFiniteSet(Delays),
           timers' = [timers EXCEPT ![n] = @ + 1], tree' = tree
    PROVE  IsFiniteSet(Delays') /\ Cardinality(Delays') = Cardinality(Delays) + 1
<1>1. Delays' = Delays \cup {<<n, timers[n] + 1>>}
  BY DEF Delays, Units, conditions
<1>2. <<n, timers[n] + 1>> \notin Delays
  BY DEF Delays, Units, conditions
<1> QED
  BY <1>1, <1>2, FS_AddElement

LEMMA DelayLess ==
    ASSUME NEW n \in conditions, timers \in [conditions -> Nat], IsFiniteSet(Delays), timers[n] > 0,
           timers' = [timers EXCEPT ![n] = @ - 1], tree' = tree
    PROVE  IsFiniteSet(Delays') /\ Cardinality(Delays') = Cardinality(Delays) - 1
<1>1. Delays' = Delays \ {<<n, timers[n]>>}
  BY DEF Delays, Units, conditions
<1>2. <<n, timers[n]>> \in Delays
  BY DEF Delays, Units, conditions
<1> QED
  BY <1>1, <1>2, FS_RemoveElement

LEMMA DelaysKept ==
    ASSUME UNCHANGED <<tree, timers>> PROVE Delays' = Delays
BY DEF Delays, Units, conditions

\* The runs of the action are natural numbers, and change with what it counts only.
LEMMA RunningType ==
    ASSUME ConditionsType PROVE RunsToReport \in Nat /\ lost \in Nat
BY DEF ConditionsType, RunsToReport

LEMMA RunningKept ==
    ASSUME UNCHANGED actionVars
    PROVE  /\ RunsToReport' = RunsToReport
           /\ UNCHANGED <<action, waiting, todo, pendingActions, lost>>
BY DEF actionVars, RunsToReport, IsSimple

\* A condition that is satisfied adds one to what is under way, whether it has a delay.
LEMMA SatisfiedCounts ==
    ASSUME NEW n \in conditions, ConditionsType, IsFiniteSet(Delays), Satisfied(n), tree' = tree
    PROVE  /\ timers' \in [conditions -> Nat] /\ rising' \in conditions \cup {None}
           /\ IsFiniteSet(Delays')
           /\ Cardinality(Delays') + (IF Still' THEN 0 ELSE 1) = Cardinality(Delays) + 1
           /\ timers'[n] > 0 \/ rising' = n
           /\ \A m \in conditions : timers[m] > 0 => timers'[m] > 0
<1>1. Cardinality(Delays) \in Nat
  BY FS_CardinalityType
<1>2. None \notin conditions
  BY ConditionsAssumption DEF ConditionsType, conditions
<1>3. CASE tree[n].delay
  <2>1. timers' = [timers EXCEPT ![n] = @ + 1] /\ rising' = None
    BY <1>3 DEF Satisfied
  <2>2. timers' \in [conditions -> Nat] /\ timers'[n] > 0
        /\ \A m \in conditions : timers[m] > 0 => timers'[m] > 0
    BY <2>1 DEF ConditionsType
  <2>3. IsFiniteSet(Delays') /\ Cardinality(Delays') = Cardinality(Delays) + 1
    BY <2>1, DelayMore DEF ConditionsType
  <2>4. Still'
    BY <2>1 DEF Still
  <2> QED
    BY <1>1, <2>1, <2>2, <2>3, <2>4
<1>4. CASE ~tree[n].delay
  <2>1. rising' = n /\ timers' = timers
    BY <1>4 DEF Satisfied
  <2>2. Delays' = Delays
    BY <2>1, DelaysKept
  <2>3. ~Still'
    BY <1>2, <2>1 DEF Still
  <2> QED
    BY <1>1, <2>1, <2>2, <2>3 DEF ConditionsType
<1> QED
  BY <1>3, <1>4

-----------------------------------------------------------------------------

LEMMA TreeIsCondition ==
    ASSUME ConditionsType
    PROVE  /\ None \notin conditions /\ Link \notin conditions
           /\ \A n \in conditions : /\ tree[n].kind \in Kinds
                                    /\ tree[n].up # Link => tree[n].up \in conditions
                                    /\ tree[n].kind # "transition" => Parts(tree, n) # {}
           /\ Root \in conditions /\ tree[Root].up = Link
<1>1. tree \in Trees /\ IsCondition(tree) /\ None \notin conditions /\ Link \notin conditions
  BY ConditionsAssumption DEF ConditionsType, conditions
<1>2. Parts(tree, Link) # {}
  <2>1. Cardinality(Parts(tree, Link)) = 1
    BY <1>1 DEF IsCondition
  <2> QED
    BY <2>1, FS_EmptySet
<1>3. \E n \in conditions : tree[n].up = Link
  BY <1>2 DEF Parts, conditions
<1> QED
  BY <1>1, <1>3 DEF IsCondition, conditions, Root

LEMMA DefsKept ==
    ASSUME tree' = tree
    PROVE  /\ conditions' = conditions /\ Conjunctions' = Conjunctions
           /\ \A n : Parts(tree, n)' = Parts(tree, n)
BY DEF conditions, Conjunctions, Parts

LEMMA ConditionsInitInv == ConditionsInit => ConditionsInv
<1> SUFFICES ASSUME ConditionsInit PROVE ConditionsInv
  OBVIOUS
<1>1. ConditionsType
  <2>1. /\ tree \in Trees /\ holds \in [Leaves -> BOOLEAN]
        /\ unsatisfied \in [Conjunctions -> SUBSET conditions]
        /\ due \in [conditions -> Nat] /\ timers \in [conditions -> Nat]
        /\ rising \in conditions \cup {None} /\ heard \in [EventTransitions -> Nat]
    BY DEF ConditionsInit, conditions, Conjunctions, Parts
  <2>2. /\ pending \in Nat /\ waiting = 0 /\ todo \in Nat /\ lost \in Nat /\ ran \in Nat
    BY DEF ConditionsInit
  <2>3. action \in Actions /\ refused \in BOOLEAN
    BY DEF ConditionsInit
  <2>4. pendingActions \in Int
    BY DEF ConditionsInit
  <2> QED
    BY <2>1, <2>2, <2>3, <2>4 DEF ConditionsType
<1>2. WaitsForSome
  BY <1>1, TreeIsCondition DEF ConditionsInit, WaitsForSome, Conjunctions, Kinds
<1>3. Delays = {}
  BY DEF ConditionsInit, Delays, Units
<1>4. IsFiniteSet(Delays) /\ Cardinality(Delays) = 0
  BY <1>3, FS_EmptySet
<1>5. PendingIsCounted
  <2>1. rising = None /\ pending = 0 /\ lost = 0 /\ RunsToReport = 0
    BY DEF ConditionsInit, RunsToReport
  <2> QED
    BY <1>4, <2>1 DEF PendingIsCounted, Still
<1>6. SatisfiedProgressed
  <2>1. Progressed({})
    BY DEF Progressed
  <2>2. ToldAreIn({})
    BY <1>1, ConditionsAssumption DEF ToldAreIn, ConditionsInit, ConditionsType, IsCondition, conditions
  <2> QED
    BY <2>1, <2>2 DEF SatisfiedProgressed
<1> QED
  BY <1>1, <1>2, <1>4, <1>5, <1>6 DEF ConditionsInv

\* The conjunctions wait as they did, unless a part of one of them is satisfied.
LEMMA WaitsKept ==
    ASSUME WaitsForSome, UNCHANGED <<tree, unsatisfied>> PROVE WaitsForSome'
BY DefsKept DEF WaitsForSome

LEMMA HappenInv ==
    ASSUME ConditionsInv, NEW t \in EventTransitions, Happen(t) PROVE ConditionsInv'
<1> USE DEF ConditionsInv
<1>1. /\ UNCHANGED <<tree, holds, unsatisfied, timers, rising, pending, ran, refused, actionVars>>
      /\ UNCHANGED <<action, waiting, todo, pendingActions, lost>> /\ RunsToReport' = RunsToReport
  BY RunningKept DEF Happen
<1>2. ConditionsType'
  BY <1>1, DefsKept DEF ConditionsType, Happen
<1>3. WaitsForSome'
  BY <1>1, WaitsKept
<1>4. Delays' = Delays /\ PendingIsCounted'
  BY <1>1, DelaysKept DEF PendingIsCounted, Still
<1>5. ASSUME ~refused' PROVE SatisfiedProgressed'
  <2>1. PICK D \in SUBSET conditions : Progressed(D) /\ ToldAreIn(D)
    BY <1>1, <1>5 DEF SatisfiedProgressed
  <2>2. Progressed(D)'
    BY <1>1, <2>1, DefsKept DEF Progressed, Passed
  <2>3. ToldAreIn(D)'
    <3> SUFFICES ASSUME NEW n \in conditions, tree[n].kind = "transition", heard'[tree[n].on] > 0, due'[n] = 0
                 PROVE  n \in D
      BY <1>1, DefsKept DEF ToldAreIn
    <3>1. tree[n].on \in EventTransitions
      BY ConditionsAssumption DEF ConditionsType, IsCondition, conditions
    <3>2. due'[n] = due[n] + (IF n \in Listening(t) THEN 1 ELSE 0) /\ due[n] \in Nat
      BY DEF Happen, ConditionsType
    <3>3. n \notin Listening(t) /\ due[n] = 0
      BY <3>2
    <3>4. tree[n].on # t
      BY <3>3 DEF Listening
    <3>5. heard[tree[n].on] > 0
      BY <3>1, <3>4 DEF Happen, ConditionsType
    <3> QED
      BY <2>1, <3>3, <3>5 DEF ToldAreIn
  <2> QED
    BY <1>1, <2>2, <2>3, DefsKept DEF SatisfiedProgressed
<1> QED
  BY <1>2, <1>3, <1>4, <1>5

LEMMA TellInv == ASSUME ConditionsInv, NEW n \in conditions, Tell(n) PROVE ConditionsInv'
<1> USE DEF ConditionsInv
<1>1. /\ UNCHANGED <<tree, holds, unsatisfied, heard, ran, refused>> /\ Satisfied(n) /\ Still
      /\ pending' = pending + 1 /\ due' = [due EXCEPT ![n] = @ - 1] /\ due[n] > 0
      /\ UNCHANGED <<action, waiting, todo, pendingActions, lost>> /\ RunsToReport' = RunsToReport
  BY RunningKept DEF Tell, EvaluationStarted
<1>2. /\ timers' \in [conditions -> Nat] /\ rising' \in conditions \cup {None}
      /\ IsFiniteSet(Delays')
      /\ Cardinality(Delays') + (IF Still' THEN 0 ELSE 1) = Cardinality(Delays) + 1
      /\ timers'[n] > 0 \/ rising' = n
      /\ \A m \in conditions : timers[m] > 0 => timers'[m] > 0
  BY <1>1, SatisfiedCounts
<1>3. ConditionsType'
  <2>1. conditions' = conditions /\ Conjunctions' = Conjunctions
    BY <1>1, DefsKept
  <2>2. due' \in [conditions -> Nat] /\ pending' \in Nat
    BY <1>1 DEF ConditionsType
  <2> QED
    BY <1>1, <1>2, <2>1, <2>2 DEF ConditionsType
<1>4. WaitsForSome'
  BY <1>1, WaitsKept
<1>5. PendingIsCounted'
  <2>1. Cardinality(Delays) \in Nat /\ Cardinality(Delays') \in Nat /\ RunsToReport \in Nat /\ lost \in Nat
    BY <1>2, FS_CardinalityType, RunningType
  <2> QED
    BY <1>1, <1>2, <2>1 DEF PendingIsCounted
<1>6. ASSUME ~refused' PROVE SatisfiedProgressed'
  <2>1. PICK D \in SUBSET conditions : Progressed(D) /\ ToldAreIn(D)
    BY <1>1, <1>6 DEF SatisfiedProgressed
  <2> DEFINE E == D \cup {n}
  <2>2. Progressed(E)'
    <3> SUFFICES ASSUME NEW m \in E PROVE timers'[m] > 0 \/ rising' = m \/ Passed(m, E)'
      BY <1>1 DEF Progressed
    <3>1. CASE m = n
      BY <1>2, <3>1
    <3>2. CASE m \in D
      <4>1. None \notin conditions
        BY TreeIsCondition
      <4>2. timers[m] > 0 \/ Passed(m, D)
        BY <1>1, <2>1, <3>2, <4>1 DEF Progressed, Still
      <4> QED
        BY <1>1, <1>2, <4>2, <3>2, DefsKept DEF Passed
    <3> QED
      BY <3>1, <3>2
  <2>3. ToldAreIn(E)'
    BY <1>1, <2>1, DefsKept DEF ToldAreIn, ConditionsType
  <2> QED
    BY <1>1, <2>2, <2>3, DefsKept DEF SatisfiedProgressed
<1> QED
  BY <1>2, <1>3, <1>4, <1>5, <1>6

\* What the steps that leave the transitions alone do to the conditions that progressed.
LEMMA ToldKept ==
    ASSUME NEW D, NEW E, ToldAreIn(D), D \subseteq E, UNCHANGED <<tree, due, heard>>
    PROVE  ToldAreIn(E)'
BY DefsKept DEF ToldAreIn

LEMMA ExpireInv == ASSUME ConditionsInv, NEW n \in conditions, Expire(n) PROVE ConditionsInv'
<1> USE DEF ConditionsInv
<1>1. /\ UNCHANGED <<tree, holds, unsatisfied, due, pending, heard, ran, refused>>
      /\ Still /\ timers[n] > 0 /\ timers' = [timers EXCEPT ![n] = @ - 1] /\ rising' = n
      /\ UNCHANGED <<action, waiting, todo, pendingActions, lost>> /\ RunsToReport' = RunsToReport
  BY RunningKept DEF Expire
<1>2. IsFiniteSet(Delays') /\ Cardinality(Delays') = Cardinality(Delays) - 1
  BY <1>1, DelayLess DEF ConditionsType
<1>3. ConditionsType'
  <2>1. timers' \in [conditions -> Nat]
    BY <1>1 DEF ConditionsType
  <2> QED
    BY <1>1, <2>1, DefsKept DEF ConditionsType
<1>4. WaitsForSome'
  BY <1>1, WaitsKept
<1>5. PendingIsCounted'
  <2>1. ~Still'
    BY <1>1, TreeIsCondition DEF Still
  <2>2. Cardinality(Delays) \in Nat /\ RunsToReport \in Nat /\ lost \in Nat
    BY FS_CardinalityType, RunningType
  <2> QED
    BY <1>1, <1>2, <2>1, <2>2 DEF PendingIsCounted
<1>6. ASSUME ~refused' PROVE SatisfiedProgressed'
  <2>1. PICK D \in SUBSET conditions : Progressed(D) /\ ToldAreIn(D)
    BY <1>1, <1>6 DEF SatisfiedProgressed
  <2>2. Progressed(D)'
    <3> SUFFICES ASSUME NEW m \in D PROVE timers'[m] > 0 \/ rising' = m \/ Passed(m, D)'
      BY DEF Progressed
    <3>1. CASE m = n
      BY <1>1, <3>1
    <3>2. CASE m # n
      <4>1. timers[m] > 0 \/ Passed(m, D)
        BY <1>1, <2>1, TreeIsCondition DEF Progressed, Still
      <4> QED
        BY <1>1, <4>1, <3>2, DefsKept DEF Passed, ConditionsType
    <3> QED
      BY <3>1, <3>2
  <2> QED
    BY <1>1, <2>1, <2>2, ToldKept, DefsKept DEF SatisfiedProgressed
<1> QED
  BY <1>2, <1>3, <1>4, <1>5, <1>6

LEMMA RiseInOrInv == ASSUME ConditionsInv, RiseInOr PROVE ConditionsInv'
<1> USE DEF ConditionsInv
<1> PICK n : n = tree[rising].up
  OBVIOUS
<1>1. /\ UNCHANGED <<tree, holds, unsatisfied, due, pending, heard, ran, refused>>
      /\ ~Still /\ tree[rising].up = n /\ n # Link /\ Satisfied(n)
      /\ UNCHANGED <<action, waiting, todo, pendingActions, lost>> /\ RunsToReport' = RunsToReport
  BY RunningKept DEF RiseInOr
<1>2. rising \in conditions /\ n \in conditions
  BY <1>1, TreeIsCondition DEF ConditionsType, Still
<1>3. /\ timers' \in [conditions -> Nat] /\ rising' \in conditions \cup {None}
      /\ IsFiniteSet(Delays')
      /\ Cardinality(Delays') + (IF Still' THEN 0 ELSE 1) = Cardinality(Delays) + 1
      /\ timers'[n] > 0 \/ rising' = n
      /\ \A m \in conditions : timers[m] > 0 => timers'[m] > 0
  BY <1>1, <1>2, SatisfiedCounts
<1>4. ConditionsType'
  BY <1>1, <1>3, DefsKept DEF ConditionsType
<1>5. WaitsForSome'
  BY <1>1, WaitsKept
<1>6. PendingIsCounted'
  <2>1. Cardinality(Delays) \in Nat /\ Cardinality(Delays') \in Nat /\ RunsToReport \in Nat /\ lost \in Nat
    BY <1>3, FS_CardinalityType, RunningType
  <2> QED
    BY <1>1, <1>3, <2>1 DEF PendingIsCounted
<1>7. ASSUME ~refused' PROVE SatisfiedProgressed'
  <2>1. PICK D \in SUBSET conditions : Progressed(D) /\ ToldAreIn(D)
    BY <1>1, <1>7 DEF SatisfiedProgressed
  <2> DEFINE E == D \cup {n}
  <2>2. Progressed(E)'
    <3> SUFFICES ASSUME NEW m \in E PROVE timers'[m] > 0 \/ rising' = m \/ Passed(m, E)'
      BY <1>1 DEF Progressed
    <3>1. CASE m = n
      BY <1>3, <3>1
    <3>2. CASE m = rising
      BY <1>1, <1>2, <3>2 DEF Passed
    <3>3. CASE m \in D /\ m # rising
      <4>1. timers[m] > 0 \/ Passed(m, D)
        BY <2>1, <3>3 DEF Progressed
      <4> QED
        BY <1>1, <1>3, <4>1, <3>3, DefsKept DEF Passed
    <3> QED
      BY <3>1, <3>2, <3>3
  <2> QED
    BY <1>1, <1>2, <2>1, <2>2, ToldKept, DefsKept DEF SatisfiedProgressed
<1> QED
  BY <1>3, <1>4, <1>5, <1>6, <1>7

LEMMA RiseInAndInv == ASSUME ConditionsInv, RiseInAnd PROVE ConditionsInv'
<1> USE DEF ConditionsInv
<1> PICK n : n = tree[rising].up
  OBVIOUS
<1>1. /\ UNCHANGED <<tree, holds, due, heard, ran>>
      /\ UNCHANGED <<action, waiting, todo, pendingActions, lost>> /\ RunsToReport' = RunsToReport
      /\ ~Still /\ n \in Conjunctions
      /\ unsatisfied' = [unsatisfied EXCEPT ![n] = WaitsFor(n)]
      /\ \/ /\ Left(n) # {} /\ rising' = None /\ EndsWaiting
            /\ UNCHANGED <<timers, refused>>
         \/ /\ Left(n) = {} /\ Satisfied(n)
            /\ UNCHANGED <<refused, pending>>
         \/ /\ rising' = None /\ refused' = TRUE /\ EvaluationEnded
            /\ UNCHANGED timers
  BY RunningKept DEF RiseInAnd
<1>2. rising \in conditions /\ n \in conditions /\ n # Link
  BY <1>1, TreeIsCondition DEF ConditionsType, Still, Conjunctions
<1>3. tree[rising].up = n
  OBVIOUS
<1>4. /\ Cardinality(Delays) \in Nat /\ RunsToReport \in Nat /\ lost \in Nat
      /\ pending = Cardinality(Delays) + RunsToReport + lost + 1
  BY <1>1, FS_CardinalityType, RunningType DEF PendingIsCounted
<1>5. WaitsFor(n) # {} /\ WaitsFor(n) \subseteq Parts(tree, n) /\ Parts(tree, n) \subseteq conditions
  <2>1. unsatisfied[n] \subseteq Parts(tree, n)
    BY <1>1 DEF WaitsForSome
  <2>2. Parts(tree, n) # {}
    BY <1>1, <1>2, TreeIsCondition DEF Conjunctions
  <2>3. Parts(tree, n) \subseteq conditions
    BY DEF Parts, conditions
  <2> QED
    BY <2>1, <2>2, <2>3 DEF WaitsFor, Left
<1>6. unsatisfied' \in [Conjunctions' -> SUBSET conditions'] /\ WaitsForSome'
  BY <1>1, <1>5, DefsKept DEF WaitsForSome, ConditionsType
<1>7. CASE rising' = None /\ (EvaluationEnded \/ EndsWaiting) /\ UNCHANGED timers
           /\ refused' \in BOOLEAN /\ (refused' \/ (UNCHANGED refused /\ Left(n) # {}))
  <2>1. pending' = pending - 1 /\ pending' \in Nat
    BY <1>4, <1>7 DEF EvaluationEnded, EndsWaiting
  <2>2. Delays' = Delays /\ Still'
    BY <1>1, <1>7, DelaysKept DEF Still
  <2>3. PendingIsCounted' /\ IsFiniteSet(Delays')
    BY <1>1, <1>4, <2>1, <2>2 DEF PendingIsCounted
  <2>4. ConditionsType'
    BY <1>1, <1>6, <1>7, <2>1, DefsKept DEF ConditionsType
  <2>5. ASSUME ~refused' PROVE SatisfiedProgressed'
    <3>1. PICK D \in SUBSET conditions : Progressed(D) /\ ToldAreIn(D)
      BY <1>7, <2>5 DEF SatisfiedProgressed
    <3>2. unsatisfied'[n] = unsatisfied[n] \ {rising}
          /\ \A m \in Conjunctions : m # n => unsatisfied'[m] = unsatisfied[m]
      BY <1>1, <1>7, <2>5 DEF WaitsFor, Left, ConditionsType
    <3>3. Progressed(D)'
      <4> SUFFICES ASSUME NEW m \in D PROVE timers'[m] > 0 \/ rising' = m \/ Passed(m, D)'
        BY DEF Progressed
      <4>1. CASE m = rising
        BY <1>1, <1>2, <1>3, <3>2, <4>1, DefsKept DEF Passed
      <4>2. CASE m # rising
        <5>1. timers[m] > 0 \/ Passed(m, D)
          BY <3>1, <4>2 DEF Progressed
        <5>2. Passed(m, D) => Passed(m, D)'
          BY <1>1, <3>2, DefsKept DEF Passed
        <5> QED
          BY <1>7, <5>1, <5>2
      <4> QED
        BY <4>1, <4>2
    <3> QED
      BY <1>1, <3>1, <3>3, ToldKept, DefsKept DEF SatisfiedProgressed
  <2> QED
    BY <1>6, <2>3, <2>4, <2>5
<1>8. CASE Left(n) = {} /\ Satisfied(n) /\ UNCHANGED <<refused, pending>>
  <2>1. /\ timers' \in [conditions -> Nat] /\ rising' \in conditions \cup {None}
        /\ IsFiniteSet(Delays')
        /\ Cardinality(Delays') + (IF Still' THEN 0 ELSE 1) = Cardinality(Delays) + 1
        /\ timers'[n] > 0 \/ rising' = n
        /\ \A m \in conditions : timers[m] > 0 => timers'[m] > 0
    BY <1>1, <1>2, <1>8, SatisfiedCounts
  <2>2. ConditionsType'
    BY <1>1, <1>6, <1>8, <2>1, DefsKept DEF ConditionsType
  <2>3. Cardinality(Delays') \in Nat
    BY <2>1, FS_CardinalityType
  <2>4. PendingIsCounted'
    BY <1>1, <1>4, <1>8, <2>1, <2>3 DEF PendingIsCounted
  <2>5. ASSUME ~refused' PROVE SatisfiedProgressed'
    <3>1. PICK D \in SUBSET conditions : Progressed(D) /\ ToldAreIn(D)
      BY <1>8, <2>5 DEF SatisfiedProgressed
    <3> DEFINE E == D \cup {n}
    <3>2. \A m \in Conjunctions : m # n => unsatisfied'[m] = unsatisfied[m]
      BY <1>1 DEF ConditionsType
    <3>3. Progressed(E)'
      <4> SUFFICES ASSUME NEW m \in E PROVE timers'[m] > 0 \/ rising' = m \/ Passed(m, E)'
        BY <1>1 DEF Progressed
      <4>1. CASE m = n
        BY <2>1, <4>1
      <4>2. CASE m = rising
        BY <1>1, <1>2, <1>3, <4>2 DEF Passed
      <4>3. CASE m \in D /\ m # rising
        <5>1. timers[m] > 0 \/ Passed(m, D)
          BY <3>1, <4>3 DEF Progressed
        <5>2. Passed(m, D) => Passed(m, E)'
          BY <1>1, <3>2, DefsKept DEF Passed
        <5> QED
          BY <2>1, <4>3, <5>1, <5>2
      <4> QED
        BY <4>1, <4>2, <4>3
    <3> QED
      BY <1>1, <1>2, <3>1, <3>3, ToldKept, DefsKept DEF SatisfiedProgressed
  <2> QED
    BY <1>6, <2>1, <2>2, <2>4, <2>5
<1>9. refused' \in BOOLEAN
  BY <1>1 DEF ConditionsType
<1> QED
  BY <1>1, <1>7, <1>8, <1>9

\* A run of a compound action is counted, or takes the place of the one before it, which
\* is lost.
LEMMA OnRunCounts ==
    ASSUME ConditionsType, OnRun, ~IsSimple(action), action' = action
    PROVE  /\ todo' \in Nat /\ pendingActions' \in Nat \ {0} /\ lost' \in Nat
           /\ (IF pendingActions' > 0 THEN 1 ELSE 0) + lost'
                = (IF pendingActions > 0 THEN 1 ELSE 0) + lost + 1
<1>1. action.parts \in Nat \ {0}
  BY ConditionsAssumption DEF ConditionsType, IsAction, IsSimple
<1> QED
  BY <1>1 DEF ConditionsType, OnRun

LEMMA RunActionCounts ==
    ASSUME ConditionsType, RunAction, action' = action
    PROVE  /\ waiting' \in Nat /\ todo' \in Nat /\ pendingActions' \in Int /\ lost' \in Nat
           /\ action.parts = 0 => waiting' = 0
           /\ RunsToReport' \in Nat /\ RunsToReport' + lost' = RunsToReport + lost + 1
<1>1. CASE IsSimple(action)
  BY <1>1 DEF RunAction, ConditionsType, RunsToReport, IsSimple
<1>2. CASE ~IsSimple(action) /\ action.delay
  BY <1>2 DEF RunAction, ConditionsType, RunsToReport, IsSimple
<1>3. CASE ~IsSimple(action) /\ ~action.delay
  <2>1. OnRun /\ waiting' = waiting
    BY <1>3 DEF RunAction
  <2>2. IsSimple(action)' = IsSimple(action)
    BY DEF IsSimple
  <2> QED
    BY <1>3, <2>1, <2>2, OnRunCounts DEF ConditionsType, RunsToReport
<1> QED
  BY <1>1, <1>2, <1>3

LEMMA CountsAsMany ==
    ASSUME NEW c \in Nat, NEW r \in Nat, NEW l \in Nat, NEW u \in Nat, NEW n \in Nat, NEW k \in Nat,
           u + n = r + l + k
    PROVE  c + u + n = c + r + l + k
OBVIOUS

LEMMA RiseInLinkInv == ASSUME ConditionsInv, RiseInLink PROVE ConditionsInv'
<1> USE DEF ConditionsInv
<1>1. /\ UNCHANGED <<tree, holds, unsatisfied, due, timers, pending, heard, refused>>
      /\ ~Still /\ tree[rising].up = Link /\ rising' = None
      /\ ran' = ran + 1 /\ RunAction /\ action' = action
  BY DEF RiseInLink
<1>7. /\ waiting' \in Nat /\ todo' \in Nat /\ pendingActions' \in Int /\ lost' \in Nat
      /\ action.parts = 0 => waiting' = 0
      /\ RunsToReport' \in Nat /\ RunsToReport' + lost' = RunsToReport + lost + 1
  BY <1>1, RunActionCounts
<1>2. ConditionsType' /\ ran' > 0
  BY <1>1, <1>7, DefsKept DEF ConditionsType
<1>3. WaitsForSome'
  BY <1>1, WaitsKept
<1>4. Delays' = Delays
  BY <1>1, DelaysKept
<1>5. PendingIsCounted'
  <2>1. Cardinality(Delays) \in Nat /\ RunsToReport \in Nat /\ lost \in Nat
    BY FS_CardinalityType, RunningType
  <2>2. PICK u \in Nat, n \in Nat : u = RunsToReport' /\ n = lost'
    BY <1>7
  <2>3. u + n = RunsToReport + lost + 1
    BY <1>7, <2>2
  <2>4. Cardinality(Delays) + u + n = Cardinality(Delays) + RunsToReport + lost + 1
    BY <2>1, <2>3, CountsAsMany
  <2>5. pending = Cardinality(Delays) + RunsToReport + lost + 1
    BY <1>1 DEF PendingIsCounted
  <2>6. pending' = Cardinality(Delays)' + RunsToReport' + lost'
    BY <1>1, <1>4, <2>2, <2>4, <2>5
  <2>7. Still' /\ Cardinality(Delays)' \in Nat
    BY <1>1, <1>4, <2>1 DEF Still
  <2> QED
    BY <2>2, <2>6, <2>7 DEF PendingIsCounted
<1>6. ASSUME ~refused' PROVE SatisfiedProgressed'
  <2>1. PICK D \in SUBSET conditions : Progressed(D) /\ ToldAreIn(D)
    BY <1>1, <1>6 DEF SatisfiedProgressed
  <2>2. Progressed(D)'
    <3> SUFFICES ASSUME NEW m \in D PROVE timers'[m] > 0 \/ rising' = m \/ Passed(m, D)'
      BY DEF Progressed
    <3>1. CASE m = rising
      BY <1>1, <1>2, <3>1 DEF Passed
    <3>2. CASE m # rising
      BY <1>1, <1>2, <2>1, <3>2, DefsKept DEF Progressed, Passed
    <3> QED
      BY <3>1, <3>2
  <2> QED
    BY <1>1, <2>1, <2>2, ToldKept, DefsKept DEF SatisfiedProgressed
<1> QED
  BY <1>2, <1>3, <1>4, <1>5, <1>6

LEMMA QuietInv ==
    ASSUME ConditionsInv, ConditionsType', PendingIsCounted',
           UNCHANGED <<tree, unsatisfied, due, timers, rising, heard, ran, refused>>
    PROVE  ConditionsInv'
<1> USE DEF ConditionsInv
<1>1. WaitsForSome' /\ Delays' = Delays
  BY WaitsKept, DelaysKept
<1>2. ASSUME NEW D \in SUBSET conditions, Progressed(D) PROVE Progressed(D)'
  BY <1>2, DefsKept DEF Progressed, Passed
<1>3. SatisfiedProgressed => SatisfiedProgressed'
  BY <1>2, ToldKept, DefsKept DEF SatisfiedProgressed
<1> QED
  BY <1>1, <1>3

LEMMA OneMovesOver ==
    ASSUME NEW w \in Nat, NEW u \in Nat, NEW c \in Nat, NEW d \in Nat, NEW m \in Nat, NEW n \in Nat,
           u = w - 1, d + n = c + m + 1
    PROVE  (u + d) + n = (w + c) + m
OBVIOUS

\* A run that waited for the delay of its compound action is under way, or the one that
\* it takes the place of is lost: nothing is told of it yet.
LEMMA BeginActionInv == ASSUME ConditionsInv, BeginAction PROVE ConditionsInv'
<1> USE DEF ConditionsInv
<1>1. /\ waiting > 0 /\ waiting' = waiting - 1 /\ OnRun
      /\ UNCHANGED <<tree, action, holds, unsatisfied, due, timers, rising, pending, heard, ran, refused>>
  BY DEF BeginAction
<1>2. ~IsSimple(action) /\ ~IsSimple(action)'
  BY <1>1 DEF ConditionsType, IsSimple
<1>3. /\ todo' \in Nat /\ pendingActions' \in Nat \ {0} /\ lost' \in Nat
      /\ (IF pendingActions' > 0 THEN 1 ELSE 0) + lost'
           = (IF pendingActions > 0 THEN 1 ELSE 0) + lost + 1
  BY <1>1, <1>2, OnRunCounts
<1>4. ConditionsType'
  BY <1>1, <1>3, DefsKept DEF ConditionsType
<1>5. /\ RunsToReport \in Nat /\ lost \in Nat /\ RunsToReport' \in Nat
      /\ RunsToReport' + lost' = RunsToReport + lost
  <2>1. PICK c \in Nat : c = IF pendingActions > 0 THEN 1 ELSE 0
    OBVIOUS
  <2>2. PICK d \in Nat : d = IF pendingActions' > 0 THEN 1 ELSE 0
    OBVIOUS
  <2>3. RunsToReport = waiting + c /\ RunsToReport' = waiting' + d
    BY <1>2, <2>1, <2>2 DEF RunsToReport
  <2>4. waiting \in Nat /\ waiting' \in Nat /\ lost \in Nat /\ waiting' = waiting - 1
    BY <1>1 DEF ConditionsType
  <2>5. d + lost' = c + lost + 1 /\ lost' \in Nat
    BY <1>3, <2>1, <2>2
  <2>6. PICK u \in Nat, n \in Nat : u = waiting' /\ n = lost'
    BY <2>4, <2>5
  <2>7. u = waiting - 1 /\ d + n = c + lost + 1
    BY <2>4, <2>5, <2>6
  <2>8. (u + d) + n = (waiting + c) + lost
    BY <2>4, <2>7, OneMovesOver
  <2>9. waiting + c \in Nat /\ u + d \in Nat
    BY <2>4
  <2> QED
    BY <2>3, <2>4, <2>6, <2>8, <2>9
<1>6. PendingIsCounted'
  <2>1. Cardinality(Delays) \in Nat /\ Delays' = Delays
    BY <1>1, FS_CardinalityType, DelaysKept
  <2>2. PICK u \in Nat, n \in Nat : u = RunsToReport' /\ n = lost'
    BY <1>3, <1>5
  <2>3. u + n = RunsToReport + lost + 0
    <3>1. u + n = RunsToReport + lost
      BY <1>5, <2>2
    <3>2. PICK r \in Nat, l \in Nat : r = RunsToReport /\ l = lost
      BY <1>5
    <3> QED
      BY <3>1, <3>2
  <2>4. Cardinality(Delays) + u + n = Cardinality(Delays) + RunsToReport + lost
    BY <1>5, <2>1, <2>3, CountsAsMany
  <2>5. PICK s \in Nat : s = IF Still THEN 0 ELSE 1
    OBVIOUS
  <2>6. pending = Cardinality(Delays) + u + n + s
    BY <2>4, <2>5 DEF PendingIsCounted
  <2>7. /\ pending' = pending /\ s = IF Still' THEN 0 ELSE 1
        /\ Cardinality(Delays)' = Cardinality(Delays)
    BY <1>1, <2>1, <2>5 DEF Still
  <2>8. pending' = Cardinality(Delays)' + RunsToReport' + lost' + s
    BY <2>2, <2>6, <2>7
  <2>9. pending' = Cardinality(Delays)' + RunsToReport' + lost' + (IF Still' THEN 0 ELSE 1)
    BY <2>7, <2>8
  <2> QED
    BY <2>9 DEF PendingIsCounted
<1> QED
  BY <1>1, <1>4, <1>6, QuietInv

LEMMA ActionProcessedInv == ASSUME ConditionsInv, ActionProcessed PROVE ConditionsInv'
<1> USE DEF ConditionsInv
<1>1. /\ Still /\ todo > 0 /\ todo' = todo - 1
      /\ UNCHANGED <<tree, action, holds, unsatisfied, due, timers, rising, waiting, lost, heard, ran, refused>>
  BY DEF ActionProcessed
<1>2. /\ Cardinality(Delays) \in Nat /\ RunsToReport \in Nat /\ lost \in Nat
      /\ pending = Cardinality(Delays) + RunsToReport + lost
  BY <1>1, FS_CardinalityType, RunningType DEF PendingIsCounted
<1>3. Delays' = Delays /\ Still'
  BY <1>1, DelaysKept DEF Still
<1>4. CASE pendingActions' \in Int /\ EvaluationEnded /\ RunsToReport' = RunsToReport - 1 /\ RunsToReport > 0
  <2>1. pending' = pending - 1 /\ pending' \in Nat
    BY <1>2, <1>4 DEF EvaluationEnded
  <2>2. ConditionsType'
    BY <1>1, <1>4, <2>1, DefsKept DEF ConditionsType
  <2>3. PendingIsCounted'
    BY <1>1, <1>2, <1>3, <1>4, <2>1 DEF PendingIsCounted
  <2> QED
    BY <1>1, <2>2, <2>3, QuietInv
<1>5. CASE pendingActions' \in Int /\ UNCHANGED pending /\ RunsToReport' = RunsToReport
  <2>1. ConditionsType'
    BY <1>1, <1>5, DefsKept DEF ConditionsType
  <2>2. PendingIsCounted'
    BY <1>1, <1>2, <1>3, <1>5 DEF PendingIsCounted
  <2> QED
    BY <1>1, <2>1, <2>2, QuietInv
<1>6. CASE IsSimple(action)
  <2>1. EvaluationEnded /\ pendingActions' = pendingActions
    BY <1>6 DEF ActionProcessed
  <2>2. RunsToReport' = RunsToReport - 1 /\ RunsToReport > 0
    BY <1>1, <1>6 DEF RunsToReport, IsSimple, ConditionsType
  <2> QED
    BY <1>4, <2>1, <2>2 DEF ConditionsType
<1>7. CASE ~IsSimple(action)
  <2>1. /\ pendingActions' = pendingActions - 1 /\ pendingActions' \in Int
        /\ IF pendingActions' = 0 THEN EvaluationEnded ELSE UNCHANGED pending
    BY <1>7 DEF ActionProcessed, ConditionsType
  <2>2. CASE pendingActions' = 0
    <3>1. RunsToReport' = RunsToReport - 1 /\ RunsToReport > 0
      BY <1>1, <1>7, <2>1, <2>2 DEF RunsToReport, IsSimple, ConditionsType
    <3> QED
      BY <1>4, <2>1, <2>2, <3>1
  <2>3. CASE pendingActions' # 0
    <3>1. RunsToReport' = RunsToReport
      BY <1>1, <1>7, <2>1, <2>3 DEF RunsToReport, IsSimple, ConditionsType
    <3> QED
      BY <1>5, <2>1, <2>3, <3>1
  <2> QED
    BY <2>2, <2>3
<1> QED
  BY <1>6, <1>7

LEMMA AssessInv == ASSUME ConditionsInv, NEW l \in Leaves, Assess(l) PROVE ConditionsInv'
<1> USE DEF ConditionsInv
<1>1. PendingIsCounted'
  BY DelaysKept, RunningKept DEF Assess, PendingIsCounted, Still
<1>2. ConditionsType'
  <2>1. holds' \in [Leaves -> BOOLEAN]
    <3>1. PICK b \in BOOLEAN : b = ~holds[l]
      BY DEF ConditionsType
    <3>2. holds' = [holds EXCEPT ![l] = b]
      BY <3>1 DEF Assess
    <3> QED
      BY <3>2 DEF ConditionsType
  <2> QED
    BY <2>1, DefsKept, RunningKept DEF Assess, ConditionsType
<1> QED
  BY <1>1, <1>2, QuietInv DEF Assess

LEMMA ConditionsStepInv == ConditionsInv /\ [ConditionsNext]_conditionsVars => ConditionsInv'
<1> SUFFICES ASSUME ConditionsInv, [ConditionsNext]_conditionsVars PROVE ConditionsInv'
  OBVIOUS
<1>1. CASE UNCHANGED conditionsVars
  <2>1. ConditionsType' /\ PendingIsCounted'
    BY <1>1, DefsKept, DelaysKept, RunningKept
    DEF conditionsVars, ConditionsInv, ConditionsType, PendingIsCounted, Still
  <2> QED
    BY <1>1, <2>1, QuietInv DEF conditionsVars
<1>2. CASE ConditionsNext
  BY <1>2, HappenInv, TellInv, ExpireInv, RiseInOrInv, RiseInAndInv, RiseInLinkInv,
     BeginActionInv, ActionProcessedInv, AssessInv DEF ConditionsNext
<1> QED
  BY <1>1, <1>2

LEMMA ConditionsInvariant == ConditionsSpec => []ConditionsInv
BY ConditionsInitInv, ConditionsStepInv, PTL DEF ConditionsSpec

(* The composition counts the evaluations of a link that are under way, for *)
(* any tree of conditions, any delays and any order of calls.              *)
THEOREM EvaluationsAreCounted == ConditionsSpec => []PendingIsCounted
<1>1. ConditionsInv => PendingIsCounted
  BY DEF ConditionsInv
<1> QED
  BY <1>1, ConditionsInvariant, PTL

(* A link whose conditions have all heard their transitions has run once    *)
(* nothing is on its way, for any tree of conditions: those satisfied have  *)
(* each told the condition around them, so that the root has told the link. *)
THEOREM LinkRunsForWhatItHeard == ConditionsSpec => []NothingHeardIsLost
<1>1. ConditionsInv => NothingHeardIsLost
  <2> SUFFICES ASSUME ConditionsInv, \A S \in SUBSET conditions : Satisfies(S) => Root \in S,
                      Still, pending = 0, \A n \in conditions : due[n] = 0, ~refused
               PROVE  ran > 0
    BY DEF NothingHeardIsLost
  <2> USE DEF ConditionsInv
  <2>1. PICK D \in SUBSET conditions : Progressed(D) /\ ToldAreIn(D)
    BY DEF SatisfiedProgressed
  <2>2. \A n \in conditions : ~(timers[n] > 0) /\ rising # n
    <3>1. Cardinality(Delays) = 0
      BY FS_CardinalityType, RunningType DEF PendingIsCounted
    <3>2. Delays = {}
      BY <3>1, FS_EmptySet
    <3>3. ASSUME NEW n \in conditions, timers[n] > 0 PROVE FALSE
      <4>1. <<n, 1>> \in Delays
        BY <3>3 DEF Delays, Units, ConditionsType
      <4> QED
        BY <3>2, <4>1
    <3> QED
      BY <3>3, TreeIsCondition DEF Still
  <2>3. \A n \in D : Passed(n, D)
    BY <2>1, <2>2 DEF Progressed
  <2>4. Satisfies(D)
    <3> SUFFICES ASSUME NEW n \in conditions
                 PROVE  /\ tree[n].kind = "transition" /\ heard[tree[n].on] > 0 => n \in D
                        /\ tree[n].kind = "or" /\ Parts(tree, n) \cap D # {} => n \in D
                        /\ tree[n].kind = "and" /\ Parts(tree, n) \subseteq D => n \in D
      <4>1. \A m \in conditions : tree[m].kind \in Kinds
        BY TreeIsCondition
      <4> QED
        BY <4>1 DEF Satisfies, Kinds
    <3>1. CASE tree[n].kind = "transition"
      BY <2>1, <3>1 DEF ToldAreIn
    <3>2. ASSUME tree[n].kind = "or", NEW m \in Parts(tree, n) \cap D PROVE n \in D
      <4>1. tree[m].up = n /\ n # Link
        BY TreeIsCondition DEF Parts
      <4> QED
        BY <2>3, <3>2, <4>1 DEF Passed, Conjunctions
    <3>3. ASSUME tree[n].kind = "and", Parts(tree, n) \subseteq D PROVE n \in D
      <4>1. n \in Conjunctions
        BY <3>3 DEF Conjunctions
      <4>2. PICK m \in unsatisfied[n] : m \in Parts(tree, n)
        BY <4>1 DEF WaitsForSome
      <4>3. tree[m].up = n /\ n # Link /\ m \in D
        BY <3>3, <4>2, TreeIsCondition DEF Parts
      <4> QED
        BY <2>3, <4>2, <4>3 DEF Passed
    <3> QED
      BY <3>1, <3>2, <3>3
  <2>5. Root \in D
    BY <2>4
  <2> QED
    BY <2>3, <2>5, TreeIsCondition DEF Passed
<1> QED
  BY <1>1, ConditionsInvariant, PTL
-----------------------------------------------------------------------------
(* How often the action of a link runs.                                    *)

LEMMA Least ==
    ASSUME NEW D, D \subseteq Nat, D # {}
    PROVE  \E n \in D : \A y \in D : n <= y
<1> DEFINE R == {ss \in Nat \X Nat : ss[1] < ss[2]}
<1>1. IsWellFoundedOn(R, Nat)
  BY NatLessThanWellFounded DEF OpToRel
<1>2. \E x \in D : \A y \in D : ~(<<y, x>> \in R)
  <2> HIDE DEF R
  <2> QED
    BY <1>1, WFMin
<1>3. PICK x \in D : \A y \in D : ~(<<y, x>> \in R)
  BY <1>2
<1>4. ASSUME NEW y \in D PROVE x <= y
  <2>1. ~(y < x)
    BY <1>3
  <2> QED
    BY <2>1
<1> QED
  BY <1>4

\* Sets that grow by one element as long as they are not all of S come to be all of it.
LEMMA GrowsToAll ==
    ASSUME NEW S, IsFiniteSet(S), NEW C, C \subseteq SUBSET S, C # {},
           \A T \in C : T # S => \E x \in S \ T : T \cup {x} \in C
    PROVE  S \in C
<1> DEFINE D == {Cardinality(S \ T) : T \in C}
<1>1. ASSUME NEW T \in C PROVE IsFiniteSet(S \ T) /\ Cardinality(S \ T) \in Nat
  <2>1. IsFiniteSet(S \ T)
    BY FS_Difference
  <2> QED
    BY <2>1, FS_CardinalityType
<1>2. D \subseteq Nat /\ D # {}
  <2>1. \A T \in C : Cardinality(S \ T) \in Nat
    BY <1>1
  <2>2. ASSUME NEW d \in D PROVE d \in Nat
    <3>1. PICK T \in C : d = Cardinality(S \ T)
      OBVIOUS
    <3> QED
      BY <2>1, <3>1
  <2>3. D # {}
    <3>1. PICK T : T \in C
      OBVIOUS
    <3>2. \A U \in C : Cardinality(S \ U) \in D
      OBVIOUS
    <3> HIDE DEF D
    <3> QED
      BY <3>1, <3>2
  <2> QED
    BY <2>2, <2>3
<1>3. PICK n \in D : \A y \in D : n <= y
  <2> HIDE DEF D
  <2> QED
    BY <1>2, Least
<1>4. PICK T \in C : n = Cardinality(S \ T)
  OBVIOUS
<1>5. ASSUME T # S PROVE FALSE
  <2>1. PICK x \in S \ T : T \cup {x} \in C
    BY <1>5
  <2>2. PICK U : U = S \ T
    OBVIOUS
  <2>3. S \ (T \cup {x}) = U \ {x} /\ x \in U
    BY <2>1, <2>2
  <2>4. IsFiniteSet(U) /\ Cardinality(U) = n
    BY <1>1, <1>4, <2>2
  <2>5. Cardinality(U \ {x}) = n - 1
    BY <2>3, <2>4, FS_RemoveElement
  <2>6. PICK W : W \in C /\ W = T \cup {x}
    BY <2>1
  <2>7. Cardinality(S \ W) = n - 1
    BY <2>3, <2>5, <2>6
  <2>8. n - 1 \in D
    BY <2>6, <2>7
  <2>9. n <= n - 1 /\ n \in Nat
    BY <1>2, <1>3, <2>8
  <2> QED
    BY <2>9
<1> QED
  BY <1>5

\* Finitely many things for each of finitely many are finitely many.
LEMMA UnitsAreFinite ==
    ASSUME NEW S, IsFiniteSet(S), NEW f, \A n \in S : f[n] \in Nat
    PROVE  IsFiniteSet(Units(f, S))
<1> DEFINE C == {T \in SUBSET S : IsFiniteSet(Units(f, T))}
<1>1. {} \in C
  <2>1. Units(f, {}) = {}
    BY DEF Units
  <2> QED
    BY <2>1, FS_EmptySet
<1>2. ASSUME NEW T \in C, T # S PROVE \E x \in S \ T : T \cup {x} \in C
  <2>1. PICK x : x \in S \ T
    BY <1>2
  <2>2. Units(f, T \cup {x}) = Units(f, T) \cup ({x} \X (1..f[x]))
    BY DEF Units
  <2>3. IsFiniteSet({x}) /\ IsFiniteSet(1..f[x])
    <3>1. f[x] \in Int /\ 1 \in Int
      BY <2>1
    <3> QED
      BY <3>1, FS_Singleton, FS_Interval
  <2>4. IsFiniteSet({x} \X (1..f[x]))
    BY <2>3, FS_Product
  <2>5. IsFiniteSet(Units(f, T) \cup ({x} \X (1..f[x])))
    BY <2>4, FS_Union
  <2> QED
    BY <2>1, <2>2, <2>5
<1>3. C \subseteq SUBSET S /\ C # {}
  BY <1>1
<1>4. S \in C
  <2> HIDE DEF C
  <2> QED
    BY <1>2, <1>3, GrowsToAll
<1> QED
  BY <1>4

LEMMA MoreUnits ==
    ASSUME NEW S, IsFiniteSet(S), NEW f, NEW g, \A n \in S : f[n] \in Nat /\ g[n] \in Nat /\ f[n] <= g[n]
    PROVE  /\ Cardinality(Units(f, S)) \in Nat /\ Cardinality(Units(g, S)) \in Nat
           /\ Cardinality(Units(f, S)) <= Cardinality(Units(g, S))
<1>1. Units(f, S) \subseteq Units(g, S)
  BY DEF Units
<1>2. IsFiniteSet(Units(f, S)) /\ IsFiniteSet(Units(g, S))
  BY UnitsAreFinite
<1> QED
  BY <1>1, <1>2, FS_Subset, FS_CardinalityType

LEMMA OneMoreUnit ==
    ASSUME NEW S, IsFiniteSet(S), NEW f, \A n \in S : f[n] \in Nat,
           NEW m, m \in S, NEW g, g[m] = f[m] + 1, \A n \in S : n # m => g[n] = f[n]
    PROVE  Cardinality(Units(g, S)) = Cardinality(Units(f, S)) + 1
<1>1. Units(g, S) = Units(f, S) \cup {<<m, f[m] + 1>>}
  BY DEF Units
<1>2. <<m, f[m] + 1>> \notin Units(f, S)
  BY DEF Units
<1>3. IsFiniteSet(Units(f, S))
  BY UnitsAreFinite
<1> QED
  BY <1>1, <1>2, <1>3, FS_AddElement

-----------------------------------------------------------------------------

\* The conditions of a link are finitely many and do not contain themselves.
LEMMA TreeIsFounded ==
    ASSUME ConditionsType
    PROVE  /\ IsFiniteSet(conditions)
           /\ \A S \in SUBSET conditions : S # {} => \E n \in S : Parts(tree, n) \cap S = {}
           /\ \A n : Parts(tree, n) \subseteq conditions /\ IsFiniteSet(Parts(tree, n))
           /\ \A n \in conditions : n \notin Parts(tree, n)
           /\ \A n \in conditions : tree[n].up = Link => n = Root
           /\ \A n \in conditions : tree[n].kind = "transition" => tree[n].on \in EventTransitions
<1>1. tree \in Trees /\ IsCondition(tree)
  BY ConditionsAssumption DEF ConditionsType
<1>2. /\ IsFiniteSet(conditions)
      /\ \A S \in SUBSET conditions : S # {} => \E n \in S : Parts(tree, n) \cap S = {}
      /\ \A n \in conditions : tree[n].kind = "transition" => tree[n].on \in EventTransitions
  BY <1>1 DEF IsCondition, conditions
<1>3. ASSUME NEW n PROVE Parts(tree, n) \subseteq conditions /\ IsFiniteSet(Parts(tree, n))
  <2>1. Parts(tree, n) \subseteq conditions
    BY DEF Parts, conditions
  <2> QED
    BY <1>2, <2>1, FS_Subset
<1>4. ASSUME NEW n \in conditions PROVE n \notin Parts(tree, n)
  <2>1. {n} \in SUBSET conditions /\ {n} # {}
    OBVIOUS
  <2>2. \E m \in {n} : Parts(tree, m) \cap {n} = {}
    BY <1>2, <2>1
  <2> QED
    BY <2>2
<1>5. ASSUME NEW n \in conditions, tree[n].up = Link PROVE n = Root
  <2>1. Cardinality(Parts(tree, Link)) = 1 /\ IsFiniteSet(Parts(tree, Link))
    BY <1>1, <1>3 DEF IsCondition
  <2>2. PICK x : Parts(tree, Link) = {x}
    BY <2>1, FS_Singleton
  <2>3. n \in Parts(tree, Link) /\ Root \in Parts(tree, Link)
    BY <1>5, TreeIsCondition DEF Parts, conditions
  <2> QED
    BY <2>2, <2>3
<1> QED
  BY <1>2, <1>3, <1>4, <1>5

LEMMA AtMostByParts ==
    ASSUME NEW n, NEW f, NEW g, \A m \in Parts(tree, n) : f[m] = g[m]
    PROVE  AtMostBy(f, n) = AtMostBy(g, n)
<1>1. Units(f, Parts(tree, n)) = Units(g, Parts(tree, n))
  BY DEF Units
<1>2. {f[m] : m \in Parts(tree, n)} = {g[m] : m \in Parts(tree, n)}
  OBVIOUS
<1> QED
  BY <1>1, <1>2 DEF AtMostBy

\* The recursive definition of AtMost defines a function: what it says of the parts of a
\* condition says what it says of the condition.
LEMMA AtMostIs ==
    ASSUME ConditionsType
    PROVE  \A n \in conditions : AtMost[n] = AtMostBy(AtMost, n)
<1> DEFINE C == {D \in SUBSET conditions : /\ \A n \in D : Parts(tree, n) \subseteq D
                                           /\ \E f : f = [n \in D |-> AtMostBy(f, n)]}
<1>1. {} \in C
  <2>1. PICK f : f = [n \in {} |-> n]
    OBVIOUS
  <2>2. f = [n \in {} |-> AtMostBy(f, n)]
    BY <2>1
  <2> QED
    BY <2>2
<1>2. ASSUME NEW D \in C, D # conditions PROVE \E n \in conditions \ D : D \cup {n} \in C
  <2>1. PICK f : f = [n \in D |-> AtMostBy(f, n)]
    OBVIOUS
  <2>2. PICK n \in conditions \ D : Parts(tree, n) \cap (conditions \ D) = {}
    <3>1. conditions \ D # {} /\ conditions \ D \in SUBSET conditions
      BY <1>2
    <3> QED
      BY <3>1, TreeIsFounded
  <2>3. Parts(tree, n) \subseteq D
    BY <2>2, TreeIsFounded
  <2>4. PICK g : g = [m \in D \cup {n} |-> IF m \in D THEN f[m] ELSE AtMostBy(f, n)]
    OBVIOUS
  <2>5. ASSUME NEW m \in D \cup {n} PROVE g[m] = AtMostBy(g, m)
    <3>1. Parts(tree, m) \subseteq D
      BY <2>3
    <3>2. \A l \in Parts(tree, m) : g[l] = f[l]
      BY <2>4, <3>1
    <3>3. AtMostBy(g, m) = AtMostBy(f, m)
      BY <3>2, AtMostByParts
    <3>4. m \in D => f[m] = AtMostBy(f, m)
      BY <2>1
    <3>5. g[m] = IF m \in D THEN f[m] ELSE AtMostBy(f, n)
      BY <2>4
    <3> QED
      BY <3>3, <3>4, <3>5
  <2>6. g = [m \in D \cup {n} |-> AtMostBy(g, m)]
    <3>1. g = [m \in D \cup {n} |-> g[m]]
      BY <2>4
    <3> QED
      BY <2>5, <3>1
  <2>7. \A m \in D \cup {n} : Parts(tree, m) \subseteq D \cup {n}
    BY <2>3
  <2> QED
    BY <2>2, <2>6, <2>7
<1>3. conditions \in C
  <2>1. C \subseteq SUBSET conditions /\ C # {}
    BY <1>1
  <2> HIDE DEF C
  <2> QED
    BY <1>2, <2>1, TreeIsFounded, GrowsToAll
<1>4. PICK f : f = CHOOSE g : g = [n \in conditions |-> AtMostBy(g, n)]
  OBVIOUS
<1>5. f = [n \in conditions |-> AtMostBy(f, n)]
  BY <1>3, <1>4
<1>6. AtMost = f
  BY <1>4 DEF AtMost
<1> QED
  BY <1>5, <1>6

-----------------------------------------------------------------------------

\* How often the condition n is satisfied without having told the one around it.
Held(n) == timers[n] + (IF rising = n THEN 1 ELSE 0)

\* The condition n was satisfied no more often than it was told to be, out[n] times; each
\* condition told the one around it told[n] times.
Fed(n, out, told) ==
    /\ tree[n].kind = "transition" => out[n] + due[n] <= heard[tree[n].on]
    /\ tree[n].kind # "transition" => due[n] = 0
    /\ tree[n].kind = "or" => out[n] <= Cardinality(Units(told, Parts(tree, n)))
    /\ tree[n].kind = "and" => \A m \in Parts(tree, n) :
          out[n] + (IF m \in unsatisfied[n] THEN 0 ELSE 1) <= told[m]

Flow(out, told) ==
    /\ \A n \in conditions : out[n] = told[n] + Held(n) /\ Fed(n, out, told)
    /\ told[Root] = ran

NothingAppears == \E out, told \in [conditions -> Nat] : Flow(out, told)

LEMMA FlowsOn ==
    ASSUME tree' = tree, NEW out, NEW told, out \in [conditions -> Nat], told \in [conditions -> Nat],
           \A n \in conditions : out[n] = told[n] + Held(n)' /\ Fed(n, out, told)',
           told[Root] = ran'
    PROVE  NothingAppears'
<1>1. conditions' = conditions /\ Root' = Root
  BY DEF conditions, Root
<1>2. Flow(out, told)'
  BY <1>1 DEF Flow
<1> QED
  BY <1>1, <1>2 DEF NothingAppears

LEMMA SatisfiedHolds ==
    ASSUME ConditionsType, NEW n \in conditions, Satisfied(n)
    PROVE  Held(n)' = timers[n] + 1 /\ \A m \in conditions : m # n => Held(m)' = timers[m]
<1>1. None \notin conditions
  BY TreeIsCondition
<1>2. CASE tree[n].delay
  BY <1>1, <1>2 DEF Satisfied, Held, ConditionsType
<1>3. CASE ~tree[n].delay
  BY <1>1, <1>3 DEF Satisfied, Held, ConditionsType
<1> QED
  BY <1>2, <1>3

\* A condition stays fed when its parts tell it more and it is not satisfied itself.
LEMMA StaysFed ==
    ASSUME ConditionsType, UNCHANGED <<tree, due, heard>>,
           NEW out, NEW told, NEW tell, told \in [conditions -> Nat], tell \in [conditions -> Nat],
           \A m \in conditions : told[m] <= tell[m],
           NEW n, n \in conditions, Fed(n, out, told), out[n] \in Nat,
           n \in Conjunctions => unsatisfied'[n] = unsatisfied[n],
           NEW more, more[n] = out[n]
    PROVE  Fed(n, more, tell)'
<1>1. Parts(tree, n) \subseteq conditions /\ IsFiniteSet(Parts(tree, n))
  BY TreeIsFounded
<1>2. /\ Cardinality(Units(told, Parts(tree, n))) \in Nat /\ Cardinality(Units(tell, Parts(tree, n))) \in Nat
      /\ Cardinality(Units(told, Parts(tree, n))) <= Cardinality(Units(tell, Parts(tree, n)))
  <2>1. \A m \in Parts(tree, n) : told[m] \in Nat /\ tell[m] \in Nat /\ told[m] <= tell[m]
    BY <1>1
  <2> QED
    BY <1>1, <2>1, MoreUnits
<1>3. Parts(tree, n)' = Parts(tree, n)
  BY DefsKept
<1>4. Units(tell, Parts(tree, n))' = Units(tell, Parts(tree, n))
  BY <1>3 DEF Units
<1>5. tree[n].kind = "or" => more[n] <= Cardinality(Units(tell, Parts(tree, n)))
  BY <1>2 DEF Fed
<1>6. tree[n].kind = "and" => \A m \in Parts(tree, n) :
          more[n] + (IF m \in unsatisfied'[n] THEN 0 ELSE 1) <= tell[m]
  <2> SUFFICES ASSUME tree[n].kind = "and", NEW m \in Parts(tree, n)
               PROVE  more[n] + (IF m \in unsatisfied'[n] THEN 0 ELSE 1) <= tell[m]
    OBVIOUS
  <2>1. unsatisfied'[n] = unsatisfied[n]
    BY DEF Conjunctions
  <2>2. out[n] + (IF m \in unsatisfied[n] THEN 0 ELSE 1) <= told[m]
    BY DEF Fed
  <2>3. told[m] \in Nat /\ tell[m] \in Nat /\ told[m] <= tell[m]
    BY <1>1
  <2> QED
    BY <2>1, <2>2, <2>3
<1> QED
  BY <1>3, <1>4, <1>5, <1>6 DEF Fed

\* "rising" tells the condition around it: what it told, and what the others told, after.
LEMMA RisingTold ==
    ASSUME NEW told, told \in [conditions -> Nat], rising \in conditions
    PROVE  LET tell == [told EXCEPT ![rising] = @ + 1] IN
           /\ tell \in [conditions -> Nat]
           /\ tell[rising] = told[rising] + 1
           /\ \A m \in conditions : told[m] <= tell[m] /\ (m # rising => tell[m] = told[m])
OBVIOUS

LEMMA FlowInit == ConditionsInit => NothingAppears
<1> SUFFICES ASSUME ConditionsInit PROVE NothingAppears
  OBVIOUS
<1>1. ConditionsType
  BY ConditionsInitInv DEF ConditionsInv
<1>2. PICK f : f = [n \in conditions |-> 0]
  OBVIOUS
<1>3. f \in [conditions -> Nat] /\ \A n \in conditions : f[n] = 0
  BY <1>2
<1>4. ASSUME NEW n \in conditions PROVE f[n] = f[n] + Held(n) /\ Fed(n, f, f)
  <2>1. Held(n) = 0
    BY <1>1, TreeIsCondition DEF ConditionsInit, Held
  <2>2. Parts(tree, n) \subseteq conditions /\ IsFiniteSet(Parts(tree, n))
    BY <1>1, TreeIsFounded
  <2>3. Cardinality(Units(f, Parts(tree, n))) \in Nat
    <3>1. \A m \in Parts(tree, n) : f[m] \in Nat
      BY <1>3, <2>2
    <3> QED
      BY <2>2, <3>1, UnitsAreFinite, FS_CardinalityType
  <2>4. due[n] = 0
    BY DEF ConditionsInit
  <2>5. tree[n].kind = "transition" => heard[tree[n].on] = 0
    BY <1>1, TreeIsFounded DEF ConditionsInit
  <2>6. tree[n].kind = "and" => unsatisfied[n] = Parts(tree, n)
    BY DEF ConditionsInit, Conjunctions
  <2> QED
    BY <1>3, <2>1, <2>2, <2>3, <2>4, <2>5, <2>6 DEF Fed
<1>5. f[Root] = ran
  BY <1>1, <1>3, TreeIsCondition DEF ConditionsInit
<1>6. Flow(f, f)
  BY <1>4, <1>5 DEF Flow
<1> QED
  BY <1>3, <1>6 DEF NothingAppears

LEMMA HappenFlow ==
    ASSUME ConditionsInv, NothingAppears, NEW t \in EventTransitions, Happen(t)
    PROVE  NothingAppears'
<1>1. ConditionsType /\ UNCHANGED <<tree, unsatisfied, timers, rising, ran>>
  BY DEF Happen, ConditionsInv
<1>2. PICK out \in [conditions -> Nat], told \in [conditions -> Nat] : Flow(out, told)
  BY DEF NothingAppears
<1>3. ASSUME NEW n \in conditions PROVE out[n] = told[n] + Held(n)' /\ Fed(n, out, told)'
  <2>1. Held(n)' = Held(n) /\ Parts(tree, n)' = Parts(tree, n)
    BY <1>1, DefsKept DEF Held
  <2>2. Units(told, Parts(tree, n))' = Units(told, Parts(tree, n))
    BY <2>1 DEF Units
  <2>3. due'[n] = due[n] + (IF n \in Listening(t) THEN 1 ELSE 0) /\ due[n] \in Nat /\ out[n] \in Nat
    BY <1>1 DEF Happen, ConditionsType
  <2>4. CASE tree[n].kind = "transition"
    <3>1. tree[n].on \in EventTransitions
      BY <1>1, <2>4, TreeIsFounded
    <3>2. heard'[tree[n].on] = heard[tree[n].on] + (IF n \in Listening(t) THEN 1 ELSE 0)
          /\ heard[tree[n].on] \in Nat
      BY <1>1, <2>4, <3>1 DEF Happen, ConditionsType, Listening
    <3> QED
      BY <1>1, <1>2, <2>1, <2>3, <2>4, <3>2 DEF Flow, Fed
  <2>5. CASE tree[n].kind # "transition"
    <3>1. n \notin Listening(t)
      BY <2>5 DEF Listening
    <3> QED
      BY <1>1, <1>2, <2>1, <2>2, <2>3, <2>5, <3>1 DEF Flow, Fed
  <2> QED
    BY <2>4, <2>5
<1>4. told[Root] = ran'
  BY <1>1, <1>2 DEF Flow
<1> QED
  BY <1>1, <1>3, <1>4, FlowsOn

LEMMA TellFlow ==
    ASSUME ConditionsInv, NothingAppears, NEW n \in conditions, Tell(n)
    PROVE  NothingAppears'
<1>1. /\ ConditionsType /\ UNCHANGED <<tree, unsatisfied, heard, ran>>
      /\ Satisfied(n) /\ Still /\ due' = [due EXCEPT ![n] = @ - 1] /\ due[n] > 0
  BY DEF Tell, ConditionsInv
<1>2. PICK out \in [conditions -> Nat], told \in [conditions -> Nat] : Flow(out, told)
  BY DEF NothingAppears
<1>3. PICK more : more = [out EXCEPT ![n] = @ + 1]
  OBVIOUS
<1>4. more \in [conditions -> Nat] /\ more[n] = out[n] + 1 /\ \A k \in conditions : k # n => more[k] = out[k]
  BY <1>3
<1>5. \A k \in conditions : Held(k) = timers[k]
  BY <1>1, TreeIsCondition DEF Held, Still, ConditionsType
<1>6. Held(n)' = timers[n] + 1 /\ \A k \in conditions : k # n => Held(k)' = timers[k]
  BY <1>1, SatisfiedHolds
<1>7. ASSUME NEW k \in conditions PROVE more[k] = told[k] + Held(k)' /\ Fed(k, more, told)'
  <2>1. more[k] = told[k] + Held(k)'
    <3>1. out[k] = told[k] + timers[k] /\ told[k] \in Nat /\ timers[k] \in Nat /\ out[k] \in Nat
      BY <1>1, <1>2, <1>5 DEF Flow, ConditionsType
    <3> QED
      BY <1>4, <1>6, <3>1
  <2>2. Fed(k, out, told)
    BY <1>2 DEF Flow
  <2>3. Units(told, Parts(tree, k))' = Units(told, Parts(tree, k)) /\ Parts(tree, k)' = Parts(tree, k)
    BY <1>1, DefsKept DEF Units
  <2>4. CASE k = n
    <3>1. tree[n].kind = "transition"
      BY <1>1, <2>2, <2>4 DEF Fed
    <3>2. due'[n] = due[n] - 1 /\ due[n] \in Nat /\ out[n] \in Nat
      BY <1>1 DEF ConditionsType
    <3> QED
      BY <1>1, <1>4, <2>1, <2>2, <2>4, <3>1, <3>2 DEF Fed
  <2>5. CASE k # n
    <3>1. due'[k] = due[k]
      BY <1>1, <2>5 DEF ConditionsType
    <3> QED
      BY <1>1, <1>4, <2>1, <2>2, <2>3, <2>5, <3>1 DEF Fed
  <2> QED
    BY <2>4, <2>5
<1>8. told[Root] = ran'
  BY <1>1, <1>2 DEF Flow
<1> QED
  BY <1>1, <1>4, <1>7, <1>8, FlowsOn

\* The steps that leave it the same how often each condition is satisfied.
LEMMA SameFlow ==
    ASSUME ConditionsInv, NothingAppears, UNCHANGED <<tree, unsatisfied, due, heard, ran>>,
           \A n \in conditions : Held(n)' = Held(n)
    PROVE  NothingAppears'
<1>1. PICK out \in [conditions -> Nat], told \in [conditions -> Nat] : Flow(out, told)
  BY DEF NothingAppears
<1>2. \A n \in conditions : out[n] = told[n] + Held(n)' /\ Fed(n, out, told)
  BY <1>1 DEF Flow
<1>3. ASSUME NEW n \in conditions PROVE Fed(n, out, told)'
  BY <1>2, DefsKept DEF Fed, Units
<1>4. told[Root] = ran'
  BY <1>1 DEF Flow
<1> QED
  BY <1>2, <1>3, <1>4, FlowsOn

LEMMA ExpireFlow ==
    ASSUME ConditionsInv, NothingAppears, NEW n \in conditions, Expire(n)
    PROVE  NothingAppears'
<1>1. /\ ConditionsType /\ UNCHANGED <<tree, unsatisfied, due, heard, ran>>
      /\ rising = None /\ timers[n] > 0 /\ timers' = [timers EXCEPT ![n] = @ - 1] /\ rising' = n
  BY DEF Expire, ConditionsInv, Still
<1>2. \A k \in conditions : Held(k)' = Held(k)
  BY <1>1, TreeIsCondition DEF Held, ConditionsType
<1> QED
  BY <1>1, <1>2, SameFlow

LEMMA RiseInOrFlow ==
    ASSUME ConditionsInv, NothingAppears, RiseInOr
    PROVE  NothingAppears'
<1>1. PICK n : n = tree[rising].up
  OBVIOUS
<1>2. /\ ConditionsType /\ UNCHANGED <<tree, unsatisfied, due, heard, ran>>
      /\ ~Still /\ n # Link /\ tree[n].kind = "or" /\ Satisfied(n)
  BY <1>1 DEF RiseInOr, ConditionsInv
<1>3. rising \in conditions /\ n \in conditions /\ rising \in Parts(tree, n) /\ rising # n
  <2>1. rising \in conditions
    BY <1>2 DEF Still, ConditionsType
  <2>2. n \in conditions /\ rising \in Parts(tree, n)
    BY <1>1, <1>2, <2>1, TreeIsCondition DEF Parts, conditions
  <2> QED
    BY <1>2, <2>1, <2>2, TreeIsFounded
<1>4. PICK out \in [conditions -> Nat], told \in [conditions -> Nat] : Flow(out, told)
  BY DEF NothingAppears
<1>5. PICK more, tell : more = [out EXCEPT ![n] = @ + 1] /\ tell = [told EXCEPT ![rising] = @ + 1]
  OBVIOUS
<1>6. more \in [conditions -> Nat] /\ more[n] = out[n] + 1 /\ \A k \in conditions : k # n => more[k] = out[k]
  BY <1>3, <1>5
<1>7. /\ tell \in [conditions -> Nat] /\ tell[rising] = told[rising] + 1
      /\ \A k \in conditions : told[k] <= tell[k] /\ (k # rising => tell[k] = told[k])
  BY <1>3, <1>5, RisingTold
<1>8. Held(n)' = timers[n] + 1 /\ \A k \in conditions : k # n => Held(k)' = timers[k]
  BY <1>2, <1>3, SatisfiedHolds
<1>9. ASSUME NEW k \in conditions PROVE more[k] = tell[k] + Held(k)'
  <2>1. /\ out[k] = told[k] + timers[k] + (IF rising = k THEN 1 ELSE 0)
        /\ told[k] \in Nat /\ timers[k] \in Nat /\ out[k] \in Nat
    BY <1>2, <1>4 DEF Flow, Held, ConditionsType
  <2> QED
    BY <1>3, <1>6, <1>7, <1>8, <2>1
<1>10. ASSUME NEW k \in conditions PROVE Fed(k, more, tell)'
  <2>1. Fed(k, out, told) /\ out[k] \in Nat
    BY <1>4 DEF Flow
  <2>2. CASE k = n
    <3>1. /\ IsFiniteSet(Parts(tree, n)) /\ Parts(tree, n) \subseteq conditions
          /\ \A m \in Parts(tree, n) : told[m] \in Nat
      BY <1>2, TreeIsFounded
    <3>2. Cardinality(Units(tell, Parts(tree, n))) = Cardinality(Units(told, Parts(tree, n))) + 1
      <4>1. \A m \in Parts(tree, n) : m # rising => tell[m] = told[m]
        BY <1>7, <3>1
      <4> QED
        BY <1>3, <1>7, <3>1, <4>1, OneMoreUnit
    <3>3. Cardinality(Units(told, Parts(tree, n))) \in Nat
      BY <3>1, UnitsAreFinite, FS_CardinalityType
    <3>4. more[n] <= Cardinality(Units(tell, Parts(tree, n)))
      BY <1>2, <1>6, <2>1, <2>2, <3>2, <3>3 DEF Fed
    <3>5. Units(tell, Parts(tree, n))' = Units(tell, Parts(tree, n))
      BY <1>2, DefsKept DEF Units
    <3> QED
      BY <1>2, <2>1, <2>2, <3>4, <3>5 DEF Fed
  <2>3. CASE k # n
    BY <1>2, <1>6, <1>7, <2>1, <2>3, StaysFed
  <2> QED
    BY <2>2, <2>3
<1>11. tell[Root] = ran'
  <2>1. rising # Root /\ Root \in conditions
    BY <1>1, <1>2, TreeIsCondition
  <2> QED
    BY <1>2, <1>4, <1>7, <2>1 DEF Flow
<1> QED
  BY <1>2, <1>6, <1>7, <1>9, <1>10, <1>11, FlowsOn

LEMMA RiseInAndFlow ==
    ASSUME ConditionsInv, NothingAppears, RiseInAnd
    PROVE  NothingAppears'
<1>1. PICK n : n = tree[rising].up
  OBVIOUS
<1>2. /\ ConditionsType /\ WaitsForSome /\ UNCHANGED <<tree, due, heard, ran>>
      /\ ~Still /\ n \in Conjunctions
      /\ unsatisfied' = [unsatisfied EXCEPT ![n] = WaitsFor(n)]
      /\ (Left(n) = {} /\ Satisfied(n)) \/ (rising' = None /\ UNCHANGED timers)
  BY <1>1 DEF RiseInAnd, ConditionsInv
<1>3. /\ rising \in conditions /\ n \in conditions /\ rising \in Parts(tree, n) /\ rising # n
      /\ n # Link /\ tree[n].kind = "and" /\ None \notin conditions
  <2>1. rising \in conditions /\ None \notin conditions
    BY <1>2, TreeIsCondition DEF Still, ConditionsType
  <2>2. n \in conditions /\ rising \in Parts(tree, n) /\ n # Link
    BY <1>1, <1>2, <2>1, TreeIsCondition DEF Parts, conditions, Conjunctions
  <2> QED
    BY <1>2, <2>1, <2>2, TreeIsFounded DEF Conjunctions
<1>4. PICK out \in [conditions -> Nat], told \in [conditions -> Nat] : Flow(out, told)
  BY DEF NothingAppears
<1>5. PICK tell : tell = [told EXCEPT ![rising] = @ + 1]
  OBVIOUS
<1>6. /\ tell \in [conditions -> Nat] /\ tell[rising] = told[rising] + 1
      /\ \A k \in conditions : told[k] <= tell[k] /\ (k # rising => tell[k] = told[k])
  BY <1>3, <1>5, RisingTold
<1>7. tell[Root] = ran'
  <2>1. rising # Root
    BY <1>1, <1>2, <1>3, TreeIsCondition
  <2>2. Root \in conditions
    BY <1>2, TreeIsCondition
  <2> QED
    BY <1>2, <1>4, <1>6, <2>1, <2>2 DEF Flow
<1>8. ASSUME NEW k \in conditions
      PROVE  /\ out[k] = told[k] + timers[k] + (IF rising = k THEN 1 ELSE 0)
             /\ told[k] \in Nat /\ timers[k] \in Nat /\ out[k] \in Nat /\ Fed(k, out, told)
  BY <1>2, <1>4 DEF Flow, Held, ConditionsType
<1>9. \A m \in Conjunctions : m # n => unsatisfied'[m] = unsatisfied[m]
  BY <1>2 DEF ConditionsType
<1>10. unsatisfied'[n] = WaitsFor(n)
  BY <1>2 DEF ConditionsType
<1>11. Parts(tree, n)' = Parts(tree, n) /\ Parts(tree, n) \subseteq conditions
  BY <1>2, DefsKept, TreeIsFounded
<1>12. ASSUME NEW m \in Parts(tree, n)
       PROVE  out[n] + (IF m \in unsatisfied[n] THEN 0 ELSE 1) <= told[m]
  BY <1>3, <1>8 DEF Fed
<1>13. CASE Left(n) = {} /\ Satisfied(n)
  <2>1. PICK more : more = [out EXCEPT ![n] = @ + 1]
    OBVIOUS
  <2>2. more \in [conditions -> Nat] /\ more[n] = out[n] + 1 /\ \A k \in conditions : k # n => more[k] = out[k]
    BY <1>3, <2>1
  <2>3. Held(n)' = timers[n] + 1 /\ \A k \in conditions : k # n => Held(k)' = timers[k]
    BY <1>2, <1>3, <1>13, SatisfiedHolds
  <2>4. ASSUME NEW k \in conditions PROVE more[k] = tell[k] + Held(k)'
    BY <1>3, <1>6, <1>8, <2>2, <2>3
  <2>5. ASSUME NEW m \in Parts(tree, n) PROVE more[n] + (IF m \in unsatisfied'[n] THEN 0 ELSE 1) <= tell[m]
    <3>1. m \in unsatisfied'[n] /\ m \in conditions
      BY <1>10, <1>11, <1>13 DEF WaitsFor
    <3>2. m # rising => m \notin unsatisfied[n]
      BY <1>13 DEF Left
    <3> QED
      BY <1>3, <1>6, <1>8, <1>12, <2>2, <3>1, <3>2
  <2>6. ASSUME NEW k \in conditions PROVE Fed(k, more, tell)'
    <3>1. CASE k = n
      BY <1>2, <1>3, <1>8, <1>11, <2>5, <3>1 DEF Fed
    <3>2. CASE k # n
      BY <1>2, <1>6, <1>8, <1>9, <2>2, <3>2, StaysFed
    <3> QED
      BY <3>1, <3>2
  <2> QED
    BY <1>2, <1>6, <1>7, <2>2, <2>4, <2>6, FlowsOn
<1>14. CASE rising' = None /\ UNCHANGED timers
  <2>1. ASSUME NEW k \in conditions PROVE out[k] = tell[k] + Held(k)'
    <3>1. Held(k)' = timers[k]
      BY <1>3, <1>8, <1>14 DEF Held
    <3> QED
      BY <1>6, <1>8, <3>1
  <2>2. ASSUME NEW m \in Parts(tree, n) PROVE out[n] + (IF m \in unsatisfied'[n] THEN 0 ELSE 1) <= tell[m]
    <3>1. m \in conditions
      BY <1>11
    <3>2. unsatisfied[n] \subseteq Parts(tree, n)
      BY <1>2 DEF WaitsForSome
    <3>3. m \in unsatisfied[n] /\ m # rising => m \in unsatisfied'[n]
      BY <1>10, <3>2 DEF WaitsFor, Left
    <3> QED
      BY <1>3, <1>6, <1>8, <1>12, <3>1, <3>3
  <2>3. ASSUME NEW k \in conditions PROVE Fed(k, out, tell)'
    <3>1. CASE k = n
      BY <1>2, <1>3, <1>8, <1>11, <2>2, <3>1 DEF Fed
    <3>2. CASE k # n
      BY <1>2, <1>6, <1>8, <1>9, <3>2, StaysFed
    <3> QED
      BY <3>1, <3>2
  <2> QED
    BY <1>2, <1>6, <1>7, <2>1, <2>3, FlowsOn
<1> QED
  BY <1>2, <1>13, <1>14

LEMMA RiseInLinkFlow ==
    ASSUME ConditionsInv, NothingAppears, RiseInLink
    PROVE  NothingAppears'
<1>1. /\ ConditionsType /\ UNCHANGED <<tree, unsatisfied, due, timers, heard>>
      /\ ~Still /\ tree[rising].up = Link /\ rising' = None /\ ran' = ran + 1
  BY DEF RiseInLink, ConditionsInv
<1>2. rising \in conditions /\ rising = Root /\ None \notin conditions
  BY <1>1, TreeIsCondition, TreeIsFounded DEF Still, ConditionsType
<1>3. PICK out \in [conditions -> Nat], told \in [conditions -> Nat] : Flow(out, told)
  BY DEF NothingAppears
<1>4. PICK tell : tell = [told EXCEPT ![rising] = @ + 1]
  OBVIOUS
<1>5. /\ tell \in [conditions -> Nat] /\ tell[rising] = told[rising] + 1
      /\ \A k \in conditions : told[k] <= tell[k] /\ (k # rising => tell[k] = told[k])
  BY <1>2, <1>4, RisingTold
<1>6. ASSUME NEW k \in conditions
      PROVE  /\ out[k] = told[k] + timers[k] + (IF rising = k THEN 1 ELSE 0)
             /\ told[k] \in Nat /\ timers[k] \in Nat /\ out[k] \in Nat /\ Fed(k, out, told)
  BY <1>1, <1>3 DEF Flow, Held, ConditionsType
<1>7. ASSUME NEW k \in conditions PROVE out[k] = tell[k] + Held(k)'
  <2>1. Held(k)' = timers[k]
    BY <1>1, <1>2, <1>6 DEF Held
  <2> QED
    BY <1>5, <1>6, <2>1
<1>8. ASSUME NEW k \in conditions PROVE Fed(k, out, tell)'
  BY <1>1, <1>5, <1>6, StaysFed
<1>9. tell[Root] = ran'
  BY <1>1, <1>2, <1>3, <1>5 DEF Flow
<1> QED
  BY <1>1, <1>5, <1>7, <1>8, <1>9, FlowsOn

LEMMA FlowStep == ConditionsInv /\ NothingAppears /\ [ConditionsNext]_conditionsVars => NothingAppears'
<1> SUFFICES ASSUME ConditionsInv, NothingAppears, [ConditionsNext]_conditionsVars PROVE NothingAppears'
  OBVIOUS
<1>1. CASE UNCHANGED <<tree, unsatisfied, due, timers, rising, heard, ran>>
  BY <1>1, SameFlow DEF Held
<1>2. CASE BeginAction \/ ActionProcessed
  BY <1>1, <1>2 DEF BeginAction, ActionProcessed
<1>3. CASE \E l \in Leaves : Assess(l)
  BY <1>1, <1>3 DEF Assess
<1>4. CASE UNCHANGED conditionsVars
  BY <1>1, <1>4 DEF conditionsVars
<1> QED
  BY <1>2, <1>3, <1>4, HappenFlow, TellFlow, ExpireFlow, RiseInOrFlow, RiseInAndFlow, RiseInLinkFlow
  DEF ConditionsNext

\* No condition is satisfied more often than what happened allows.
LEMMA OutAtMost ==
    ASSUME ConditionsType, NEW out, NEW told, out \in [conditions -> Nat], told \in [conditions -> Nat],
           Flow(out, told)
    PROVE  \A n \in conditions : AtMost[n] \in Nat /\ out[n] <= AtMost[n]
<1> DEFINE S == {n \in conditions : ~(AtMost[n] \in Nat /\ out[n] <= AtMost[n])}
<1>1. CASE S # {}
  <2>1. PICK n \in S : Parts(tree, n) \cap S = {}
    BY <1>1, TreeIsFounded
  <2>2. /\ n \in conditions /\ Parts(tree, n) \subseteq conditions /\ IsFiniteSet(Parts(tree, n))
        /\ tree[n].kind \in Kinds
        /\ tree[n].kind # "transition" => Parts(tree, n) # {}
        /\ tree[n].kind = "transition" => tree[n].on \in EventTransitions
    BY TreeIsFounded, TreeIsCondition
  <2>3. ASSUME NEW m \in Parts(tree, n) PROVE told[m] \in Nat /\ AtMost[m] \in Nat /\ told[m] <= AtMost[m]
    <3>1. m \in conditions /\ AtMost[m] \in Nat /\ out[m] <= AtMost[m]
      BY <2>1, <2>2
    <3>2. out[m] = told[m] + Held(m) /\ told[m] \in Nat /\ out[m] \in Nat /\ Held(m) \in Nat
      BY <3>1 DEF Flow, Held, ConditionsType
    <3> QED
      BY <3>1, <3>2
  <2>4. AtMost[n] = AtMostBy(AtMost, n)
    BY <2>2, AtMostIs
  <2>5. Fed(n, out, told) /\ out[n] \in Nat
    BY <2>2 DEF Flow
  <2>6. CASE tree[n].kind = "transition"
    <3>1. AtMost[n] = heard[tree[n].on]
      BY <2>4, <2>6 DEF AtMostBy
    <3>2. heard[tree[n].on] \in Nat /\ due[n] \in Nat /\ out[n] + due[n] <= heard[tree[n].on]
      BY <2>2, <2>5, <2>6 DEF Fed, ConditionsType
    <3>3. out[n] <= AtMost[n] /\ AtMost[n] \in Nat
      BY <2>5, <3>1, <3>2
    <3> QED
      BY <3>3
  <2>7. CASE tree[n].kind = "or"
    <3>1. AtMost[n] = Cardinality(Units(AtMost, Parts(tree, n)))
      BY <2>4, <2>7 DEF AtMostBy
    <3>2. /\ Cardinality(Units(told, Parts(tree, n))) \in Nat
          /\ Cardinality(Units(AtMost, Parts(tree, n))) \in Nat
          /\ Cardinality(Units(told, Parts(tree, n))) <= Cardinality(Units(AtMost, Parts(tree, n)))
      BY <2>2, <2>3, MoreUnits
    <3>3. out[n] <= Cardinality(Units(told, Parts(tree, n)))
      BY <2>5, <2>7 DEF Fed
    <3>4. out[n] <= AtMost[n] /\ AtMost[n] \in Nat
      BY <2>5, <3>1, <3>2, <3>3
    <3> QED
      BY <3>4
  <2>8. CASE tree[n].kind = "and"
    <3> DEFINE X == {AtMost[m] : m \in Parts(tree, n)}
    <3>1. AtMost[n] = Min(X)
      BY <2>4, <2>8 DEF AtMostBy
    <3>2. X \subseteq Nat /\ X # {}
      BY <2>2, <2>3, <2>8
    <3>3. Min(X) \in X
      <4> HIDE DEF X
      <4>1. \E x \in X : \A y \in X : x <= y
        BY <3>2, Least
      <4> QED
        BY <4>1 DEF Min
    <3>4. PICK m \in Parts(tree, n) : AtMost[n] = AtMost[m]
      BY <3>1, <3>3
    <3>5. out[n] + (IF m \in unsatisfied[n] THEN 0 ELSE 1) <= told[m]
      BY <2>5, <2>8 DEF Fed
    <3>6. out[n] <= AtMost[n] /\ AtMost[n] \in Nat
      BY <2>3, <2>5, <3>4, <3>5
    <3> QED
      BY <3>6
  <2> QED
    BY <2>2, <2>6, <2>7, <2>8 DEF Kinds
<1> QED
  BY <1>1

(* The action of a link runs no more often than the transitions that its    *)
(* conditions heard allow, for any tree of conditions: one that is satisfied *)
(* was told so by its parts, and a conjunction by each of them, once for    *)
(* every time; so a transition does not count for two runs of a conjunction. *)
THEOREM LinkRunsNoMoreThanDue == ConditionsSpec => []RunsNoMoreThanDue
<1>1. ConditionsInv /\ NothingAppears => RunsNoMoreThanDue
  <2> SUFFICES ASSUME ConditionsInv, NothingAppears PROVE ran <= AtMost[Root]
    BY DEF RunsNoMoreThanDue
  <2>1. ConditionsType /\ Root \in conditions
    BY TreeIsCondition DEF ConditionsInv
  <2>2. PICK out \in [conditions -> Nat], told \in [conditions -> Nat] : Flow(out, told)
    BY DEF NothingAppears
  <2>3. AtMost[Root] \in Nat /\ out[Root] <= AtMost[Root]
    BY <2>1, <2>2, OutAtMost
  <2>4. out[Root] = ran + Held(Root) /\ Held(Root) \in Nat /\ ran \in Nat /\ out[Root] \in Nat
    BY <2>1, <2>2 DEF Flow, Held, ConditionsType
  <2> QED
    BY <2>3, <2>4
<1> QED
  BY <1>1, FlowInit, FlowStep, ConditionsInvariant, PTL DEF ConditionsSpec

=============================================================================
