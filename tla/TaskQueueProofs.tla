-------------------------- MODULE TaskQueueProofs --------------------------
(***************************************************************************)
(* What TaskQueue promises of its order and of the tasks it deletes, for   *)
(* any number of pushing threads and any number of pushes.                 *)
(***************************************************************************)
EXTENDS TaskQueue, TLAPS, SequenceTheorems

(***************************************************************************)
(* The inductive strengthening of FIFO: tickets in the structure are below *)
(* the next one to be handed out, and so is the last one run.              *)
(***************************************************************************)
Issued ==
    /\ \A t \in Tickets(batch) \cup Tickets(queue) : 0 < t /\ t < next
    /\ lastRun < next

(***************************************************************************)
(* Of OnlyLateTasksDiscarded: once the serving thread has seen _exit with  *)
(* nothing left in the queue it will delete only late tasks.               *)
(***************************************************************************)
Leaving ==
    /\ worker = "clear" => leave
    /\ (worker \in {"run", "clear"} /\ leave) =>
          /\ exit
          /\ Tickets(queue) \subseteq late
    /\ owner = "polling" => ~joinable

-----------------------------------------------------------------------------

LEMMA EmptyIsSeq == <<>> \in Seq(Nat) /\ Tickets(<<>>) = {}
BY EmptySeq DEF Tickets

LEMMA TicketsOfSeq ==
  ASSUME NEW s \in Seq(Nat)
  PROVE  /\ Tickets(s) \subseteq Nat
         /\ s = <<>> => Tickets(s) = {}
         /\ \A n \in Nat : Tickets(Append(s, n)) = Tickets(s) \cup {n}
         /\ s # <<>> => Tickets(s) = Tickets(Tail(s)) \cup {Head(s)}
<1>1. Tickets(s) \subseteq Nat
  BY ElementOfSeq, LenProperties DEF Tickets
<1>2. s = <<>> => Tickets(s) = {}
  BY EmptyIsSeq
<1>3. ASSUME NEW n \in Nat PROVE Tickets(Append(s, n)) = Tickets(s) \cup {n}
  BY AppendProperties, LenProperties DEF Tickets
<1>4. ASSUME s # <<>> PROVE Tickets(s) = Tickets(Tail(s)) \cup {Head(s)}
  <2>1. /\ Len(s) \in Nat \ {0} /\ DOMAIN s = 1..Len(s)
        /\ Tail(s) \in Seq(Nat) /\ Len(Tail(s)) = Len(s) - 1
        /\ DOMAIN Tail(s) = 1..(Len(s) - 1)
        /\ Head(s) = s[1]
        /\ \A i \in 1..(Len(s) - 1) : Tail(s)[i] = s[i + 1]
    BY <1>4, EmptySeq, HeadTailProperties, LenProperties
  <2>2. ASSUME NEW t PROVE t \in Tickets(s) => t \in Tickets(Tail(s)) \cup {Head(s)}
    <3> SUFFICES ASSUME NEW i \in 1..Len(s), t = s[i], i # 1
                 PROVE  t \in Tickets(Tail(s))
      BY <2>1 DEF Tickets
    <3>1. i - 1 \in 1..(Len(s) - 1) /\ Tail(s)[i - 1] = t
      BY <2>1
    <3>2. QED
      BY <2>1, <3>1 DEF Tickets
  <2>3. ASSUME NEW t PROVE t \in Tickets(Tail(s)) \cup {Head(s)} => t \in Tickets(s)
    <3>1. Head(s) \in Tickets(s)
      BY <2>1 DEF Tickets
    <3>2. ASSUME NEW i \in 1..(Len(s) - 1) PROVE Tail(s)[i] \in Tickets(s)
      <4>1. i + 1 \in 1..Len(s) /\ Tail(s)[i] = s[i + 1]
        BY <2>1
      <4>2. QED
        BY <2>1, <4>1 DEF Tickets
    <3>3. QED
      BY <2>1, <3>1, <3>2 DEF Tickets
  <2>4. QED
    BY <2>2, <2>3
<1>5. QED
  BY <1>1, <1>2, <1>3, <1>4

\* The queue, the batch of the serving thread and the program counters keep their types,
\* whoever pushes, starts, polls, clears and stops.
THEOREM TypeCorrect == Spec => []TypeOK
<1>1. Init => TypeOK
  <2> SUFFICES ASSUME Init PROVE TypeOK
    OBVIOUS
  <2>1. queue \in Seq(Nat) /\ batch \in Seq(Nat)
    BY EmptyIsSeq DEF Init, Constructed
  <2>2. late \subseteq Nat /\ discarded \subseteq Nat
    BY DEF Init, Constructed
  <2>3. QED
    BY <2>1, <2>2 DEF Init, Constructed, TypeOK, WorkerPlaces, OwnerPlaces
<1>2. TypeOK /\ [Next]_vars => TypeOK'
  <2> SUFFICES ASSUME TypeOK, [Next]_vars PROVE TypeOK'
    OBVIOUS
  <2> USE DEF TypeOK, WorkerPlaces, OwnerPlaces, serverVars, ownerVars
  <2>1. ASSUME NEW p \in Pushers, Push(p) PROVE TypeOK'
    BY <2>1 DEF Push, Append1
  <2>2. ASSUME NEW p \in Pushers, PushNotify(p) PROVE TypeOK'
    BY <2>2 DEF PushNotify, Wakeup
  <2>3. CASE PushFromTask
    BY <2>3 DEF PushFromTask, Append1
  <2>4. CASE Owner
    <3>1. ASSUME NEW withThread \in BOOLEAN, Start(withThread) PROVE TypeOK'
      BY <3>1 DEF Start
    <3>2. CASE Stop \/ Join \/ ProcessTasksReturn
      BY <3>2 DEF Stop, Join, ProcessTasksReturn
    <3>3. CASE StopNotify
      BY <3>3 DEF StopNotify, Wakeup
    <3>4. CASE ProcessTasks \/ Clear
      BY <3>4, EmptyIsSeq DEF ProcessTasks, Clear
    <3>5. QED
      BY <2>4, <3>1, <3>2, <3>3, <3>4 DEF Owner
  <2>5. CASE Server
    <3>1. CASE GetTasks
      BY <3>1, EmptyIsSeq DEF GetTasks, TakeAll
    <3>2. CASE GetTasksAfterWait
      BY <3>2, EmptyIsSeq DEF GetTasksAfterWait, TakeAll
    <3>3. CASE RunTask
      BY <3>3, HeadTailProperties DEF RunTask
    <3>4. CASE NextTurn
      BY <3>4 DEF NextTurn
    <3>5. CASE ClearAndReturn
      BY <3>5, EmptyIsSeq, TicketsOfSeq DEF ClearAndReturn
    <3>6. QED
      BY <2>5, <3>1, <3>2, <3>3, <3>4, <3>5 DEF Server
  <2>6. CASE UNCHANGED vars
    BY <2>6 DEF vars
  <2>7. QED
    BY <2>1, <2>2, <2>3, <2>4, <2>5, <2>6 DEF Next
<1>3. QED
  BY <1>1, <1>2, PTL DEF Spec

-----------------------------------------------------------------------------

LEMMA IncreasingEmpty == Increasing(<<>>)
BY DEF Increasing

LEMMA IncreasingAppend ==
  ASSUME NEW s \in Seq(Nat), NEW n \in Nat,
         Increasing(s), \A t \in Tickets(s) : t < n
  PROVE  Increasing(Append(s, n))
<1> DEFINE a == Append(s, n)
<1>1. /\ Len(s) \in Nat /\ DOMAIN s = 1..Len(s) /\ DOMAIN a = 1..(Len(s) + 1)
      /\ a[Len(s) + 1] = n
      /\ \A i \in 1..Len(s) : a[i] = s[i]
  BY AppendProperties, LenProperties
<1>2. SUFFICES ASSUME NEW i \in 1..(Len(s) + 1), NEW j \in 1..(Len(s) + 1), i < j
               PROVE  a[i] < a[j]
  BY <1>1 DEF Increasing
<1>3. i \in 1..Len(s) /\ a[i] \in Tickets(s)
  BY <1>1, <1>2 DEF Tickets
<1>4. CASE j = Len(s) + 1
  BY <1>1, <1>3, <1>4
<1>5. CASE j # Len(s) + 1
  BY <1>1, <1>2, <1>3, <1>5 DEF Increasing
<1>6. QED
  BY <1>4, <1>5

LEMMA IncreasingTail ==
  ASSUME NEW s \in Seq(Nat), s # <<>>, Increasing(s)
  PROVE  Increasing(Tail(s)) /\ \A t \in Tickets(Tail(s)) : Head(s) < t
<1>1. /\ Len(s) \in Nat \ {0} /\ DOMAIN s = 1..Len(s)
      /\ DOMAIN Tail(s) = 1..(Len(s) - 1)
      /\ Head(s) = s[1]
      /\ \A i \in 1..(Len(s) - 1) : Tail(s)[i] = s[i + 1]
  BY EmptySeq, HeadTailProperties, LenProperties
<1>2. ASSUME NEW i \in 1..(Len(s) - 1), NEW j \in 1..(Len(s) - 1), i < j
      PROVE  Tail(s)[i] < Tail(s)[j]
  <2>1. i + 1 \in 1..Len(s) /\ j + 1 \in 1..Len(s) /\ i + 1 < j + 1
    BY <1>1, <1>2
  <2>2. QED
    BY <1>1, <2>1 DEF Increasing
<1>3. ASSUME NEW i \in 1..(Len(s) - 1) PROVE Head(s) < Tail(s)[i]
  <2>1. i + 1 \in 1..Len(s) /\ 1 \in 1..Len(s) /\ 1 < i + 1
    BY <1>1
  <2>2. QED
    BY <1>1, <2>1 DEF Increasing
<1>4. QED
  BY <1>1, <1>2, <1>3 DEF Increasing, Tickets

\* Appending the next ticket keeps the order (push(), and a push from a task).
LEMMA AppendKeepsOrder ==
  ASSUME TypeOK, FIFO, Issued, Append1, UNCHANGED <<batch, lastRun>>
  PROVE  FIFO' /\ Issued'
<1> USE DEF TypeOK, Append1
<1>1. Tickets(queue') = Tickets(queue) \cup {next} /\ Tickets(queue) \subseteq Nat
  BY TicketsOfSeq
<1>2. Increasing(queue')
  BY IncreasingAppend DEF FIFO, Issued
<1>3. Tickets(batch) \subseteq Nat
  BY TicketsOfSeq
<1>4. QED
  BY <1>1, <1>2, <1>3 DEF FIFO, Issued

\* So does moving the queue to an empty batch, or deleting it.
LEMMA TakingKeepsOrder ==
  ASSUME TypeOK, FIFO, Issued, queue' = <<>>, UNCHANGED <<lastRun, next>>,
         batch' = batch \/ batch' = queue
  PROVE  FIFO' /\ Issued'
BY EmptyIsSeq, IncreasingEmpty DEF FIFO, Issued

\* And so does running the task at the head of the batch.
LEMMA RunningKeepsOrder ==
  ASSUME TypeOK, FIFO, Issued, RunTask
  PROVE  FIFO' /\ Issued'
<1>1. /\ Tickets(batch) = Tickets(batch') \cup {lastRun'}
      /\ UNCHANGED <<queue, next>>
  BY TicketsOfSeq DEF TypeOK, RunTask
<1>2. Increasing(batch') /\ \A t \in Tickets(batch') : lastRun' < t
  BY IncreasingTail DEF TypeOK, FIFO, RunTask
<1>3. QED
  BY <1>1, <1>2 DEF FIFO, Issued

LEMMA OrderStep ==
  ASSUME TypeOK, FIFO, Issued, [Next]_vars
  PROVE  FIFO' /\ Issued'
<1> USE DEF serverVars, ownerVars
<1>1. ASSUME NEW p \in Pushers, Push(p) PROVE FIFO' /\ Issued'
  BY <1>1, AppendKeepsOrder DEF Push
<1>2. CASE PushFromTask
  BY <1>2, AppendKeepsOrder DEF PushFromTask
<1>3. ASSUME UNCHANGED <<queue, batch, lastRun, next>> PROVE FIFO' /\ Issued'
  BY <1>3 DEF FIFO, Issued
<1>4. ASSUME NEW p \in Pushers, PushNotify(p) PROVE FIFO' /\ Issued'
  BY <1>3, <1>4 DEF PushNotify
<1>5. CASE Owner
  <2>1. ASSUME NEW withThread \in BOOLEAN, Start(withThread) PROVE FIFO' /\ Issued'
    BY <1>3, <2>1 DEF Start
  <2>2. CASE Stop \/ StopNotify \/ Join \/ ProcessTasksReturn
    BY <1>3, <2>2 DEF Stop, StopNotify, Join, ProcessTasksReturn
  <2>3. CASE ProcessTasks \/ Clear
    BY <2>3, TakingKeepsOrder DEF ProcessTasks, Clear
  <2>4. QED
    BY <1>5, <2>1, <2>2, <2>3 DEF Owner
<1>6. CASE Server
  <2>1. CASE GetTasks
    BY <2>1, <1>3, TakingKeepsOrder DEF GetTasks, TakeAll
  <2>2. CASE GetTasksAfterWait
    BY <2>2, TakingKeepsOrder DEF GetTasksAfterWait, TakeAll
  <2>3. CASE RunTask
    BY <2>3, RunningKeepsOrder
  <2>4. CASE NextTurn
    BY <2>4, <1>3 DEF NextTurn
  <2>5. CASE ClearAndReturn
    BY <2>5, TakingKeepsOrder DEF ClearAndReturn
  <2>6. QED
    BY <1>6, <2>1, <2>2, <2>3, <2>4, <2>5 DEF Server
<1>7. CASE UNCHANGED vars
  BY <1>3, <1>7 DEF vars
<1>8. QED
  BY <1>1, <1>2, <1>4, <1>5, <1>6, <1>7 DEF Next

\* Every task runs at most once and in the order of the pushes, whoever pushes
\* and however often the queue is started, stopped, polled and cleared.
THEOREM TasksRunInOrder == Spec => []FIFO
<1>1. Init => FIFO /\ Issued
  BY EmptyIsSeq, IncreasingEmpty DEF Init, Constructed, FIFO, Issued
<1>2. TypeOK /\ FIFO /\ Issued /\ [Next]_vars => FIFO' /\ Issued'
  BY OrderStep
<1>3. QED
  BY <1>1, <1>2, TypeCorrect, PTL DEF Spec

-----------------------------------------------------------------------------

LEMMA LeavingStep ==
  ASSUME TypeOK, Leaving, [Next]_vars
  PROVE  Leaving'
<1> USE DEF TypeOK, serverVars, ownerVars, WorkerPlaces
<1>1. ASSUME Append1, UNCHANGED <<worker, leave, exit, owner, joinable>>
      PROVE  Leaving'
  <2>1. Tickets(queue') = Tickets(queue) \cup {next}
    BY <1>1, TicketsOfSeq DEF Append1
  <2>2. QED
    BY <1>1, <2>1 DEF Append1, Leaving
<1>2. CASE \E p \in Pushers : Push(p) \/ PushNotify(p)
  BY <1>1, <1>2 DEF Push, PushNotify, Wakeup, Leaving
<1>3. CASE PushFromTask
  BY <1>1, <1>3 DEF PushFromTask
<1>4. CASE Owner
  <2>1. ASSUME NEW withThread \in BOOLEAN, Start(withThread) PROVE Leaving'
    BY <2>1 DEF Start, Leaving
  <2>2. CASE Stop \/ Join \/ ProcessTasksReturn
    BY <2>2 DEF Stop, Join, ProcessTasksReturn, Leaving
  <2>3. CASE StopNotify
    BY <2>3 DEF StopNotify, Wakeup, Leaving
  <2>4. CASE ProcessTasks \/ Clear
    BY <2>4, EmptyIsSeq DEF ProcessTasks, Clear, Leaving
  <2>5. QED
    BY <1>4, <2>1, <2>2, <2>3, <2>4 DEF Owner
<1>5. CASE Server
  <2>1. CASE GetTasks
    BY <2>1, EmptyIsSeq DEF GetTasks, MustLeave, TakeAll, Leaving
  <2>2. CASE GetTasksAfterWait
    BY <2>2, EmptyIsSeq DEF GetTasksAfterWait, TakeAll, Leaving
  <2>3. CASE RunTask \/ NextTurn \/ ClearAndReturn
    BY <2>3, EmptyIsSeq DEF RunTask, NextTurn, ClearAndReturn, Leaving
  <2>4. QED
    BY <1>5, <2>1, <2>2, <2>3 DEF Server
<1>6. CASE UNCHANGED vars
  BY <1>6 DEF vars, Leaving
<1>7. QED
  BY <1>2, <1>3, <1>4, <1>5, <1>6 DEF Next

\* A task pushed before stop() is never among those the serving thread deletes
\* on its way out, whatever the interleaving of pushes, stop() and the thread.
THEOREM AcceptedTasksAreServed == Spec => []OnlyLateTasksDiscarded
<1>1. Init => Leaving /\ OnlyLateTasksDiscarded
  BY EmptyIsSeq DEF Init, Constructed, Leaving, OnlyLateTasksDiscarded
<1>2. TypeOK /\ Leaving /\ OnlyLateTasksDiscarded /\ [Next]_vars
         => OnlyLateTasksDiscarded'
  <2> SUFFICES ASSUME TypeOK, Leaving, OnlyLateTasksDiscarded, [Next]_vars
               PROVE  OnlyLateTasksDiscarded'
    OBVIOUS
  <2> USE DEF OnlyLateTasksDiscarded, serverVars, ownerVars
  <2>1. CASE ClearAndReturn
    BY <2>1 DEF ClearAndReturn, Leaving
  <2>2. CASE ~ClearAndReturn
    BY <2>2 DEF Next, Push, PushNotify, PushFromTask, Append1, Owner, Start, Stop,
                StopNotify, Join, ProcessTasks, ProcessTasksReturn, Clear, Server,
                GetTasks, GetTasksAfterWait, RunTask, NextTurn, vars
  <2>3. QED
    BY <2>1, <2>2
<1>3. TypeOK /\ Leaving /\ [Next]_vars => Leaving'
  BY LeavingStep
<1>4. QED
  BY <1>1, <1>2, <1>3, TypeCorrect, PTL DEF Spec
=============================================================================
