-------------------------- MODULE DispatcherProofs --------------------------
(***************************************************************************)
(* What those who hand tasks and timers to the dispatcher are promised,    *)
(* for any threads, any timers and any number of tasks.                    *)
(***************************************************************************)
EXTENDS Dispatcher, TLAPS, SequenceTheorems

(***************************************************************************)
(* The inductive strengthening, first part: the order of the tasks.  Those *)
(* of a queue were pushed in its order; those of a frame before those of   *)
(* the frames inside of it, and all of them before those in the queue.  A  *)
(* frame that is not the innermost waits in the middle of what it runs, or *)
(* has nothing left to run.                                                *)
(***************************************************************************)
Increasing(s) == \A i, j \in DOMAIN s : i < j => s[i].n < s[j].n

Held(f) == f.current = Nothing => f.batch = <<>>

FrameOK(f) ==
    /\ f \in Frame
    /\ Increasing(f.batch)
    /\ \A a \in ToSet(f.batch) : f.current.n < a.n
    /\ f.current.kind = "callback" => f.batch = <<>>

\* f is in the middle of g.
Inside(f, g) ==
    /\ Held(g)
    /\ f.current.kind # "callback"
    /\ f.current # Nothing => g.current.n < f.current.n
    /\ \A a \in ToSet(f.batch) : g.current.n < a.n /\ \A b \in ToSet(g.batch) : b.n < a.n

\* f was taken before the tasks of s were pushed.
Before(f, s) ==
    \A a \in ToSet(s) : f.current.n < a.n /\ \A b \in ToSet(f.batch) : b.n < a.n

Stack(fs, ts) ==
    /\ fs \in Seq(Frame)
    /\ \A i \in DOMAIN fs : FrameOK(fs[i]) /\ Before(fs[i], ts)
    /\ \A i, j \in DOMAIN fs : i < j => Inside(fs[i], fs[j])

Ordered ==
    /\ tasks \in Seq(Task) /\ Increasing(tasks)
    /\ Stack(frames, tasks)
    /\ waking /\ frames # <<>> => Held(frames[1])

(***************************************************************************)
(* Second part: every task that was pushed waits or was begun, not both,   *)
(* and waits once.                                                         *)
(***************************************************************************)
Counted ==
    /\ \A w \in Waiting : w \in Task /\ w.n \in 1 .. pushed /\ w.n \notin begun
    /\ \A n \in 1 .. pushed : n \in begun \/ \E w \in Waiting : w.n = n
    /\ \A w, v \in Waiting : w.n = v.n => w = v
    /\ pushed \in Nat /\ begun \subseteq 1 .. pushed
    /\ \A i \in DOMAIN frames : frames[i].current.n <= pushed

(***************************************************************************)
(* Third part: a timer is started by one task at most, which waits before  *)
(* anything happens to it; one that has fired, or was stopped by the main  *)
(* thread, is still started only if the main thread is about to stop it.   *)
(***************************************************************************)
Simple ==
    /\ mode \in {"before", "running", "ended", "draining", "final"}
    /\ broken \in BOOLEAN /\ signalled \in BOOLEAN /\ waking \in BOOLEAN
    /\ sending \subseteq Clients
    /\ added \subseteq Timers /\ timers \subseteq added /\ mine \subseteq added
    /\ fired \subseteq added /\ cancelled \subseteq mine

Starts(w) == w.kind = "start"

StartsOnce ==
    /\ \A w \in Waiting : Starts(w) => w.timer \in added \ (timers \cup fired \cup cancelled)
    /\ \A w, v \in Waiting : Starts(w) /\ Starts(v) /\ w.timer = v.timer => w = v

Stops(w, t) == w.kind = "stop" /\ w.timer = t

BatchesOf(fs) == UNION {ToSet(fs[i].batch) : i \in DOMAIN fs}

AboutToStop(t) ==
    \/ waking /\ \E w \in ToSet(tasks) : Stops(w, t)
    \/ \E w \in BatchesOf(frames) : Stops(w, t)
    \/ \E i \in DOMAIN frames : frames[i].current.kind = "callback" /\ frames[i].current.timer = t

StopsWait == \A t \in timers \cap (fired \cup cancelled) : AboutToStop(t)

Inv == Simple /\ Ordered /\ Counted /\ StartsOnce /\ StopsWait

-----------------------------------------------------------------------------
(* Sequences of tasks.                                                     *)

LEMMA SeqDomain ==
  ASSUME NEW S, NEW s \in Seq(S)
  PROVE  /\ Len(s) \in Nat /\ DOMAIN s = 1..Len(s)
         /\ \A i \in DOMAIN s : s[i] \in S
BY ElementOfSeq, LenProperties

LEMMA EmptyQueue ==
  /\ <<>> \in Seq(Task) /\ DOMAIN <<>> = {} /\ ToSet(<<>>) = {} /\ Increasing(<<>>)
<1>1. <<>> \in Seq(Task) /\ DOMAIN <<>> = {}
  BY EmptySeq, SeqDomain
<1>2. QED
  BY <1>1 DEF ToSet, Increasing

LEMMA TailOfIncreasing ==
  ASSUME NEW s \in Seq(Task), s # <<>>, Increasing(s)
  PROVE  /\ Head(s) \in Task
         /\ Tail(s) \in Seq(Task) /\ Increasing(Tail(s))
         /\ ToSet(s) = {Head(s)} \cup ToSet(Tail(s))
         /\ \A a \in ToSet(Tail(s)) : a \in Task /\ Head(s).n < a.n
<1>1. Len(s) \in Nat \ {0} /\ DOMAIN s = 1..Len(s) /\ \A i \in 1..Len(s) : s[i] \in Task
  BY SeqDomain, EmptySeq
<1>2. /\ Tail(s) \in Seq(Task) /\ Len(Tail(s)) = Len(s) - 1 /\ Head(s) = s[1]
      /\ \A i \in 1..Len(Tail(s)) : Tail(s)[i] = s[i + 1]
  BY HeadTailProperties, <1>1
<1>3. DOMAIN Tail(s) = 1..(Len(s) - 1)
  BY <1>2, SeqDomain
<1>4. Increasing(Tail(s))
  BY <1>1, <1>2, <1>3 DEF Increasing
<1>5. ASSUME NEW i \in 1..Len(s), i # 1
      PROVE  s[i] \in ToSet(Tail(s))
  <2>1. i - 1 \in DOMAIN Tail(s) /\ s[i] = Tail(s)[i - 1]
    BY <1>1, <1>2, <1>3, <1>5
  <2>2. QED
    BY <2>1 DEF ToSet
<1>6. 1 \in DOMAIN s
  BY <1>1
<1>7. \A a \in ToSet(Tail(s)) : a \in Task /\ a \in ToSet(s) /\ Head(s).n < a.n
  BY <1>1, <1>2, <1>3 DEF ToSet, Increasing
<1>8. ToSet(s) = {Head(s)} \cup ToSet(Tail(s))
  BY <1>1, <1>2, <1>5, <1>6, <1>7 DEF ToSet
<1>9. QED
  BY <1>1, <1>2, <1>4, <1>6, <1>7, <1>8

LEMMA AppendToIncreasing ==
  ASSUME NEW s \in Seq(Task), Increasing(s), NEW t \in Task,
         \A a \in ToSet(s) : a.n < t.n
  PROVE  /\ Append(s, t) \in Seq(Task) /\ Increasing(Append(s, t))
         /\ ToSet(Append(s, t)) = ToSet(s) \cup {t}
<1>1. Len(s) \in Nat /\ DOMAIN s = 1..Len(s)
  BY SeqDomain
<1>2. /\ Append(s, t) \in Seq(Task) /\ Len(Append(s, t)) = Len(s) + 1
      /\ \A i \in 1..Len(s) : Append(s, t)[i] = s[i]
      /\ Append(s, t)[Len(s) + 1] = t
  BY AppendProperties
<1>3. DOMAIN Append(s, t) = 1..(Len(s) + 1)
  BY <1>2, SeqDomain
<1>4. Increasing(Append(s, t))
  BY <1>1, <1>2, <1>3 DEF Increasing, ToSet
<1>5. ToSet(Append(s, t)) = ToSet(s) \cup {t}
  BY <1>1, <1>2, <1>3 DEF ToSet
<1>6. QED
  BY <1>2, <1>4, <1>5

(***************************************************************************)
(* What is run is a task, the callback of a timer, or nothing.             *)
(***************************************************************************)
LEMMA Currents ==
  ASSUME NEW f \in Frame
  PROVE  /\ f.batch \in Seq(Task) /\ f.current.n \in Nat
         /\ f.current.kind \in Kinds <=> f.current \in Task
         /\ f.current.kind = "callback" <=> f.current \in Callback
         /\ f.current = Nothing <=> f.current.kind = "nothing"
         /\ f.current.n = 0 <=> f.current \notin Task
         /\ f.current \in Task \/ f.current \in Callback \/ f.current = Nothing
BY DEF Frame, Task, Callback, Nothing, Kinds

LEMMA TasksAreNumbered ==
  ASSUME NEW s \in Seq(Task)
  PROVE  \A a \in ToSet(s) : a \in Task /\ a.n \in Nat \ {0}
<1>1. \A a \in ToSet(s) : a \in Task
  BY SeqDomain DEF ToSet
<1>2. QED
  BY <1>1 DEF Task

LEMMA BatchOfTasks ==
  ASSUME NEW f \in Frame
  PROVE  \A a \in ToSet(f.batch) : a \in Task /\ a.n \in Nat \ {0}
BY Currents, TasksAreNumbered

-----------------------------------------------------------------------------
(* The frames, and what a step of the main thread makes of them.           *)

OuterBatches(fs) == UNION {ToSet(fs[i].batch) : i \in DOMAIN fs \ {1}}
RunningIn(fs) == {fs[i].current.n : i \in {j \in DOMAIN fs : fs[j].current # Nothing}}
Own(f) == IF f.current = Nothing THEN {} ELSE {f.current.n}
OuterRunning(fs) == {fs[i].current.n : i \in {j \in DOMAIN fs \ {1} : fs[j].current # Nothing}}

LEMMA WaitingIs == Waiting = ToSet(tasks) \cup BatchesOf(frames) /\ Running = RunningIn(frames)
BY DEF Waiting, BatchesOf, Running, RunningIn

LEMMA FirstOfStack ==
  ASSUME NEW fs, NEW ts, Stack(fs, ts), fs # <<>>
  PROVE  /\ Len(fs) \in Nat \ {0} /\ DOMAIN fs = 1..Len(fs) /\ 1 \in DOMAIN fs
         /\ FrameOK(fs[1]) /\ Before(fs[1], ts)
         /\ BatchesOf(fs) = ToSet(fs[1].batch) \cup OuterBatches(fs)
         /\ RunningIn(fs) = OuterRunning(fs) \cup
                              Own(fs[1])
<1>1. Len(fs) \in Nat \ {0} /\ DOMAIN fs = 1..Len(fs) /\ 1 \in DOMAIN fs
  BY SeqDomain, EmptySeq DEF Stack
<1>2. BatchesOf(fs) = ToSet(fs[1].batch) \cup OuterBatches(fs)
  BY <1>1 DEF BatchesOf, OuterBatches
<1>3. RunningIn(fs) = OuterRunning(fs) \cup
                       Own(fs[1])
  BY <1>1 DEF RunningIn, OuterRunning, Own
<1>4. QED
  BY <1>1, <1>2, <1>3 DEF Stack

LEMMA EmptyStack ==
  ASSUME NEW ts
  PROVE  Stack(<<>>, ts) /\ BatchesOf(<<>>) = {} /\ RunningIn(<<>>) = {}
<1>1. <<>> \in Seq(Frame) /\ DOMAIN <<>> = {}
  BY EmptySeq, SeqDomain
<1>2. QED
  BY <1>1 DEF Stack, BatchesOf, RunningIn

(***************************************************************************)
(* The innermost frame changes.                                            *)
(***************************************************************************)
Innermost(g, fs) == [fs EXCEPT ![1] = g]

LEMMA Replaced ==
  ASSUME NEW fs, NEW ts, Stack(fs, ts), fs # <<>>, NEW g,
         FrameOK(g), Before(g, ts),
         \A j \in DOMAIN fs : 1 < j => Inside(g, fs[j]),
         NEW gs, gs = Innermost(g, fs)
  PROVE  /\ Stack(gs, ts) /\ gs # <<>> /\ gs[1] = g /\ DOMAIN gs = DOMAIN fs
         /\ BatchesOf(gs) = ToSet(g.batch) \cup OuterBatches(fs)
         /\ RunningIn(gs) = OuterRunning(fs) \cup
                              Own(g)
<1>1. Len(fs) \in Nat \ {0} /\ DOMAIN fs = 1..Len(fs) /\ 1 \in DOMAIN fs
  BY FirstOfStack
<1>2. gs \in Seq(Frame) /\ DOMAIN gs = DOMAIN fs
  BY <1>1, ExceptSeq, SeqDomain DEF Stack, FrameOK, Innermost
<1>3. gs[1] = g /\ \A i \in DOMAIN fs : i # 1 => gs[i] = fs[i]
  BY <1>1 DEF Innermost, Stack
<1>4. \A i \in DOMAIN gs : FrameOK(gs[i]) /\ Before(gs[i], ts)
  BY <1>2, <1>3 DEF Stack
<1>5. \A i, j \in DOMAIN gs : i < j => Inside(gs[i], gs[j])
  BY <1>1, <1>2, <1>3 DEF Stack
<1>6. Stack(gs, ts) /\ gs # <<>>
  BY <1>1, <1>2, <1>4, <1>5, EmptySeq, SeqDomain DEF Stack
<1>7. OuterBatches(gs) = OuterBatches(fs) /\ OuterRunning(gs) = OuterRunning(fs)
  BY <1>2, <1>3 DEF OuterBatches, OuterRunning
<1>8. QED
  BY <1>2, <1>3, <1>6, <1>7, FirstOfStack

(***************************************************************************)
(* A wakeup(), and a callback.                                             *)
(***************************************************************************)
Onto(f, fs) == <<f>> \o fs

LEMMA Pushed ==
  ASSUME NEW fs, NEW ts, Stack(fs, ts), NEW us, NEW f,
         FrameOK(f), Before(f, us),
         \A i \in DOMAIN fs : Before(fs[i], us) /\ Inside(f, fs[i]),
         NEW gs, gs = Onto(f, fs)
  PROVE  /\ Stack(gs, us) /\ gs # <<>> /\ gs[1] = f
         /\ BatchesOf(gs) = ToSet(f.batch) \cup BatchesOf(fs)
         /\ RunningIn(gs) = RunningIn(fs) \cup
                              Own(f)
         /\ DOMAIN gs = 1..(Len(fs) + 1) /\ Len(fs) \in Nat
         /\ \A i \in DOMAIN fs : i + 1 \in DOMAIN gs /\ gs[i + 1] = fs[i]
<1>1. Len(fs) \in Nat /\ DOMAIN fs = 1..Len(fs) /\ fs \in Seq(Frame)
  BY SeqDomain DEF Stack
<1>2. <<f>> \in Seq(Frame) /\ Len(<<f>>) = 1 /\ <<f>>[1] = f
  BY DEF FrameOK
<1>3. /\ gs \in Seq(Frame) /\ Len(gs) = Len(fs) + 1 /\ DOMAIN gs = 1..(Len(fs) + 1)
      /\ \A i \in DOMAIN gs : gs[i] = IF i = 1 THEN f ELSE fs[i - 1]
  BY <1>1, <1>2, ConcatProperties, SeqDomain DEF Onto
<1>4. \A i \in DOMAIN gs : i # 1 => i - 1 \in DOMAIN fs /\ gs[i] = fs[i - 1]
  BY <1>1, <1>3
<1>5. gs[1] = f /\ \A i \in DOMAIN fs : i + 1 \in DOMAIN gs \ {1} /\ gs[i + 1] = fs[i]
  BY <1>1, <1>3
<1>6. \A i \in DOMAIN gs : FrameOK(gs[i]) /\ Before(gs[i], us)
  BY <1>4, <1>5 DEF Stack
<1>7. ASSUME NEW i \in DOMAIN gs, NEW j \in DOMAIN gs, i < j
      PROVE  Inside(gs[i], gs[j])
  <2>1. j - 1 \in DOMAIN fs /\ gs[j] = fs[j - 1]
    BY <1>3, <1>4, <1>7
  <2>2. CASE i = 1
    BY <1>5, <2>1, <2>2
  <2>3. CASE i # 1
    <3>1. i - 1 \in DOMAIN fs /\ gs[i] = fs[i - 1] /\ i - 1 < j - 1
      BY <1>3, <1>4, <1>7, <2>3
    <3>2. QED
      BY <2>1, <3>1 DEF Stack
  <2>4. QED
    BY <2>2, <2>3
<1>8. Stack(gs, us) /\ gs # <<>>
  BY <1>1, <1>3, <1>6, <1>7, EmptySeq DEF Stack
<1>9. OuterBatches(gs) = BatchesOf(fs)
  <2>1. \A i \in DOMAIN gs \ {1} : ToSet(gs[i].batch) \subseteq BatchesOf(fs)
    BY <1>4 DEF BatchesOf
  <2>2. \A i \in DOMAIN fs : ToSet(fs[i].batch) \subseteq OuterBatches(gs)
    BY <1>5 DEF OuterBatches
  <2>3. QED
    BY <2>1, <2>2 DEF BatchesOf, OuterBatches
<1>10. OuterRunning(gs) = RunningIn(fs)
  <2>1. \A i \in DOMAIN gs \ {1} : gs[i].current # Nothing => gs[i].current.n \in RunningIn(fs)
    BY <1>4 DEF RunningIn
  <2>2. \A i \in DOMAIN fs : fs[i].current # Nothing => fs[i].current.n \in OuterRunning(gs)
    BY <1>5 DEF OuterRunning
  <2>3. QED
    BY <2>1, <2>2 DEF RunningIn, OuterRunning
<1>11. /\ BatchesOf(gs) = ToSet(gs[1].batch) \cup OuterBatches(gs)
       /\ RunningIn(gs) = OuterRunning(gs) \cup
                           Own(gs[1])
  BY <1>8, FirstOfStack
<1>12. BatchesOf(gs) = ToSet(f.batch) \cup BatchesOf(fs)
  BY <1>5, <1>9, <1>11
<1>13. RunningIn(gs) = RunningIn(fs) \cup
                       Own(f)
  BY <1>5, <1>10, <1>11
<1>14. QED
  BY <1>1, <1>3, <1>5, <1>8, <1>12, <1>13

(***************************************************************************)
(* A wakeup() returns.                                                     *)
(***************************************************************************)
LEMMA Returned ==
  ASSUME NEW fs, NEW ts, Stack(fs, ts), fs # <<>>, NEW gs, gs = Tail(fs)
  PROVE  /\ Stack(gs, ts)
         /\ BatchesOf(gs) = OuterBatches(fs) /\ RunningIn(gs) = OuterRunning(fs)
         /\ Len(fs) \in Nat \ {0} /\ DOMAIN gs = 1..(Len(fs) - 1)
         /\ \A i \in DOMAIN gs : i + 1 \in DOMAIN fs \ {1} /\ gs[i] = fs[i + 1]
         /\ \A i \in DOMAIN fs \ {1} : i - 1 \in DOMAIN gs /\ fs[i] = gs[i - 1]
<1>1. Len(fs) \in Nat \ {0} /\ DOMAIN fs = 1..Len(fs)
  BY FirstOfStack
<1>2. /\ gs \in Seq(Frame) /\ DOMAIN gs = 1..(Len(fs) - 1)
      /\ \A i \in DOMAIN gs : gs[i] = fs[i + 1]
  BY <1>1, HeadTailProperties, SeqDomain DEF Stack
<1>3. \A i \in DOMAIN gs : i + 1 \in DOMAIN fs \ {1}
  BY <1>1, <1>2
<1>4. \A i \in DOMAIN fs \ {1} : i - 1 \in DOMAIN gs /\ fs[i] = gs[i - 1]
  BY <1>1, <1>2
<1>5. \A i, j \in DOMAIN gs : i < j => Inside(gs[i], gs[j])
  <2> TAKE i, j \in DOMAIN gs
  <2> HAVE i < j
  <2>1. i + 1 \in DOMAIN fs /\ j + 1 \in DOMAIN fs /\ i + 1 < j + 1
    BY <1>1, <1>2, <1>3
  <2>2. QED
    BY <1>2, <2>1 DEF Stack
<1>6. Stack(gs, ts)
  BY <1>2, <1>3, <1>5 DEF Stack
<1>7. BatchesOf(gs) = OuterBatches(fs)
  <2>1. \A i \in DOMAIN gs : ToSet(gs[i].batch) \subseteq OuterBatches(fs)
    BY <1>2, <1>3 DEF OuterBatches
  <2>2. \A i \in DOMAIN fs \ {1} : ToSet(fs[i].batch) \subseteq BatchesOf(gs)
    BY <1>4 DEF BatchesOf
  <2>3. QED
    BY <2>1, <2>2 DEF BatchesOf, OuterBatches
<1>8. RunningIn(gs) = OuterRunning(fs)
  <2>1. \A i \in DOMAIN gs : gs[i].current # Nothing => gs[i].current.n \in OuterRunning(fs)
    BY <1>2, <1>3 DEF OuterRunning
  <2>2. \A i \in DOMAIN fs \ {1} : fs[i].current # Nothing => fs[i].current.n \in RunningIn(gs)
    BY <1>4 DEF RunningIn
  <2>3. QED
    BY <2>1, <2>2 DEF RunningIn, OuterRunning
<1>9. QED
  BY <1>1, <1>2, <1>3, <1>4, <1>6, <1>7, <1>8

-----------------------------------------------------------------------------
(* What the steps keep of the second and the third part.                   *)

LEMMA WaitingTasks ==
  ASSUME Inv
  PROVE  /\ \A w \in Waiting : w \in Task /\ w.n \in Nat \ {0} /\ w.n <= pushed
         /\ \A i \in DOMAIN frames : FrameOK(frames[i]) /\ frames[i].current.n \in Nat
         /\ pushed \in Nat
<1>1. \A i \in DOMAIN frames : FrameOK(frames[i]) /\ frames[i].current.n \in Nat
  BY Currents DEF Inv, Ordered, Stack, FrameOK
<1>2. QED
  BY <1>1 DEF Inv, Counted, Task

LEMMA CountedSame ==
  ASSUME Inv, Waiting' = Waiting, UNCHANGED <<pushed, begun>>,
         \A i \in DOMAIN frames' : frames'[i].current.n <= pushed
  PROVE  Counted'
BY DEF Inv, Counted

LEMMA StartsSame ==
  ASSUME Inv, Waiting' = Waiting, UNCHANGED <<timers, fired, added, cancelled>>
  PROVE  StartsOnce'
BY DEF Inv, StartsOnce

(***************************************************************************)
(* A task is handed over.                                                  *)
(***************************************************************************)
LEMMA TaskPushed ==
  ASSUME Inv, NEW kind \in Kinds, NEW timer \in Timers \cup {None}, Push(kind, timer),
         NEW new, new = [n |-> pushed + 1, kind |-> kind, timer |-> timer]
  PROVE  /\ new \in Task /\ pushed' = pushed + 1 /\ pushed' \in Nat
         /\ tasks' \in Seq(Task) /\ Increasing(tasks') /\ ToSet(tasks') = ToSet(tasks) \cup {new}
         /\ \A w \in Waiting : w.n < new.n
         /\ Stack(frames, tasks')
<1>1. tasks' = Append(tasks, new) /\ pushed' = pushed + 1
  BY DEF Push
<1>2. \A w \in Waiting : w.n \in Nat /\ w.n < pushed + 1
  BY WaitingTasks
<1>3. pushed' \in Nat /\ new \in Task
  BY <1>1, WaitingTasks DEF Task
<1>4. /\ tasks' \in Seq(Task) /\ Increasing(tasks')
      /\ ToSet(tasks') = ToSet(tasks) \cup {new}
  BY <1>1, <1>2, <1>3, WaitingIs, AppendToIncreasing DEF Inv, Ordered
<1>5. \A i \in DOMAIN frames : Before(frames[i], tasks')
  <2> TAKE i \in DOMAIN frames
  <2>1. frames[i].current.n < new.n
    BY WaitingTasks DEF Inv, Counted
  <2>2. \A b \in ToSet(frames[i].batch) : b.n < new.n
    BY <1>2, WaitingIs DEF BatchesOf
  <2>3. Before(frames[i], tasks)
    BY DEF Inv, Ordered, Stack
  <2>4. QED
    BY <1>4, <2>1, <2>2, <2>3 DEF Before
<1>6. Stack(frames, tasks')
  BY <1>5 DEF Inv, Ordered, Stack
<1>7. QED
  BY <1>1, <1>2, <1>3, <1>4, <1>6

LEMMA CountedPushed ==
  ASSUME Inv, NEW new \in Task, new.n = pushed + 1, Waiting' = Waiting \cup {new},
         pushed' = pushed + 1, begun' = begun,
         \A i \in DOMAIN frames' : frames'[i].current.n <= pushed'
  PROVE  Counted'
<1>1. \A w \in Waiting : w \in Task /\ w.n \in 1 .. pushed /\ w.n \notin begun
  BY DEF Inv, Counted
<1>2. pushed \in Nat /\ begun \subseteq 1 .. pushed
  BY DEF Inv, Counted
<1>3. \A n \in 1 .. pushed' : n \in 1 .. pushed \/ n = new.n
  BY <1>2
<1>4. \A n \in 1 .. pushed' : n \in begun' \/ \E w \in Waiting' : w.n = n
  BY <1>3 DEF Inv, Counted
<1>5. \A w, v \in Waiting' : w.n = v.n => w = v
  BY <1>1, <1>2 DEF Inv, Counted
<1>6. \A w \in Waiting' : w \in Task /\ w.n \in 1 .. pushed' /\ w.n \notin begun'
  BY <1>1, <1>2
<1>7. QED
  BY <1>2, <1>4, <1>5, <1>6 DEF Counted

LEMMA PushKeeps ==
  ASSUME Inv, NEW kind \in Kinds, NEW timer \in Timers \cup {None}, Push(kind, timer),
         UNCHANGED <<begun, frames, timers, fired>>,
         waking => waking', waking' /\ frames # <<>> => Held(frames[1]),
         \/ /\ kind = "start" /\ timer \in Timers \ added
            /\ added' = added \cup {timer} /\ cancelled' = cancelled
         \/ kind # "start" /\ added' = added /\ cancelled' = cancelled
         \/ /\ kind = "stop" /\ added' = added /\ timer \in Known /\ waking'
            /\ cancelled' = cancelled \cup ({timer} \cap mine)
  PROVE  Ordered' /\ Counted' /\ StartsOnce' /\ StopsWait'
<1> DEFINE new == [n |-> pushed + 1, kind |-> kind, timer |-> timer]
<1>1. /\ new \in Task /\ pushed' = pushed + 1 /\ pushed' \in Nat
      /\ tasks' \in Seq(Task) /\ Increasing(tasks') /\ ToSet(tasks') = ToSet(tasks) \cup {new}
      /\ Stack(frames, tasks')
  BY TaskPushed
<1>2. Waiting' = Waiting \cup {new}
  BY <1>1 DEF Waiting
<1>3. new.n = pushed + 1 /\ new.kind = kind /\ new.timer = timer
  OBVIOUS
<1> HIDE DEF new
<1>4. Ordered'
  BY <1>1 DEF Ordered
<1>5. Counted'
  <2>1. \A i \in DOMAIN frames' : frames'[i].current.n <= pushed'
    BY <1>1, WaitingTasks DEF Inv, Counted
  <2>2. QED
    BY <1>1, <1>2, <1>3, <2>1, CountedPushed
<1>6. StartsOnce'
  <2>1. /\ \A w \in Waiting : Starts(w) => w.timer \in added \ (timers \cup fired \cup cancelled)
        /\ \A w, v \in Waiting : Starts(w) /\ Starts(v) /\ w.timer = v.timer => w = v
    BY DEF Inv, StartsOnce
  <2>2. CASE /\ kind = "start" /\ timer \in Timers \ added
             /\ added' = added \cup {timer} /\ cancelled' = cancelled
    <3>1. timer \notin timers \cup fired \cup cancelled
      BY <2>2 DEF Inv, Simple
    <3>2. \A w \in Waiting : Starts(w) => w.timer # timer
      BY <2>1, <2>2
    <3>3. QED
      BY <1>2, <1>3, <2>1, <2>2, <3>1, <3>2 DEF StartsOnce
  <2>3. CASE kind # "start" /\ added' = added /\ cancelled' = cancelled
    BY <1>2, <1>3, <2>1, <2>3 DEF StartsOnce, Starts
  <2>4. CASE /\ kind = "stop" /\ added' = added /\ timer \in Known /\ waking'
             /\ cancelled' = cancelled \cup ({timer} \cap mine)
    <3>1. \A w \in Waiting : Starts(w) => w.timer \notin {timer} \cap mine
      BY <2>4 DEF Known, Starts
    <3>2. QED
      BY <1>2, <1>3, <2>1, <2>4, <3>1 DEF StartsOnce, Starts
  <2>5. QED
    BY <2>2, <2>3, <2>4
<1>7. StopsWait'
  <2> SUFFICES ASSUME NEW t \in timers' \cap (fired' \cup cancelled')
               PROVE  AboutToStop(t)'
    BY DEF StopsWait
  <2>1. CASE t \in fired \cup cancelled
    <3>1. AboutToStop(t)
      BY <2>1 DEF Inv, StopsWait
    <3>2. QED
      BY <1>1, <3>1 DEF AboutToStop
  <2>2. CASE t \notin fired \cup cancelled
    <3>1. kind = "stop" /\ t = timer /\ waking'
      BY <2>2
    <3>2. Stops(new, t) /\ new \in ToSet(tasks')
      BY <1>1, <1>3, <3>1 DEF Stops
    <3>3. QED
      BY <3>1, <3>2 DEF AboutToStop
  <2>3. QED
    BY <2>1, <2>2
<1>8. QED
  BY <1>4, <1>5, <1>6, <1>7

-----------------------------------------------------------------------------
(* The steps.                                                              *)

LEMMA CallbackRunsAlone ==
  ASSUME Inv, frames # <<>>, frames[1].current.kind = "callback"
  PROVE  /\ DOMAIN frames = {1} /\ frames[1].batch = <<>> /\ frames[1].current \in Callback
         /\ OuterBatches(frames) = {} /\ OuterRunning(frames) = {}
<1>1. Len(frames) \in Nat \ {0} /\ DOMAIN frames = 1..Len(frames) /\ FrameOK(frames[1])
  BY FirstOfStack DEF Inv, Ordered
<1>2. \A j \in DOMAIN frames : ~(1 < j)
  BY <1>1 DEF Inv, Ordered, Stack, Inside
<1>3. DOMAIN frames = {1}
  BY <1>1, <1>2
<1>4. frames[1].batch = <<>> /\ frames[1].current \in Callback
  BY <1>1, Currents DEF FrameOK
<1>5. QED
  BY <1>3, <1>4 DEF OuterBatches, OuterRunning

LEMMA EndCallbackKeeps ==
  ASSUME Inv, EndCallback
  PROVE  Ordered' /\ Counted' /\ StartsOnce' /\ StopsWait'
<1> DEFINE f == frames[1]
           g == [f EXCEPT !.current = Nothing]
           timer == f.current.timer
           new == [n |-> pushed + 1, kind |-> "stop", timer |-> timer]
<1>1. /\ frames # <<>> /\ f.current.kind = "callback" /\ Push("stop", timer) /\ waking'
      /\ frames' = [frames EXCEPT ![1] = g]
      /\ UNCHANGED <<begun, timers, added, mine, fired, cancelled>>
  BY DEF EndCallback, timerVars
<1>2. /\ DOMAIN frames = {1} /\ f.batch = <<>> /\ f.current \in Callback
      /\ OuterBatches(frames) = {}
  BY <1>1, CallbackRunsAlone
<1>3. timer \in Timers \cup {None} /\ "stop" \in Kinds
  BY <1>2 DEF Callback, Kinds
<1>4. /\ new \in Task /\ pushed' = pushed + 1 /\ pushed' \in Nat
      /\ tasks' \in Seq(Task) /\ Increasing(tasks') /\ ToSet(tasks') = ToSet(tasks) \cup {new}
      /\ Stack(frames, tasks')
  BY <1>1, <1>3, TaskPushed
<1>5. f \in Frame /\ Before(f, tasks')
  BY <1>2, <1>4 DEF Stack, FrameOK
<1>6. g \in Frame /\ g.batch = <<>> /\ g.current = Nothing /\ Nothing.n = 0
      /\ Nothing.kind = "nothing"
  BY <1>2, <1>5 DEF Frame, Nothing
<1> HIDE DEF g
<1>7. FrameOK(g) /\ Before(g, tasks')
  <2>1. \A a \in ToSet(tasks') : a.n \in Nat \ {0}
    BY <1>4, TasksAreNumbered
  <2>2. QED
    BY <1>6, <2>1, EmptyQueue DEF FrameOK, Before
<1>8. /\ Stack(frames', tasks') /\ frames'[1] = g /\ DOMAIN frames' = {1}
      /\ BatchesOf(frames') = {}
  <2>1. \A j \in DOMAIN frames : ~(1 < j)
    BY <1>2
  <2>2. /\ Stack(frames', tasks') /\ frames'[1] = g /\ DOMAIN frames' = DOMAIN frames
        /\ BatchesOf(frames') = ToSet(g.batch) \cup OuterBatches(frames)
    <3>1. frames' = Innermost(g, frames)
      BY <1>1 DEF Innermost
    <3>2. QED
      BY <1>1, <1>4, <1>7, <2>1, <3>1, Replaced
  <2>3. QED
    BY <1>2, <1>6, <2>2, EmptyQueue
<1>9. BatchesOf(frames) = {}
  BY <1>2, <1>4, <1>1, FirstOfStack, EmptyQueue
<1>10. Waiting' = Waiting \cup {new}
  BY <1>4, <1>8, <1>9 DEF Waiting, BatchesOf
<1>11. new.n = pushed + 1 /\ new.kind = "stop" /\ new.timer = timer
  OBVIOUS
<1> HIDE DEF new
<1>12. Ordered'
  BY <1>4, <1>6, <1>8 DEF Ordered, Held
<1>13. Counted'
  <2>1. \A i \in DOMAIN frames' : frames'[i].current = Nothing
    BY <1>6, <1>8
  <2>2. \A i \in DOMAIN frames' : frames'[i].current.n <= pushed'
    BY <1>4, <1>6, <2>1
  <2>3. QED
    BY <1>1, <1>4, <1>10, <1>11, <2>2, CountedPushed
<1>14. StartsOnce'
  BY <1>1, <1>10, <1>11 DEF Inv, StartsOnce, Starts
<1>15. StopsWait'
  <2> SUFFICES ASSUME NEW t \in timers \cap (fired \cup cancelled)
               PROVE  AboutToStop(t)'
    BY <1>1 DEF StopsWait
  <2>1. AboutToStop(t)
    BY DEF Inv, StopsWait
  <2>2. CASE \E w \in ToSet(tasks) : Stops(w, t)
    BY <1>1, <1>4, <2>2 DEF AboutToStop
  <2>3. CASE t = timer
    <3>1. Stops(new, t) /\ new \in ToSet(tasks')
      BY <1>4, <1>11, <2>3 DEF Stops
    <3>2. QED
      BY <1>1, <3>1 DEF AboutToStop
  <2>4. QED
    BY <1>2, <1>9, <2>1, <2>2, <2>3 DEF AboutToStop
<1>16. QED
  BY <1>12, <1>13, <1>14, <1>15

(***************************************************************************)
(* The main thread takes the whole queue.                                  *)
(***************************************************************************)
LEMMA TakeAllKeeps ==
  ASSUME Inv, TakeAll, waking' = FALSE, frames # <<>> => Held(frames[1]),
         UNCHANGED <<pushed, begun, timers, added, mine, fired, cancelled>>
  PROVE  /\ Ordered' /\ Counted' /\ StartsOnce' /\ StopsWait'
         /\ RunningIn(frames') = RunningIn(frames)
<1> DEFINE f == [batch |-> tasks, current |-> Nothing]
<1>1. frames' = Onto(f, frames) /\ tasks' = <<>>
  BY DEF TakeAll, Onto
<1>2. f \in Frame /\ f.batch = tasks /\ f.current = Nothing /\ Nothing.n = 0
      /\ Nothing.kind = "nothing"
  BY DEF Frame, Nothing, Inv, Ordered
<1> HIDE DEF f
<1>3. \A a \in ToSet(tasks) : a.n \in Nat \ {0}
  BY TasksAreNumbered DEF Inv, Ordered
<1>4. FrameOK(f) /\ Before(f, tasks')
  BY <1>1, <1>2, <1>3, EmptyQueue DEF FrameOK, Before, Inv, Ordered
<1>5. \A i \in DOMAIN frames : Before(frames[i], tasks') /\ Inside(f, frames[i])
  <2> TAKE i \in DOMAIN frames
  <2>1. Held(frames[i])
    <3>1. DOMAIN frames = 1..Len(frames) /\ Len(frames) \in Nat \ {0}
      BY SeqDomain, EmptySeq DEF Inv, Ordered, Stack
    <3>2. CASE i = 1
      BY <3>1, <3>2, EmptyQueue
    <3>3. CASE i # 1
      BY <3>1, <3>3 DEF Inv, Ordered, Stack, Inside
    <3>4. QED
      BY <3>2, <3>3
  <2>2. Before(frames[i], tasks)
    BY DEF Inv, Ordered, Stack
  <2>3. QED
    BY <1>1, <1>2, <2>1, <2>2, EmptyQueue DEF Before, Inside
<1>6. /\ Stack(frames', tasks')
      /\ BatchesOf(frames') = ToSet(tasks) \cup BatchesOf(frames)
      /\ RunningIn(frames') = RunningIn(frames)
      /\ DOMAIN frames' = 1..(Len(frames) + 1) /\ Len(frames) \in Nat /\ frames'[1] = f
      /\ \A i \in DOMAIN frames : i + 1 \in DOMAIN frames' /\ frames'[i + 1] = frames[i]
  <2>1. Stack(frames, tasks)
    BY DEF Inv, Ordered
  <2>2. /\ Stack(frames', tasks') /\ frames'[1] = f
        /\ BatchesOf(frames') = ToSet(f.batch) \cup BatchesOf(frames)
        /\ RunningIn(frames') = RunningIn(frames) \cup
                                Own(f)
        /\ DOMAIN frames' = 1..(Len(frames) + 1) /\ Len(frames) \in Nat
        /\ \A i \in DOMAIN frames : i + 1 \in DOMAIN frames' /\ frames'[i + 1] = frames[i]
    BY <1>1, <1>4, <1>5, <2>1, Pushed
  <2>3. QED
    BY <1>2, <2>2 DEF Own
<1>7. Waiting' = Waiting
  BY <1>1, <1>6, EmptyQueue DEF Waiting, BatchesOf
<1>8. Ordered'
  BY <1>1, <1>6, EmptyQueue DEF Ordered
<1>9. Counted'
  <2>1. \A i \in DOMAIN frames' : i = 1 \/ (i - 1 \in DOMAIN frames /\ frames'[i] = frames[i - 1])
    BY <1>6, SeqDomain DEF Inv, Ordered, Stack
  <2>2. \A i \in DOMAIN frames' : frames'[i].current.n <= pushed
    BY <1>2, <1>6, <2>1, WaitingTasks DEF Inv, Counted
  <2>3. QED
    BY <1>7, <2>2, CountedSame
<1>10. StartsOnce'
  BY <1>7, StartsSame
<1>11. StopsWait'
  <2> SUFFICES ASSUME NEW t \in timers \cap (fired \cup cancelled)
               PROVE  AboutToStop(t)'
    BY DEF StopsWait
  <2>1. AboutToStop(t)
    BY DEF Inv, StopsWait
  <2>2. CASE \E i \in DOMAIN frames : frames[i].current.kind = "callback" /\ frames[i].current.timer = t
    BY <1>6, <2>2 DEF AboutToStop
  <2>3. QED
    BY <1>6, <2>1, <2>2 DEF AboutToStop
<1>12. QED
  BY <1>6, <1>8, <1>9, <1>10, <1>11

(***************************************************************************)
(* The next task of the innermost frame is begun.                          *)
(***************************************************************************)
LEMMA NextTask ==
  ASSUME Inv, RunTask, NEW task, task = Head(frames[1].batch)
  PROVE  /\ task \in Task /\ task \in Waiting /\ Waiting' = Waiting \ {task}
         /\ frames # <<>> /\ frames[1].current = Nothing /\ waking = FALSE
         /\ Ordered'
         /\ BatchesOf(frames') = BatchesOf(frames) \ {task}
         /\ Running' = Running \cup {task.n} /\ \A k \in Running : k < task.n
         /\ \A w \in Waiting : w # task => w.n > task.n \/ w \in OuterBatches(frames)
         /\ \A i \in DOMAIN frames : i # 1 => i \in DOMAIN frames' /\ frames'[i] = frames[i]
         /\ \A i \in DOMAIN frames' : frames'[i].current.n <= pushed
<1> DEFINE f == frames[1]
           g == [f EXCEPT !.batch = Tail(@), !.current = task]
<1>1. /\ ~waking /\ frames # <<>> /\ f.current = Nothing /\ f.batch # <<>>
      /\ frames' = [frames EXCEPT ![1] = g] /\ UNCHANGED <<tasks, pushed, waking>>
  BY DEF RunTask, queueVars
<1>2. /\ Len(frames) \in Nat \ {0} /\ DOMAIN frames = 1..Len(frames) /\ 1 \in DOMAIN frames
      /\ FrameOK(f) /\ Before(f, tasks)
      /\ BatchesOf(frames) = ToSet(f.batch) \cup OuterBatches(frames)
      /\ RunningIn(frames) = OuterRunning(frames)
      /\ Stack(frames, tasks)
  BY <1>1, FirstOfStack DEF Inv, Ordered, Own
<1>3. f.batch \in Seq(Task) /\ Increasing(f.batch) /\ f \in Frame
  BY <1>2, Currents DEF FrameOK
<1>4. /\ task \in Task /\ Tail(f.batch) \in Seq(Task) /\ Increasing(Tail(f.batch))
      /\ ToSet(f.batch) = {task} \cup ToSet(Tail(f.batch))
      /\ \A a \in ToSet(Tail(f.batch)) : a \in Task /\ task.n < a.n
  BY <1>1, <1>3, TailOfIncreasing
<1>5. task.n \in Nat \ {0} /\ task.kind \in Kinds /\ task # Nothing /\ task.kind # "callback"
  BY <1>4 DEF Task, Nothing, Kinds
<1>6. g \in Frame /\ g.batch = Tail(f.batch) /\ g.current = task
  BY <1>3, <1>4 DEF Frame
<1> HIDE DEF g
<1>7. FrameOK(g) /\ Before(g, tasks)
  BY <1>2, <1>4, <1>5, <1>6 DEF FrameOK, Before
<1>8. ASSUME NEW j \in DOMAIN frames, 1 < j
      PROVE  /\ Inside(g, frames[j]) /\ frames[j].current.n < task.n
             /\ \A b \in ToSet(frames[j].batch) : b.n < task.n
  <2>1. Inside(f, frames[j])
    BY <1>2, <1>8 DEF Stack
  <2>2. QED
    BY <1>4, <1>5, <1>6, <2>1 DEF Inside
<1>9. /\ Stack(frames', tasks) /\ frames'[1] = g /\ DOMAIN frames' = DOMAIN frames
      /\ BatchesOf(frames') = ToSet(g.batch) \cup OuterBatches(frames)
      /\ RunningIn(frames') = OuterRunning(frames) \cup
                              Own(g)
  <2>1. \A j \in DOMAIN frames : 1 < j => Inside(g, frames[j])
    BY <1>8
  <2>2. frames' = Innermost(g, frames)
    BY <1>1 DEF Innermost
  <2>3. Stack(frames, tasks) /\ frames # <<>> /\ FrameOK(g) /\ Before(g, tasks)
    BY <1>1, <1>2, <1>7
  <2>4. QED
    BY <2>1, <2>2, <2>3, Replaced
<1>10. \A b \in OuterBatches(frames) : b.n < task.n
  <2> TAKE b \in OuterBatches(frames)
  <2>1. PICK j \in DOMAIN frames \ {1} : b \in ToSet(frames[j].batch)
    BY DEF OuterBatches
  <2>2. 1 < j
    BY <1>2, <2>1
  <2>3. QED
    BY <1>8, <2>1, <2>2
<1>11. \A k \in OuterRunning(frames) : k < task.n
  <2> TAKE k \in OuterRunning(frames)
  <2>1. PICK j \in DOMAIN frames \ {1} : k = frames[j].current.n
    BY DEF OuterRunning
  <2>2. 1 < j
    BY <1>2, <2>1
  <2>3. QED
    BY <1>8, <2>1, <2>2
<1>12. \A a \in ToSet(tasks) : task.n < a.n
  BY <1>2, <1>4 DEF Before
<1>13. /\ task \notin ToSet(tasks) /\ task \notin ToSet(Tail(f.batch))
       /\ task \notin OuterBatches(frames)
  BY <1>4, <1>5, <1>10, <1>12
<1>14. BatchesOf(frames') = BatchesOf(frames) \ {task}
  BY <1>2, <1>4, <1>6, <1>9, <1>13
<1>15. Waiting = ToSet(tasks) \cup BatchesOf(frames) /\ Waiting' = ToSet(tasks) \cup BatchesOf(frames')
  BY <1>1 DEF Waiting, BatchesOf
<1>16. Waiting' = Waiting \ {task} /\ task \in Waiting
  BY <1>2, <1>4, <1>13, <1>14, <1>15
<1>17. Running' = Running \cup {task.n} /\ \A k \in Running : k < task.n
  BY <1>2, <1>5, <1>6, <1>9, <1>11 DEF Running, RunningIn, Own
<1>18. \A w \in Waiting : w # task => w.n > task.n \/ w \in OuterBatches(frames)
  <2>1. \A w \in Waiting : w.n \in Nat
    BY WaitingTasks
  <2>2. QED
    BY <1>2, <1>4, <1>5, <1>12, <1>15, <2>1
<1>19. Ordered'
  BY <1>1, <1>9 DEF Inv, Ordered
<1>20. \A i \in DOMAIN frames : i # 1 => i \in DOMAIN frames' /\ frames'[i] = frames[i]
  BY <1>1, <1>9
<1>21. \A i \in DOMAIN frames' : frames'[i].current.n <= pushed
  <2>1. task.n <= pushed
    BY <1>16, WaitingTasks
  <2>2. QED
    BY <1>6, <1>9, <1>20, <2>1 DEF Inv, Counted
<1>22. waking = FALSE
  BY <1>1 DEF Inv, Simple
<1>23. QED
  BY <1>1, <1>4, <1>14, <1>16, <1>17, <1>18, <1>19, <1>20, <1>21, <1>22

LEMMA RunTaskKeeps ==
  ASSUME Inv, RunTask
  PROVE  Ordered' /\ Counted' /\ StartsOnce' /\ StopsWait'
<1> DEFINE task == Head(frames[1].batch)
<1>1. /\ task \in Task /\ task \in Waiting /\ Waiting' = Waiting \ {task}
      /\ frames # <<>> /\ frames[1].current = Nothing /\ waking = FALSE /\ Ordered'
      /\ BatchesOf(frames') = BatchesOf(frames) \ {task}
      /\ \A i \in DOMAIN frames : i # 1 => i \in DOMAIN frames' /\ frames'[i] = frames[i]
      /\ \A i \in DOMAIN frames' : frames'[i].current.n <= pushed
  BY NextTask
<1>2. /\ begun' = begun \cup {task.n} /\ Effect(task) /\ pushed' = pushed
      /\ UNCHANGED <<added, mine, fired, cancelled>>
  BY DEF RunTask, queueVars
<1> HIDE DEF task
<1>3. timers' = CASE task.kind = "start" -> timers \cup {task.timer}
                  [] task.kind = "stop" -> timers \ {task.timer}
                  [] OTHER -> timers
  BY <1>2 DEF Effect
<1>4. /\ \A w \in Waiting : w \in Task /\ w.n \in 1 .. pushed /\ w.n \notin begun
      /\ \A w, v \in Waiting : w.n = v.n => w = v
  BY DEF Inv, Counted
<1>5. Counted'
  <2>1. \A w \in Waiting' : w \in Task /\ w.n \in 1 .. pushed' /\ w.n \notin begun'
    BY <1>1, <1>2, <1>4
  <2>2. \A n \in 1 .. pushed' : n \in begun' \/ \E w \in Waiting' : w.n = n
    BY <1>1, <1>2 DEF Inv, Counted
  <2>3. begun' \subseteq 1 .. pushed' /\ pushed' \in Nat
    BY <1>1, <1>2, <1>4 DEF Inv, Counted
  <2>4. QED
    BY <1>1, <1>2, <1>4, <2>1, <2>2, <2>3 DEF Counted
<1>6. /\ \A w \in Waiting : Starts(w) => w.timer \in added \ (timers \cup fired \cup cancelled)
      /\ \A w, v \in Waiting : Starts(w) /\ Starts(v) /\ w.timer = v.timer => w = v
  BY DEF Inv, StartsOnce
<1>7. \A t \in timers' : t \in timers \/ (Starts(task) /\ task.timer = t)
  BY <1>3 DEF Starts
<1>8. StartsOnce'
  BY <1>1, <1>2, <1>6, <1>7 DEF StartsOnce
<1>9. StopsWait'
  <2> SUFFICES ASSUME NEW t \in timers' \cap (fired \cup cancelled)
               PROVE  AboutToStop(t)'
    BY <1>2 DEF StopsWait
  <2>1. t \in timers
    BY <1>1, <1>6, <1>7
  <2>2. ~Stops(task, t)
    BY <1>3 DEF Stops
  <2>3. AboutToStop(t)
    BY <2>1 DEF Inv, StopsWait
  <2>4. CASE \E w \in BatchesOf(frames) : Stops(w, t)
    <3>1. PICK w \in BatchesOf(frames) : Stops(w, t)
      BY <2>4
    <3>2. w \in BatchesOf(frames')
      BY <1>1, <2>2, <3>1
    <3>3. QED
      BY <3>1, <3>2 DEF AboutToStop
  <2>5. CASE \E i \in DOMAIN frames : frames[i].current.kind = "callback" /\ frames[i].current.timer = t
    <3>1. PICK i \in DOMAIN frames : frames[i].current.kind = "callback" /\ frames[i].current.timer = t
      BY <2>5
    <3>2. i # 1
      BY <1>1, <3>1 DEF Nothing
    <3>3. QED
      BY <1>1, <3>1, <3>2 DEF AboutToStop
  <2>6. QED
    BY <1>1, <2>3, <2>4, <2>5 DEF AboutToStop
<1>10. QED
  BY <1>1, <1>5, <1>8, <1>9

(***************************************************************************)
(* A task ends, and a wakeup() does.                                       *)
(***************************************************************************)
LEMMA EndTaskKeeps ==
  ASSUME Inv, EndTask
  PROVE  /\ Ordered' /\ Counted' /\ StartsOnce' /\ StopsWait'
         /\ \E n \in Running : (\A k \in Running : k <= n) /\ Running' = Running \ {n}
<1> DEFINE f == frames[1]
           g == [f EXCEPT !.current = Nothing]
<1>1. /\ ~waking /\ frames # <<>> /\ f.current.kind \in Kinds
      /\ frames' = [frames EXCEPT ![1] = g]
      /\ UNCHANGED <<tasks, pushed, waking, begun, timers, added, mine, fired, cancelled>>
  BY DEF EndTask, queueVars, timerVars
<1>2. /\ Len(frames) \in Nat \ {0} /\ DOMAIN frames = 1..Len(frames) /\ 1 \in DOMAIN frames
      /\ FrameOK(f) /\ Before(f, tasks) /\ Stack(frames, tasks)
      /\ BatchesOf(frames) = ToSet(f.batch) \cup OuterBatches(frames)
      /\ RunningIn(frames) = OuterRunning(frames) \cup
                             Own(f)
  BY <1>1, FirstOfStack DEF Inv, Ordered
<1>3. f \in Frame /\ f.current \in Task /\ f.current # Nothing /\ f.current.n \in Nat
  BY <1>1, <1>2, Currents DEF FrameOK, Kinds
<1>4. g \in Frame /\ g.batch = f.batch /\ g.current = Nothing
      /\ Nothing.n = 0 /\ Nothing.kind = "nothing"
  BY <1>3 DEF Frame, Nothing
<1> HIDE DEF g
<1>5. FrameOK(g) /\ Before(g, tasks)
  <2>1. /\ \A a \in ToSet(f.batch) : a.n \in Nat \ {0}
        /\ \A a \in ToSet(tasks) : a.n \in Nat \ {0}
    BY <1>3, BatchOfTasks, TasksAreNumbered DEF Inv, Ordered
  <2>2. QED
    BY <1>2, <1>4, <2>1 DEF FrameOK, Before
<1>6. ASSUME NEW j \in DOMAIN frames, 1 < j
      PROVE  Inside(g, frames[j]) /\ frames[j].current.n < f.current.n
  <2>1. Inside(f, frames[j])
    BY <1>2, <1>6 DEF Stack
  <2>2. QED
    BY <1>3, <1>4, <2>1 DEF Inside
<1>7. /\ Stack(frames', tasks) /\ frames'[1] = g /\ DOMAIN frames' = DOMAIN frames
      /\ BatchesOf(frames') = ToSet(g.batch) \cup OuterBatches(frames)
      /\ RunningIn(frames') = OuterRunning(frames) \cup
                              Own(g)
  <2>1. \A j \in DOMAIN frames : 1 < j => Inside(g, frames[j])
    BY <1>6
  <2>2. frames' = Innermost(g, frames)
    BY <1>1 DEF Innermost
  <2>3. Stack(frames, tasks) /\ frames # <<>> /\ FrameOK(g) /\ Before(g, tasks)
    BY <1>1, <1>2, <1>5
  <2>4. QED
    BY <2>1, <2>2, <2>3, Replaced
<1>8. BatchesOf(frames') = BatchesOf(frames)
  BY <1>2, <1>4, <1>7
<1>9. Waiting' = Waiting
  BY <1>1, <1>8 DEF Waiting, BatchesOf
<1>10. \A i \in DOMAIN frames : i # 1 => frames'[i] = frames[i]
  BY <1>1
<1>11. Ordered'
  BY <1>1, <1>7 DEF Inv, Ordered
<1>12. Counted'
  <2>1. 0 <= pushed
    BY WaitingTasks
  <2>2. \A i \in DOMAIN frames' : frames'[i].current.n <= pushed
    BY <1>4, <1>7, <1>10, <2>1 DEF Inv, Counted
  <2>3. QED
    BY <1>1, <1>9, <2>2, CountedSame
<1>13. StartsOnce'
  BY <1>1, <1>9, StartsSame
<1>14. StopsWait'
  <2> SUFFICES ASSUME NEW t \in timers \cap (fired \cup cancelled)
               PROVE  AboutToStop(t)'
    BY <1>1 DEF StopsWait
  <2>1. AboutToStop(t)
    BY DEF Inv, StopsWait
  <2>2. ASSUME NEW i \in DOMAIN frames,
               frames[i].current.kind = "callback", frames[i].current.timer = t
        PROVE  AboutToStop(t)'
    <3>1. i # 1
      BY <1>1, <2>2 DEF Kinds
    <3>2. QED
      BY <1>7, <1>10, <2>2, <3>1 DEF AboutToStop
  <2>3. QED
    BY <1>1, <1>8, <2>1, <2>2 DEF AboutToStop
<1>15. \A k \in OuterRunning(frames) : k < f.current.n /\ k \in Nat
  <2> TAKE k \in OuterRunning(frames)
  <2>1. PICK j \in DOMAIN frames \ {1} : k = frames[j].current.n
    BY DEF OuterRunning
  <2>2. 1 < j
    BY <1>2, <2>1
  <2>3. QED
    BY <1>6, <2>1, <2>2, WaitingTasks
<1>16. Running = OuterRunning(frames) \cup {f.current.n} /\ Running' = OuterRunning(frames)
  BY <1>2, <1>3, <1>4, <1>7 DEF Running, RunningIn, Own
<1>17. \E n \in Running : (\A k \in Running : k <= n) /\ Running' = Running \ {n}
  <2>1. f.current.n \notin OuterRunning(frames)
    BY <1>3, <1>15
  <2>2. \A k \in Running : k <= f.current.n
    BY <1>3, <1>15, <1>16
  <2>3. QED
    BY <1>16, <2>1, <2>2
<1>18. QED
  BY <1>11, <1>12, <1>13, <1>14, <1>17

LEMMA WakeupReturnsKeeps ==
  ASSUME Inv, WakeupReturns
  PROVE  Ordered' /\ Counted' /\ StartsOnce' /\ StopsWait' /\ Running' = Running
<1>1. /\ ~waking /\ frames # <<>> /\ frames[1].current = Nothing /\ frames[1].batch = <<>>
      /\ frames' = Tail(frames)
      /\ UNCHANGED <<tasks, pushed, waking, begun, timers, added, mine, fired, cancelled>>
  BY DEF WakeupReturns, queueVars, timerVars
<1>2. Stack(frames, tasks) /\ frames # <<>>
  BY <1>1 DEF Inv, Ordered
<1>3. /\ Stack(frames', tasks)
      /\ BatchesOf(frames') = OuterBatches(frames) /\ RunningIn(frames') = OuterRunning(frames)
      /\ Len(frames) \in Nat \ {0} /\ DOMAIN frames' = 1..(Len(frames) - 1)
      /\ \A i \in DOMAIN frames' : i + 1 \in DOMAIN frames \ {1} /\ frames'[i] = frames[i + 1]
      /\ \A i \in DOMAIN frames \ {1} : i - 1 \in DOMAIN frames' /\ frames[i] = frames'[i - 1]
  <2>1. frames' = Tail(frames)
    BY <1>1
  <2>2. /\ Stack(frames', tasks)
        /\ BatchesOf(frames') = OuterBatches(frames) /\ RunningIn(frames') = OuterRunning(frames)
    BY <1>2, <2>1, Returned
  <2>3. Len(frames) \in Nat \ {0} /\ DOMAIN frames' = 1..(Len(frames) - 1)
    BY <1>2, <2>1, Returned
  <2>4. \A i \in DOMAIN frames' : i + 1 \in DOMAIN frames \ {1} /\ frames'[i] = frames[i + 1]
    BY <1>2, <2>1, Returned
  <2>5. \A i \in DOMAIN frames \ {1} : i - 1 \in DOMAIN frames' /\ frames[i] = frames'[i - 1]
    BY <1>2, <2>1, Returned
  <2>6. QED
    BY <2>2, <2>3, <2>4, <2>5
<1>4. /\ BatchesOf(frames) = OuterBatches(frames) /\ RunningIn(frames) = OuterRunning(frames)
  BY <1>1, <1>2, FirstOfStack, EmptyQueue DEF Own
<1>5. Waiting' = Waiting /\ Running' = Running
  BY <1>1, <1>3, <1>4 DEF Waiting, BatchesOf, Running, RunningIn
<1>6. Ordered'
  BY <1>1, <1>3 DEF Inv, Ordered
<1>7. Counted'
  <2>1. \A i \in DOMAIN frames' : frames'[i].current.n <= pushed
    BY <1>3 DEF Inv, Counted
  <2>2. QED
    BY <1>1, <1>5, <2>1, CountedSame
<1>8. StartsOnce'
  BY <1>1, <1>5, StartsSame
<1>9. StopsWait'
  <2> SUFFICES ASSUME NEW t \in timers \cap (fired \cup cancelled)
               PROVE  AboutToStop(t)'
    BY <1>1 DEF StopsWait
  <2>1. AboutToStop(t)
    BY DEF Inv, StopsWait
  <2>2. ASSUME NEW i \in DOMAIN frames,
               frames[i].current.kind = "callback", frames[i].current.timer = t
        PROVE  AboutToStop(t)'
    <3>1. i # 1
      BY <1>1, <2>2 DEF Nothing
    <3>2. i - 1 \in DOMAIN frames' /\ frames[i] = frames'[i - 1]
      BY <1>3, <3>1
    <3>3. QED
      BY <2>2, <3>2 DEF AboutToStop
  <2>3. QED
    BY <1>1, <1>3, <1>4, <2>1, <2>2 DEF AboutToStop
<1>10. QED
  BY <1>5, <1>6, <1>7, <1>8, <1>9

(***************************************************************************)
(* A frame when there is none: a callback, and a task that finalize() runs. *)
(***************************************************************************)
LEMMA OneFrame ==
  ASSUME NEW f, FrameOK(f), NEW ts, Before(f, ts), NEW gs, gs = <<f>>
  PROVE  /\ Stack(gs, ts) /\ gs[1] = f /\ DOMAIN gs = {1}
         /\ BatchesOf(gs) = ToSet(f.batch) /\ RunningIn(gs) = Own(f)
<1>1. gs \in Seq(Frame) /\ DOMAIN gs = {1} /\ gs[1] = f
  BY DEF FrameOK
<1>2. Stack(gs, ts)
  BY <1>1 DEF Stack
<1>3. QED
  BY <1>1, <1>2 DEF BatchesOf, RunningIn, Own

LEMMA IdleIs ==
  ASSUME Inv, Idle
  PROVE  /\ timers \cap (fired \cup cancelled) = {} /\ BatchesOf(frames) = {}
         /\ Waiting = ToSet(tasks) /\ Running = {}
<1>1. ~waking /\ frames = <<>> /\ BatchesOf(frames) = {} /\ RunningIn(frames) = {}
      /\ DOMAIN frames = {}
  BY EmptyStack, EmptyQueue DEF Idle
<1>2. \A t : ~AboutToStop(t)
  BY <1>1 DEF AboutToStop
<1>3. QED
  BY <1>1, <1>2, WaitingIs DEF Inv, StopsWait

LEMMA FireKeeps ==
  ASSUME Inv, NEW t \in Timers, Fire(t)
  PROVE  /\ Ordered' /\ Counted' /\ StartsOnce' /\ StopsWait'
         /\ Running = {} /\ Running' = {0}
<1> DEFINE f == [batch |-> <<>>, current |-> [n |-> 0, kind |-> "callback", timer |-> t]]
<1>1. /\ Idle /\ t \in timers \ fired /\ fired' = fired \cup {t} /\ frames' = <<f>>
      /\ UNCHANGED <<tasks, pushed, waking, begun, timers, added, mine, cancelled>>
  BY DEF Fire, queueVars
<1>2. /\ f.batch = <<>> /\ f.current \in Callback /\ f.current # Nothing
      /\ f.current.n = 0 /\ f.current.kind = "callback" /\ f.current.timer = t
      /\ f \in Frame
  BY EmptyQueue DEF Callback, Nothing, Frame
<1> HIDE DEF f
<1>3. FrameOK(f) /\ Before(f, tasks)
  <2>1. \A a \in ToSet(tasks) : a.n \in Nat \ {0}
    BY TasksAreNumbered DEF Inv, Ordered
  <2>2. QED
    BY <1>2, <2>1, EmptyQueue DEF FrameOK, Before
<1>4. /\ Stack(frames', tasks) /\ frames'[1] = f /\ DOMAIN frames' = {1}
      /\ BatchesOf(frames') = ToSet(f.batch) /\ RunningIn(frames') = Own(f)
  BY <1>1, <1>3, OneFrame
<1>5. /\ timers \cap (fired \cup cancelled) = {} /\ BatchesOf(frames) = {}
      /\ Waiting = ToSet(tasks) /\ Running = {}
  BY <1>1, IdleIs
<1>6. Waiting' = Waiting /\ Running' = {0}
  <2>1. Waiting' = ToSet(tasks) /\ Running' = Own(f)
    BY <1>1, <1>2, <1>4, EmptyQueue DEF Waiting, BatchesOf, Running, RunningIn
  <2>2. QED
    BY <1>2, <1>5, <2>1 DEF Own
<1>7. Ordered'
  BY <1>1, <1>4 DEF Inv, Ordered, Idle
<1>8. Counted'
  <2>1. \A i \in DOMAIN frames' : frames'[i].current.n <= pushed
    BY <1>2, <1>4, WaitingTasks
  <2>2. QED
    BY <1>1, <1>6, <2>1, CountedSame
<1>9. StartsOnce'
  BY <1>1, <1>6 DEF Inv, StartsOnce
<1>10. StopsWait'
  <2>1. timers' \cap (fired' \cup cancelled') \subseteq {t}
    BY <1>1, <1>5
  <2>2. AboutToStop(t)'
    BY <1>2, <1>4 DEF AboutToStop
  <2>3. QED
    BY <2>1, <2>2 DEF StopsWait
<1>11. QED
  BY <1>5, <1>6, <1>7, <1>8, <1>9, <1>10

LEMMA DrainKeeps ==
  ASSUME Inv, Drain
  PROVE  Ordered' /\ Counted' /\ StartsOnce' /\ StopsWait' /\ Running' = Running
<1>1. /\ Idle /\ UNCHANGED <<pushed, waking, begun, added, mine, fired, cancelled>>
  BY DEF Drain
<1>2. /\ timers \cap (fired \cup cancelled) = {} /\ BatchesOf(frames) = {}
      /\ Waiting = ToSet(tasks) /\ Running = {}
  BY <1>1, IdleIs
<1>3. CASE tasks # <<>>
  <2> DEFINE b == <<Head(tasks)>>
             f == [batch |-> b, current |-> Nothing]
  <2>1. frames' = <<f>> /\ tasks' = Tail(tasks) /\ timers' = timers
    BY <1>3 DEF Drain
  <2>2. /\ Head(tasks) \in Task /\ Tail(tasks) \in Seq(Task) /\ Increasing(Tail(tasks))
        /\ ToSet(tasks) = {Head(tasks)} \cup ToSet(Tail(tasks))
        /\ \A a \in ToSet(Tail(tasks)) : a \in Task /\ Head(tasks).n < a.n
    BY <1>3, TailOfIncreasing DEF Inv, Ordered
  <2>3. b \in Seq(Task) /\ ToSet(b) = {Head(tasks)} /\ Increasing(b)
    BY <2>2 DEF ToSet, Increasing
  <2> HIDE DEF b
  <2>4. f \in Frame /\ f.batch = b /\ f.current = Nothing
        /\ Nothing.n = 0 /\ Nothing.kind = "nothing"
    BY <2>3 DEF Frame, Nothing
  <2> HIDE DEF f
  <2>5. FrameOK(f) /\ Before(f, tasks')
    <3>1. /\ Head(tasks).n \in Nat \ {0}
          /\ \A a \in ToSet(tasks') : a.n \in Nat \ {0}
      BY <2>1, <2>2, TasksAreNumbered DEF Task
    <3>2. QED
      BY <2>1, <2>2, <2>3, <2>4, <3>1 DEF FrameOK, Before
  <2>6. /\ Stack(frames', tasks') /\ frames'[1] = f /\ DOMAIN frames' = {1}
        /\ BatchesOf(frames') = ToSet(f.batch) /\ RunningIn(frames') = Own(f)
    BY <2>1, <2>5, OneFrame
  <2>7. Waiting' = Waiting /\ Running' = Running
    <3>1. Waiting' = ToSet(tasks') \cup ToSet(b) /\ Running' = Own(f)
      BY <2>4, <2>6 DEF Waiting, BatchesOf, Running, RunningIn
    <3>2. QED
      BY <1>2, <2>1, <2>2, <2>3, <2>4, <3>1 DEF Own
  <2>8. Ordered'
    BY <1>1, <2>1, <2>2, <2>6 DEF Ordered, Idle
  <2>9. Counted'
    <3>1. \A i \in DOMAIN frames' : frames'[i].current.n <= pushed
      BY <2>4, <2>6, WaitingTasks
    <3>2. QED
      BY <1>1, <2>7, <3>1, CountedSame
  <2>10. StartsOnce'
    BY <1>1, <2>1, <2>7, StartsSame
  <2>11. StopsWait'
    BY <1>1, <1>2, <2>1 DEF StopsWait
  <2>12. QED
    BY <2>7, <2>8, <2>9, <2>10, <2>11
<1>4. CASE tasks = <<>>
  <2>1. timers' = {} /\ UNCHANGED <<frames, tasks>>
    BY <1>4 DEF Drain
  <2>2. Waiting' = Waiting /\ Running' = Running
    BY <2>1 DEF Waiting, Running
  <2>3. Ordered' /\ Counted' /\ StartsOnce' /\ StopsWait'
    BY <1>1, <2>1, <2>2 DEF Inv, Ordered, Counted, StartsOnce, StopsWait
  <2>4. QED
    BY <2>2, <2>3
<1>5. QED
  BY <1>3, <1>4

LEMMA QuietKeeps ==
  ASSUME Inv, UNCHANGED <<tasks, pushed, waking, frames, begun, timers, added, fired, cancelled>>
  PROVE  /\ Ordered' /\ Counted' /\ StartsOnce' /\ StopsWait'
         /\ Running' = Running /\ Waiting' = Waiting
<1>1. Waiting' = Waiting /\ Running' = Running
  BY DEF Waiting, Running
<1>2. \A t : AboutToStop(t)' = AboutToStop(t)
  BY DEF AboutToStop
<1>3. QED
  BY <1>1, <1>2 DEF Inv, Ordered, Counted, StartsOnce, StopsWait

-----------------------------------------------------------------------------
(* The invariant.                                                          *)

LEMMA InitInv == Init => Inv
<1> SUFFICES ASSUME Init
             PROVE  Inv
  OBVIOUS
<1> USE DEF Init
<1>1. /\ Stack(frames, tasks) /\ BatchesOf(frames) = {} /\ DOMAIN frames = {}
  BY EmptyStack, EmptyQueue
<1>2. Waiting = {}
  BY <1>1, EmptyQueue, WaitingIs
<1>3. Simple
  <2>1. broken \in BOOLEAN /\ signalled \in BOOLEAN /\ waking \in BOOLEAN
    BY Zenon
  <2>2. QED
    BY <2>1 DEF Simple
<1>4. Ordered
  BY <1>1, EmptyQueue DEF Ordered
<1>5. Counted
  BY <1>1, <1>2 DEF Counted
<1>6. StartsOnce /\ StopsWait
  BY <1>2 DEF StartsOnce, StopsWait
<1>7. QED
  BY <1>3, <1>4, <1>5, <1>6 DEF Inv

(***************************************************************************)
(* What the other threads and the code of the main thread hand over.       *)
(***************************************************************************)
LEMMA ClientOperationKeeps ==
  ASSUME Inv, NEW c \in Clients, ClientOperation(c)
  PROVE  Inv'
<1> USE DEF Inv
<1>1. UNCHANGED <<mode, broken, waking, frames, begun, timers, mine, fired, cancelled, signalled>>
  BY DEF ClientOperation, ClientPush, loopVars
<1>2. ASSUME NEW kind \in Kinds, NEW timer \in Timers \cup {None}, ClientPush(c, kind, timer),
             \/ kind = "start" /\ timer \in Timers \ added /\ added' = added \cup {timer}
             \/ kind # "start" /\ added' = added
      PROVE  Inv'
  <2>1. Push(kind, timer) /\ sending' = sending \cup {c}
    BY <1>2 DEF ClientPush
  <2>2. Ordered' /\ Counted' /\ StartsOnce' /\ StopsWait'
    <3>1. waking' /\ frames # <<>> => Held(frames[1])
      BY <1>1 DEF Ordered
    <3>2. \/ /\ kind = "start" /\ timer \in Timers \ added
             /\ added' = added \cup {timer} /\ cancelled' = cancelled
          \/ kind # "start" /\ added' = added /\ cancelled' = cancelled
      BY <1>1, <1>2
    <3>3. QED
      BY <1>1, <2>1, <3>1, <3>2, PushKeeps
  <2>3. Simple'
    BY <1>1, <1>2, <2>1 DEF Simple
  <2>4. QED
    BY <2>2, <2>3
<1>3. \/ \E kind \in {"event", "exit"} : ClientPush(c, kind, None) /\ added' = added
      \/ \E t \in Timers \ added : ClientPush(c, "start", t) /\ added' = added \cup {t}
      \/ \E t \in Known : ClientPush(c, "stop", t) /\ added' = added
  BY DEF ClientOperation
<1>4. Known \subseteq Timers
  BY DEF Known, Simple
<1>5. QED
  BY <1>2, <1>3, <1>4 DEF Kinds

LEMMA LoopOperationKeeps ==
  ASSUME Inv, LoopPost \/ LoopOperation
  PROVE  Inv'
<1> USE DEF Inv
<1>1. UserRuns /\ UNCHANGED <<mode, broken, sending, frames, begun, timers, fired>>
  BY DEF LoopPost, LoopOperation, LoopPush, loopVars, timerVars
<1>2. frames # <<>> => Held(frames[1])
  BY <1>1 DEF UserRuns, Held, Nothing
<1>3. CASE LoopPost
  <2>1. Push("event", None) /\ signalled' = TRUE /\ UNCHANGED <<waking, added, mine, cancelled>>
    BY <1>3 DEF LoopPost, timerVars
  <2>2. "event" \in Kinds /\ "event" # "start"
    BY DEF Kinds
  <2>3. Ordered' /\ Counted' /\ StartsOnce' /\ StopsWait'
    BY <1>1, <1>2, <2>1, <2>2, PushKeeps
  <2>4. Simple'
    BY <1>1, <2>1 DEF Simple
  <2>5. QED
    BY <2>3, <2>4
<1>4. CASE LoopOperation
  <2>1. ASSUME NEW kind \in Kinds, NEW timer \in Timers \cup {None}, LoopPush(kind, timer),
               \/ /\ kind = "start" /\ timer \in Timers \ added
                  /\ added' = added \cup {timer} /\ mine' = mine \cup {timer}
                  /\ cancelled' = cancelled
               \/ kind = "exit" /\ UNCHANGED <<added, mine, cancelled>>
               \/ /\ kind = "stop" /\ timer \in Known /\ UNCHANGED <<added, mine>>
                  /\ cancelled' = cancelled \cup ({timer} \cap mine)
        PROVE  Inv'
    <3>1. Push(kind, timer) /\ waking' = TRUE /\ UNCHANGED signalled
      BY <2>1 DEF LoopPush
    <3>2. \/ /\ kind = "start" /\ timer \in Timers \ added
             /\ added' = added \cup {timer} /\ cancelled' = cancelled
          \/ kind # "start" /\ added' = added /\ cancelled' = cancelled
          \/ /\ kind = "stop" /\ added' = added /\ timer \in Known /\ waking'
             /\ cancelled' = cancelled \cup ({timer} \cap mine)
      BY <2>1, <3>1
    <3>3. Ordered' /\ Counted' /\ StartsOnce' /\ StopsWait'
      BY <1>1, <1>2, <3>1, <3>2, PushKeeps
    <3>4. Simple'
      BY <1>1, <2>1, <3>1 DEF Simple
    <3>5. QED
      BY <3>3, <3>4
  <2>2. \/ LoopPush("exit", None) /\ UNCHANGED <<added, mine, cancelled>>
        \/ \E t \in Timers \ added :
             /\ LoopPush("start", t)
             /\ added' = added \cup {t} /\ mine' = mine \cup {t} /\ cancelled' = cancelled
        \/ \E t \in Known :
             /\ LoopPush("stop", t)
             /\ cancelled' = cancelled \cup ({t} \cap mine) /\ UNCHANGED <<added, mine>>
    BY <1>4 DEF LoopOperation
  <2>3. Known \subseteq Timers
    BY DEF Known, Simple
  <2>4. "exit" \in Kinds /\ "start" \in Kinds /\ "stop" \in Kinds
    BY DEF Kinds
  <2>5. CASE LoopPush("exit", None) /\ UNCHANGED <<added, mine, cancelled>>
    BY <2>1, <2>4, <2>5
  <2>6. ASSUME NEW t \in Timers \ added, LoopPush("start", t),
               added' = added \cup {t}, mine' = mine \cup {t}, cancelled' = cancelled
        PROVE  Inv'
    BY <2>1, <2>4, <2>6
  <2>7. ASSUME NEW t \in Known, LoopPush("stop", t),
               cancelled' = cancelled \cup ({t} \cap mine), UNCHANGED <<added, mine>>
        PROVE  Inv'
    BY <2>1, <2>3, <2>4, <2>7
  <2>8. QED
    BY <2>2, <2>5, <2>6, <2>7
<1>5. QED
  BY <1>3, <1>4

LEMMA MainStepKeeps ==
  ASSUME Inv, MainStep
  PROVE  Inv'
<1> USE DEF Inv
<1>1. CASE Wakeup \/ WakeupCb
  <2>1. /\ TakeAll /\ waking' = FALSE /\ UNCHANGED <<pushed, begun, timers, added, mine, fired, cancelled>>
        /\ UNCHANGED <<mode, broken, sending>> /\ signalled' \in {signalled, FALSE}
    BY <1>1 DEF Wakeup, WakeupCb, Idle, Simple, loopVars, timerVars
  <2>2. frames # <<>> => Held(frames[1])
    BY <1>1 DEF Wakeup, WakeupCb, Idle, Ordered
  <2>3. Ordered' /\ Counted' /\ StartsOnce' /\ StopsWait'
    BY <2>1, <2>2, TakeAllKeeps
  <2>4. Simple'
    BY <2>1 DEF Simple
  <2>5. QED
    BY <2>3, <2>4
<1>2. CASE RunTask
  <2> DEFINE task == Head(frames[1].batch)
  <2>1. Ordered' /\ Counted' /\ StartsOnce' /\ StopsWait'
    BY <1>2, RunTaskKeeps
  <2>2. task \in Waiting
    BY <1>2, NextTask
  <2>3. /\ Effect(task)
        /\ UNCHANGED <<mode, signalled, sending, waking, added, mine, fired, cancelled>>
    BY <1>2 DEF RunTask, queueVars
  <2> HIDE DEF task
  <2>4. task.kind = "start" => task.timer \in added
    BY <2>2 DEF StartsOnce, Starts
  <2>5. timers' \subseteq added
    BY <2>3, <2>4 DEF Effect, Simple
  <2>6. broken' \in BOOLEAN
    BY <2>3 DEF Effect, Simple
  <2>7. Simple'
    BY <2>3, <2>5, <2>6 DEF Simple
  <2>8. QED
    BY <2>1, <2>7
<1>3. CASE EndTask
  BY <1>3, EndTaskKeeps DEF EndTask, Simple, loopVars, queueVars, timerVars
<1>4. CASE WakeupReturns
  BY <1>4, WakeupReturnsKeeps DEF WakeupReturns, Simple, loopVars, queueVars, timerVars
<1>5. CASE EndCallback
  BY <1>5, EndCallbackKeeps DEF EndCallback, Simple, loopVars, timerVars
<1>6. CASE Run \/ EndRun \/ Finalize
  <2>1. /\ UNCHANGED <<tasks, pushed, signalled, sending, waking, frames, begun, timers, added,
                      mine, fired, cancelled>>
        /\ mode' \in {"running", "ended", "draining"} /\ broken' \in {broken, FALSE}
    BY <1>6 DEF Run, EndRun, Finalize, queueVars, timerVars
  <2>2. QED
    BY <2>1, QuietKeeps DEF Simple
<1>7. CASE Drain
  <2>1. /\ mode' \in {mode, "final"} /\ timers' \subseteq timers
        /\ UNCHANGED <<broken, signalled, sending, waking, added, mine, fired, cancelled>>
    BY <1>7 DEF Drain
  <2>2. QED
    BY <1>7, <2>1, DrainKeeps DEF Simple
<1>8. QED
  BY <1>1, <1>2, <1>3, <1>4, <1>5, <1>6, <1>7 DEF MainStep

LEMMA NextInv == Inv /\ [Next]_vars => Inv'
<1> SUFFICES ASSUME Inv, [Next]_vars
             PROVE  Inv'
  OBVIOUS
<1>1. CASE MainStep
  BY <1>1, MainStepKeeps
<1>2. CASE LoopPost \/ LoopOperation
  BY <1>2, LoopOperationKeeps
<1>3. ASSUME NEW t \in Timers, Fire(t)
      PROVE  Inv'
  <2>1. Ordered' /\ Counted' /\ StartsOnce' /\ StopsWait'
    BY <1>3, FireKeeps
  <2>2. Simple'
    BY <1>3 DEF Inv, Simple, Fire, loopVars, queueVars
  <2>3. QED
    BY <2>1, <2>2 DEF Inv
<1>4. ASSUME NEW c \in Clients, ClientOperation(c)
      PROVE  Inv'
  BY <1>4, ClientOperationKeeps
<1>5. ASSUME NEW c \in Clients, ClientSend(c)
      PROVE  Inv'
  <2>1. /\ UNCHANGED <<mode, broken, tasks, pushed, waking, frames, begun, timers, added,
                      mine, fired, cancelled>>
        /\ sending' \subseteq sending /\ signalled' = TRUE
    BY <1>5 DEF ClientSend, loopVars, timerVars
  <2>2. QED
    BY <2>1, QuietKeeps DEF Inv, Simple
<1>6. CASE UNCHANGED vars
  BY <1>6, QuietKeeps DEF vars, Inv, Simple
<1>7. QED
  BY <1>1, <1>2, <1>3, <1>4, <1>5, <1>6 DEF Next

(***************************************************************************)
(* The invariant holds in every state: a hand-over, a step of wakeup() or  *)
(* the callback of a timer keeps it.                                       *)
(***************************************************************************)
THEOREM InvHolds == Spec => []Inv
BY InitInv, NextInv, PTL DEF Spec

(***************************************************************************)
(* The variables keep their types: what was begun was handed over, and a   *)
(* timer that is started, has fired or was stopped was added.              *)
(***************************************************************************)
THEOREM TypeCorrect == Spec => []TypeOK
<1>1. Inv => TypeOK
  BY DEF Inv, Simple, Ordered, Stack, Counted, TypeOK
<1>2. QED
  BY <1>1, InvHolds, PTL

(***************************************************************************)
(* timer_cb() and stopTimer(): between two events of the loop no timer is  *)
(* kept that has fired or that the main thread has stopped.                *)
(***************************************************************************)
THEOREM NoStoppedTimerIsKept == Spec => []StoppedAreGone
<1>1. Inv => StoppedAreGone
  BY IdleIs DEF StoppedAreGone
<1>2. QED
  BY <1>1, InvHolds, PTL

-----------------------------------------------------------------------------
(* The tasks are begun as Mailbox promises.                                *)

LEMMA RunTaskBegins ==
  ASSUME Inv, RunTask
  PROVE  \E i \in Mail!Unbegun : Mail!Begin(i)
<1> DEFINE task == Head(frames[1].batch)
<1>1. /\ task \in Task /\ task \in Waiting /\ frames # <<>>
      /\ Running' = Running \cup {task.n} /\ \A k \in Running : k < task.n
      /\ \A w \in Waiting : w # task => w.n > task.n \/ w \in OuterBatches(frames)
  BY NextTask
<1>2. begun' = begun \cup {task.n} /\ pushed' = pushed
  BY DEF RunTask, queueVars
<1> HIDE DEF task
<1>3. task.n \in Mail!Unbegun
  BY <1>1 DEF Inv, Counted, Mail!Unbegun
<1>4. ASSUME Running = {}
      PROVE  OuterBatches(frames) = {}
  <2> SUFFICES ASSUME NEW i \in DOMAIN frames \ {1}
               PROVE  ToSet(frames[i].batch) = {}
    BY DEF OuterBatches
  <2>1. 1 \in DOMAIN frames /\ DOMAIN frames = 1..Len(frames) /\ Len(frames) \in Nat
    BY <1>1, FirstOfStack DEF Inv, Ordered
  <2>2. 1 < i
    BY <2>1
  <2>3. Held(frames[i])
    BY <2>1, <2>2 DEF Inv, Ordered, Stack, Inside
  <2>4. frames[i].current = Nothing
    BY <1>4 DEF Running
  <2>5. QED
    BY <2>3, <2>4, EmptyQueue DEF Held
<1>5. ASSUME Running = {}, NEW j \in Mail!Unbegun
      PROVE  task.n <= j
  <2>1. PICK w \in Waiting : w.n = j
    BY <1>5 DEF Mail!Unbegun, Inv, Counted
  <2>2. w = task \/ w.n > task.n
    BY <1>1, <1>4, <1>5
  <2>3. task.n \in Nat /\ j \in Nat
    BY <1>1, <2>1, WaitingTasks
  <2>4. QED
    BY <2>1, <2>2, <2>3
<1>6. Mail!Begin(task.n)
  BY <1>1, <1>2, <1>3, <1>5 DEF Mail!Begin
<1>7. QED
  BY <1>3, <1>6

LEMMA PushIsPost ==
  ASSUME Inv, NEW kind, NEW timer, Push(kind, timer), UNCHANGED <<begun, frames>>
  PROVE  Mail!Post
BY DEF Push, Mail!Post, Running

LEMMA StepIsMailStep == Inv /\ [Next]_vars => [Mail!MailNext]_(Mail!mailVars)
<1> SUFFICES ASSUME Inv, [Next]_vars
             PROVE  Mail!MailNext \/ UNCHANGED <<pushed, begun, Running>>
  BY DEF Mail!mailVars
<1> USE DEF Mail!MailNext
<1>1. CASE Wakeup \/ WakeupCb
  <2>1. /\ TakeAll /\ waking' = FALSE
        /\ UNCHANGED <<pushed, begun, timers, added, mine, fired, cancelled>>
        /\ frames # <<>> => Held(frames[1])
    BY <1>1 DEF Wakeup, WakeupCb, Idle, Inv, Simple, Ordered, timerVars
  <2>2. RunningIn(frames') = RunningIn(frames)
    BY <2>1, TakeAllKeeps
  <2>3. QED
    BY <2>1, <2>2 DEF Running, RunningIn
<1>2. CASE RunTask
  BY <1>2, RunTaskBegins
<1>3. CASE EndTask
  <2>1. PICK n \in Running : (\A k \in Running : k <= n) /\ Running' = Running \ {n}
    BY <1>3, EndTaskKeeps
  <2>2. UNCHANGED <<pushed, begun>>
    BY <1>3 DEF EndTask, queueVars
  <2>3. Mail!Finish(n)
    BY <2>1, <2>2 DEF Mail!Finish
  <2>4. QED
    BY <2>3
<1>4. CASE WakeupReturns
  BY <1>4, WakeupReturnsKeeps DEF WakeupReturns, queueVars
<1>5. CASE EndCallback
  <2> DEFINE timer == frames[1].current.timer
  <2>1. /\ frames # <<>> /\ frames[1].current.kind = "callback" /\ Push("stop", timer)
        /\ frames' = [frames EXCEPT ![1].current = Nothing] /\ begun' = begun
    BY <1>5 DEF EndCallback
  <2>2. DOMAIN frames = {1} /\ frames[1].current \in Callback
    BY <2>1, CallbackRunsAlone
  <2>3. FrameOK(frames[1])
    BY <2>1, FirstOfStack DEF Inv, Ordered
  <2>4. DOMAIN frames' = {1} /\ frames'[1].current = Nothing
    BY <2>1, <2>2, <2>3 DEF FrameOK, Frame
  <2>5. Running = {0} /\ Running' = {}
    BY <2>2, <2>4 DEF Running, Callback, Nothing
  <2>6. Mail!FinishPosting
    BY <2>1, <2>5 DEF Mail!FinishPosting, Push
  <2>7. QED
    BY <2>6
<1>6. CASE Run \/ EndRun \/ Finalize
  BY <1>6 DEF Run, EndRun, Finalize, queueVars, Running
<1>7. CASE Drain
  BY <1>7, DrainKeeps DEF Drain
<1>8. CASE LoopPost \/ LoopOperation
  <2>1. \E kind, timer : Push(kind, timer) /\ UNCHANGED <<begun, frames>>
    BY <1>8 DEF LoopPost, LoopOperation, LoopPush
  <2>2. QED
    BY <2>1, PushIsPost
<1>9. ASSUME NEW t \in Timers, Fire(t)
      PROVE  Mail!Other
  BY <1>9, FireKeeps DEF Fire, queueVars, Mail!Other
<1>10. ASSUME NEW c \in Clients, ClientOperation(c)
       PROVE  Mail!Post
  <2>1. \E kind, timer : Push(kind, timer) /\ UNCHANGED <<begun, frames>>
    BY <1>10 DEF ClientOperation, ClientPush
  <2>2. QED
    BY <2>1, PushIsPost
<1>11. ASSUME NEW c \in Clients, ClientSend(c)
       PROVE  UNCHANGED <<pushed, begun, Running>>
  BY <1>11 DEF ClientSend, Running
<1>12. CASE UNCHANGED vars
  BY <1>12 DEF vars, Running
<1>13. QED
  BY <1>1, <1>2, <1>3, <1>4, <1>5, <1>6, <1>7, <1>8, <1>9, <1>10, <1>11, <1>12
     DEF Next, MainStep

(***************************************************************************)
(* dispatchTask(), wakeup() and finalize(): every task is begun once, in   *)
(* the order of the queue when nothing else runs, and in the middle of     *)
(* others only if it was handed over after them.                           *)
(***************************************************************************)
THEOREM DispatcherImplementsMailbox == Spec => ImplementsMailbox
<1>1. Init => Mail!MailInit
  <2> SUFFICES ASSUME Init
               PROVE  Mail!MailInit
    OBVIOUS
  <2>1. Running = {}
    BY EmptyStack, WaitingIs DEF Init
  <2>2. QED
    BY <2>1 DEF Init, Mail!MailInit
<1>2. QED
  BY <1>1, StepIsMailStep, InvHolds, PTL DEF Spec, ImplementsMailbox, Mail!MailSpec

=============================================================================
