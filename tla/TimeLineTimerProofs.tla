------------------------ MODULE TimeLineTimerProofs ------------------------
(***************************************************************************)
(* For any times, any resolution of the clock, any identifiers and any     *)
(* depth: the time line keeps its types and one timer in the system, its   *)
(* assertion holds, and it implements the service that players expect, as  *)
(* long as callbacks dispatched by startTimer() do nothing but stop it.    *)
(***************************************************************************)
EXTENDS TimeLineTimer, TLAPS, SequenceTheorems

-----------------------------------------------------------------------------
(* Arithmetic.                                                             *)

LEMMA WholePart ==
  ASSUME NEW n \in Nat
  PROVE  Milliseconds(n) \in Nat /\ Unit * Milliseconds(n) <= n
BY ServiceAssumption, SMT DEF Milliseconds

LEMMA UnitDistributes ==
  ASSUME NEW a \in Int, NEW b \in Int
  PROVE  Unit * (a + b) = Unit * a + Unit * b /\ Unit * (a - b) = Unit * a - Unit * b
         /\ Unit * a \in Int
BY ServiceAssumption, SMT

LEMMA UnitMonotone ==
  ASSUME NEW a \in Nat, NEW b \in Nat, a <= b
  PROVE  Unit * a <= Unit * b
BY ServiceAssumption, SMT

-----------------------------------------------------------------------------
(* The stack of activations.                                               *)

Places == {"loop", "late", "expired"}

LEMMA Pushed ==
  ASSUME NEW f \in Seq(Places), NEW p \in Places
  PROVE  LET g == Append(f, p)
         IN  /\ g \in Seq(Places) /\ g # <<>>
             /\ Len(g) = Len(f) + 1 /\ g[Len(g)] = p
             /\ \A i \in 1..Len(f) : g[i] = f[i]
OBVIOUS

LEMMA Replaced ==
  ASSUME NEW f \in Seq(Places), f # <<>>, NEW p \in Places
  PROVE  LET g == [f EXCEPT ![Len(f)] = p]
         IN  /\ g \in Seq(Places) /\ g # <<>>
             /\ Len(g) = Len(f) /\ g[Len(g)] = p
             /\ \A i \in 1..Len(f) - 1 : g[i] = f[i]
OBVIOUS

LEMMA Popped ==
  ASSUME NEW f \in Seq(Places), f # <<>>
  PROVE  /\ SubSeq(f, 1, Len(f) - 1) \in Seq(Places)
         /\ Len(SubSeq(f, 1, Len(f) - 1)) = Len(f) - 1
         /\ \A i \in 1..Len(f) - 1 : SubSeq(f, 1, Len(f) - 1)[i] = f[i]
<1>1. PICK n \in Nat : n = Len(f) - 1
  OBVIOUS
<1>2. \A i \in 1..n : f[i] \in Places
  BY <1>1
<1>3. /\ SubSeq(f, 1, n) \in Seq(Places)
      /\ Len(SubSeq(f, 1, n)) = n
      /\ \A i \in 1..n : SubSeq(f, 1, n)[i] = f[1 + i - 1]
  BY <1>2, SubSeqProperties
<1>4. QED
  BY <1>1, <1>3

-----------------------------------------------------------------------------
(* The inductive invariant.  The true running time is at least what the    *)
(* time line has counted; the system's timer is due no earlier than the    *)
(* least of the heap; and in the loop of startTimer() there is none yet.   *)

CountsNoMore ==
    /\ Running => startTimer <= now /\ Unit * elapsed + (now - startTimer) <= ran
    /\ mode = "paused" => Unit * elapsed <= ran

NothingIsDueEarly ==
    \A s \in system :
        /\ s.id = timerID /\ Running
        /\ \E t \in Ms : Least(t)
        /\ \A t \in Ms : Least(t) => startTimer + Unit * t - Unit * elapsed <= s.due

OneAtMost == (\A r, s \in system : r = s) /\ (timerID # NoId => system # {})

OuterFramesExpired == \A i \in 1..Len(frames) - 1 : frames[i] = "expired"

LoopHasNone ==
    /\ Top \in {"loop", "late"} => timerID = NoId /\ system = {}
    /\ Top = "loop" => Running \/ Empty
    /\ Top = "late" => Running \/ (mode = "stopped" /\ Empty)

MainHasOne == Top = "main" /\ Running /\ ~Empty => timerID # NoId

Inv == /\ TypeOK /\ ~failed
       /\ CountsNoMore /\ NothingIsDueEarly /\ OneAtMost
       /\ OuterFramesExpired /\ LoopHasNone /\ MainHasOne

LEMMA InitInv == ASSUME Init PROVE Inv
<1> USE DEF Init, ServiceInit
<1>1. TypeOK /\ ~failed
  <2>1. frames \in Seq({"loop", "late", "expired"})
    OBVIOUS
  <2>2. heap \in [Ms -> Nat]
    BY DEF NoTimers
  <2>3. QED
    BY <2>1, <2>2 DEF TypeOK
<1>2. CountsNoMore /\ NothingIsDueEarly /\ OneAtMost
  BY DEF CountsNoMore, NothingIsDueEarly, OneAtMost, Running
<1>3. OuterFramesExpired /\ LoopHasNone /\ MainHasOne
  BY DEF OuterFramesExpired, LoopHasNone, MainHasOne, Running, Top
<1>4. QED
  BY <1>1, <1>2, <1>3 DEF Inv

(* What the callers of the time line have in common: between activations,  *)
(* or in a callback, which may only stop it when startTimer() called it.   *)
LEMMA Callers ==
  ASSUME Inv, LateOps \subseteq {"stop"}, NEW op, MayCall(op)
  PROVE  /\ Top \in {"main", "expired", "late"}
         /\ op # "stop" => Top \in {"main", "expired"}
         /\ op # "stop" => \A i \in 1..Len(frames) : frames[i] = "expired"
<1>1. /\ Top \in {"main", "expired", "late"}
      /\ op # "stop" => Top \in {"main", "expired"}
  BY DEF MayCall
<1>2. ASSUME Top \in {"main", "expired"}, NEW i \in 1..Len(frames)
      PROVE  frames[i] = "expired"
  BY <1>2 DEF Inv, TypeOK, Top, OuterFramesExpired
<1>3. QED
  BY <1>1, <1>2

(* The registered timer goes, and the count never passes the clock.        *)
LEMMA Cancelled ==
  ASSUME Inv, Running, CancelTimer
  PROVE  /\ system' = {} /\ timerID' = NoId
         /\ elapsed' \in Nat /\ Unit * elapsed' <= ran
<1>1. system' = {} /\ timerID' = NoId
  BY DEF CancelTimer, Unregister, Inv, NothingIsDueEarly
<1>2. now - startTimer \in Nat
  BY DEF Inv, TypeOK, CountsNoMore
<1>3. /\ Milliseconds(now - startTimer) \in Nat
      /\ Unit * Milliseconds(now - startTimer) <= now - startTimer
  BY <1>2, WholePart
<1>4. elapsed' = elapsed + Milliseconds(now - startTimer) /\ elapsed \in Nat
  BY DEF CancelTimer, CountElapsed, Inv, TypeOK
<1>5. Unit * elapsed' = Unit * elapsed + Unit * Milliseconds(now - startTimer)
  BY <1>3, <1>4, UnitDistributes
<1>6. /\ Unit * elapsed \in Int /\ Unit * Milliseconds(now - startTimer) \in Int
      /\ ran \in Nat /\ now \in Nat /\ startTimer \in Nat
      /\ Unit * elapsed + (now - startTimer) <= ran
  BY <1>3, UnitDistributes DEF Inv, TypeOK, CountsNoMore
<1>7. QED
  BY <1>1, <1>3, <1>4, <1>5, <1>6

(* What has elapsed counts for the past, the clock for what is to come.    *)
LEMMA CountsFromHere ==
  ASSUME mode' = "running", startTimer' = now, now' = now, now \in Nat,
         elapsed' \in Nat, Unit * elapsed' <= ran'
  PROVE  CountsNoMore'
<1>1. Unit * elapsed' \in Int
  BY UnitDistributes
<1>2. startTimer' <= now' /\ now' - startTimer' = 0
  OBVIOUS
<1>3. Unit * elapsed' + 0 = Unit * elapsed'
  BY <1>1
<1>4. QED
  BY <1>2, <1>3 DEF CountsNoMore

(* startTimer() enters its loop with no timer in the system.               *)
LEMMA EntersLoop ==
  ASSUME Inv, \A i \in 1..Len(frames) : frames[i] = "expired",
         frames' = Append(frames, "loop")
  PROVE  frames' \in Seq(Places) /\ Top' = "loop" /\ OuterFramesExpired'
<1>1. frames \in Seq(Places)
  BY DEF Inv, TypeOK, Places
<1>2. /\ frames' \in Seq(Places) /\ frames' # <<>>
      /\ Len(frames') = Len(frames) + 1 /\ frames'[Len(frames')] = "loop"
      /\ \A i \in 1..Len(frames) : frames'[i] = frames[i]
  BY <1>1, Pushed DEF Places
<1>3. Len(frames) \in Nat
  BY <1>1
<1>4. QED
  BY <1>2, <1>3 DEF Top, OuterFramesExpired

LEMMA ChangesPlace ==
  ASSUME Inv, frames # <<>>, NEW p \in Places, Jump(p)
  PROVE  frames' \in Seq(Places) /\ Top' = p /\ OuterFramesExpired'
<1>1. frames \in Seq(Places)
  BY DEF Inv, TypeOK, Places
<1>2. /\ frames' \in Seq(Places) /\ frames' # <<>>
      /\ Len(frames') = Len(frames) /\ frames'[Len(frames')] = p
      /\ \A i \in 1..Len(frames) - 1 : frames'[i] = frames[i]
  BY <1>1, Replaced DEF Jump
<1>3. QED
  BY <1>2 DEF Top, OuterFramesExpired, Inv

LEMMA Leaves ==
  ASSUME Inv, frames # <<>>, Return
  PROVE  frames' \in Seq(Places) /\ Top' \in {"main", "expired"} /\ OuterFramesExpired'
<1>1. frames \in Seq(Places)
  BY DEF Inv, TypeOK, Places
<1>2. /\ frames' \in Seq(Places)
      /\ Len(frames') = Len(frames) - 1
      /\ \A i \in 1..Len(frames) - 1 : frames'[i] = frames[i]
  BY <1>1, Popped DEF Return
<1>3. \A i \in 1..Len(frames') : frames'[i] = "expired"
  BY <1>2 DEF Inv, OuterFramesExpired
<1>4. Len(frames') \in Nat /\ (frames' # <<>> => Len(frames') \in 1..Len(frames'))
  BY <1>2
<1>5. QED
  BY <1>2, <1>3, <1>4 DEF Top, OuterFramesExpired

-----------------------------------------------------------------------------
(* Each action preserves the invariant.                                    *)

LEMMA AddTimerInv ==
  ASSUME Inv, LateOps \subseteq {"stop"}, NEW t \in Ms, AddTimer(t)
  PROVE  Inv'
<1>1. /\ ~failed /\ Top \in {"main", "expired"}
      /\ \A i \in 1..Len(frames) : frames[i] = "expired"
  BY Callers DEF AddTimer, MayCall
<1>2. /\ UNCHANGED <<mode, ran, now, failed>> /\ heap' \in [Ms -> Nat]
      /\ ~Empty'
  <2>1. heap' = [heap EXCEPT ![t] = @ + 1] /\ heap \in [Ms -> Nat]
    BY DEF AddTimer, Inv, TypeOK
  <2>2. heap'[t] = heap[t] + 1 /\ heap[t] \in Nat /\ heap' \in [Ms -> Nat]
    BY <2>1
  <2>3. QED
    BY <2>2 DEF AddTimer, Empty
<1>3. CASE Running
  <2>1. CancelTimer /\ startTimer' = now /\ frames' = Append(frames, "loop")
    BY <1>3 DEF AddTimer, StartTimer
  <2>2. /\ system' = {} /\ timerID' = NoId
        /\ elapsed' \in Nat /\ Unit * elapsed' <= ran
    BY <1>3, <2>1, Cancelled
  <2>3. frames' \in Seq(Places) /\ Top' = "loop" /\ OuterFramesExpired'
    BY <1>1, <2>1, EntersLoop
  <2>4. TypeOK'
    BY <1>1, <1>2, <2>1, <2>2, <2>3 DEF Inv, TypeOK, Places
  <2>5. CountsNoMore'
    BY <1>2, <1>3, <2>1, <2>2, CountsFromHere DEF Inv, TypeOK, Running
  <2>6. NothingIsDueEarly' /\ OneAtMost'
    BY <2>2 DEF NothingIsDueEarly, OneAtMost
  <2>7. LoopHasNone' /\ MainHasOne'
    BY <1>2, <1>3, <2>2, <2>3 DEF LoopHasNone, MainHasOne, Running
  <2>8. QED
    BY <1>1, <1>2, <2>3, <2>4, <2>5, <2>6, <2>7 DEF Inv
<1>4. CASE ~Running
  <2>1. UNCHANGED <<elapsed, startTimer, timerID, system, frames>>
    BY <1>4 DEF AddTimer
  <2>2. TypeOK'
    BY <1>2, <2>1 DEF Inv, TypeOK
  <2>3. CountsNoMore' /\ OuterFramesExpired'
    BY <1>2, <2>1 DEF Inv, CountsNoMore, OuterFramesExpired, Running
  <2>4. NothingIsDueEarly' /\ OneAtMost'
    BY <1>4, <2>1 DEF Inv, NothingIsDueEarly, OneAtMost
  <2>5. LoopHasNone' /\ MainHasOne'
    BY <1>1, <1>2, <1>4, <2>1 DEF LoopHasNone, MainHasOne, Running, Top
  <2>6. QED
    BY <1>1, <1>2, <2>2, <2>3, <2>4, <2>5 DEF Inv
<1>5. QED
  BY <1>3, <1>4

(* start() and unpause() find no timer in the system.                      *)
LEMMA ResumesInv ==
  ASSUME Inv, ~Running, \A i \in 1..Len(frames) : frames[i] = "expired",
         Resumes, elapsed' \in Nat, ran' \in Nat, Unit * elapsed' <= ran'
  PROVE  Inv'
<1>1. system = {} /\ timerID = NoId
  BY DEF Inv, NothingIsDueEarly, OneAtMost
<1>2. /\ mode' = "running" /\ startTimer' = now /\ frames' = Append(frames, "loop")
      /\ UNCHANGED <<heap, now, timerID, system, failed>>
  BY <1>1 DEF Resumes
<1>3. frames' \in Seq(Places) /\ Top' = "loop" /\ OuterFramesExpired'
  BY <1>2, EntersLoop
<1>4. TypeOK' /\ ~failed'
  BY <1>2, <1>3 DEF Inv, TypeOK, Places
<1>5. CountsNoMore'
  BY <1>2, CountsFromHere DEF Inv, TypeOK
<1>6. NothingIsDueEarly' /\ OneAtMost'
  BY <1>1, <1>2 DEF NothingIsDueEarly, OneAtMost
<1>7. LoopHasNone' /\ MainHasOne'
  BY <1>1, <1>2, <1>3 DEF LoopHasNone, MainHasOne, Running
<1>8. QED
  BY <1>3, <1>4, <1>5, <1>6, <1>7 DEF Inv

LEMMA StartInv ==
  ASSUME Inv, LateOps \subseteq {"stop"}, Start
  PROVE  Inv'
<1>1. ~Running /\ \A i \in 1..Len(frames) : frames[i] = "expired"
  BY Callers DEF Start
<1>2. elapsed' = 0 /\ ran' = 0 /\ Resumes /\ Unit * 0 = 0
  BY ServiceAssumption DEF Start
<1>3. QED
  BY <1>1, <1>2, ResumesInv

LEMMA UnpauseInv ==
  ASSUME Inv, LateOps \subseteq {"stop"}, Unpause
  PROVE  Inv'
<1>1. ~Running /\ \A i \in 1..Len(frames) : frames[i] = "expired"
  BY Callers DEF Unpause, Running
<1>2. elapsed' \in Nat /\ ran' \in Nat /\ Unit * elapsed' <= ran' /\ Resumes
  BY DEF Unpause, Inv, TypeOK, CountsNoMore
<1>3. QED
  BY <1>1, <1>2, ResumesInv

LEMMA PauseInv ==
  ASSUME Inv, LateOps \subseteq {"stop"}, Pause
  PROVE  Inv'
<1>1. ~failed /\ Top \in {"main", "expired"} /\ Running
  BY Callers DEF Pause, MayCall
<1>2. /\ system' = {} /\ timerID' = NoId
      /\ elapsed' \in Nat /\ Unit * elapsed' <= ran
  BY <1>1, Cancelled DEF Pause
<1>3. mode' = "paused" /\ UNCHANGED <<heap, ran, now, startTimer, frames, failed>>
  BY DEF Pause
<1>4. TypeOK'
  BY <1>2, <1>3 DEF Inv, TypeOK
<1>5. CountsNoMore' /\ OuterFramesExpired'
  BY <1>2, <1>3 DEF Inv, CountsNoMore, OuterFramesExpired, Running
<1>6. NothingIsDueEarly' /\ OneAtMost'
  BY <1>2 DEF NothingIsDueEarly, OneAtMost
<1>7. LoopHasNone' /\ MainHasOne'
  BY <1>1, <1>3 DEF LoopHasNone, MainHasOne, Running, Top
<1>8. QED
  BY <1>1, <1>3, <1>4, <1>5, <1>6, <1>7 DEF Inv

LEMMA StopInv ==
  ASSUME Inv, LateOps \subseteq {"stop"}, Stop
  PROVE  Inv'
<1>1. ~failed /\ Top \in {"main", "expired", "late"}
  BY Callers DEF Stop, MayCall
<1>2. /\ mode' = "stopped" /\ elapsed' = 0 /\ ran' = 0 /\ heap' = NoTimers
      /\ UNCHANGED <<now, startTimer, frames, failed>>
  BY DEF Stop
<1>3. system' = {} /\ timerID' = NoId
  BY DEF Stop, Unregister, Inv, NothingIsDueEarly, OneAtMost
<1>4. heap' \in [Ms -> Nat] /\ Empty'
  BY <1>2 DEF NoTimers, Empty
<1>5. TypeOK'
  BY <1>2, <1>3, <1>4 DEF Inv, TypeOK
<1>6. CountsNoMore' /\ OuterFramesExpired'
  BY <1>2 DEF Inv, CountsNoMore, OuterFramesExpired, Running
<1>7. NothingIsDueEarly' /\ OneAtMost'
  BY <1>3 DEF NothingIsDueEarly, OneAtMost
<1>8. LoopHasNone' /\ MainHasOne'
  BY <1>1, <1>2, <1>3, <1>4 DEF LoopHasNone, MainHasOne, Running, Top
<1>9. QED
  BY <1>1, <1>2, <1>5, <1>6, <1>7, <1>8 DEF Inv

LEMMA LoopEndsInv == ASSUME Inv, LoopEnds PROVE Inv'
<1>1. /\ frames # <<>> /\ Empty /\ Return /\ timerID = NoId /\ system = {}
      /\ UNCHANGED <<mode, ran, heap, now, elapsed, startTimer, timerID, system, failed>>
  BY DEF LoopEnds, Top, Inv, LoopHasNone
<1>2. frames' \in Seq(Places) /\ Top' \in {"main", "expired"} /\ OuterFramesExpired'
  BY <1>1, Leaves
<1>3. TypeOK' /\ ~failed'
  BY <1>1, <1>2 DEF Inv, TypeOK, Places
<1>4. CountsNoMore' /\ NothingIsDueEarly' /\ OneAtMost'
  BY <1>1 DEF Inv, CountsNoMore, NothingIsDueEarly, OneAtMost, Running
<1>5. LoopHasNone' /\ MainHasOne'
  BY <1>1, <1>2 DEF LoopHasNone, MainHasOne, Running, Empty
<1>6. QED
  BY <1>2, <1>3, <1>4, <1>5 DEF Inv

LEMMA LoopDispatchesInv == ASSUME Inv, LoopDispatches PROVE Inv'
<1>1. PICK t \in Ms : Least(t) /\ Dispatches(t)
  BY DEF LoopDispatches
<1>2. /\ frames # <<>> /\ Jump("late") /\ Running /\ timerID = NoId /\ system = {}
      /\ UNCHANGED <<mode, ran, now, elapsed, startTimer, timerID, system, failed>>
  BY <1>1 DEF LoopDispatches, Top, Inv, LoopHasNone, Empty, Least
<1>3. heap' \in [Ms -> Nat]
  BY <1>1 DEF Dispatches, Least, Inv, TypeOK
<1>4. frames' \in Seq(Places) /\ Top' = "late" /\ OuterFramesExpired'
  BY <1>2, ChangesPlace DEF Places
<1>5. TypeOK' /\ ~failed'
  BY <1>2, <1>3, <1>4 DEF Inv, TypeOK, Places
<1>6. CountsNoMore' /\ NothingIsDueEarly' /\ OneAtMost'
  BY <1>2 DEF Inv, CountsNoMore, NothingIsDueEarly, OneAtMost, Running
<1>7. LoopHasNone' /\ MainHasOne'
  BY <1>2, <1>4 DEF LoopHasNone, MainHasOne, Running
<1>8. QED
  BY <1>4, <1>5, <1>6, <1>7 DEF Inv

(* The timer is registered for what is left of the time of the least.      *)
LEMMA LoopRegistersInv == ASSUME Inv, LoopRegisters PROVE Inv'
<1>1. PICK t \in Ms, id \in Ids :
        /\ Least(t) /\ system' = system \cup {[id |-> id, due |-> Due(t)]}
        /\ timerID' = id
  BY DEF LoopRegisters
<1>2. /\ frames # <<>> /\ Return /\ Running /\ timerID = NoId /\ system = {}
      /\ UNCHANGED <<mode, ran, heap, now, elapsed, startTimer, failed>>
  BY <1>1 DEF LoopRegisters, Top, Inv, LoopHasNone, Empty, Least
<1>3. frames' \in Seq(Places) /\ Top' \in {"main", "expired"} /\ OuterFramesExpired'
  BY <1>2, Leaves
<1> DEFINE s == [id |-> id, due |-> Due(t)]
<1>4. t \in Nat /\ elapsed \in Nat /\ now \in Nat /\ startTimer \in Nat /\ startTimer <= now
  BY <1>2, ServiceAssumption DEF Inv, TypeOK, CountsNoMore
<1>5. /\ Due(t) \in Int /\ Unit * t \in Int /\ Unit * elapsed \in Int
      /\ Due(t) = now + (Unit * t - Unit * elapsed)
  <2>1. Unit * (t - elapsed) = Unit * t - Unit * elapsed
    BY <1>4, UnitDistributes
  <2>2. Unit * t \in Int /\ Unit * elapsed \in Int
    BY <1>4, UnitDistributes
  <2>3. QED
    BY <1>4, <2>1, <2>2 DEF Due
<1>6. system' = {s} /\ s \in [id : Ids, due : Int] /\ s.id = id /\ s.due = Due(t)
  BY <1>1, <1>2, <1>5
<1>7. TypeOK' /\ ~failed'
  BY <1>1, <1>2, <1>3, <1>6 DEF Inv, TypeOK, Places
<1>8. \A u \in Ms : Least(u) => u = t
  BY <1>1, ServiceAssumption DEF Least
<1>9. NothingIsDueEarly'
  <2>1. startTimer + Unit * t - Unit * elapsed <= s.due
    BY <1>4, <1>5, <1>6
  <2>2. \A u \in Ms : Least(u)' <=> Least(u)
    BY <1>2 DEF Least
  <2>3. QED
    BY <1>1, <1>2, <1>6, <1>8, <2>1, <2>2 DEF NothingIsDueEarly, Running
<1>10. CountsNoMore' /\ OneAtMost'
  BY <1>2, <1>6 DEF Inv, CountsNoMore, OneAtMost, Running
<1>11. LoopHasNone' /\ MainHasOne'
  BY <1>1, <1>3, TimersAssumption DEF LoopHasNone, MainHasOne
<1>12. QED
  BY <1>3, <1>7, <1>9, <1>10, <1>11 DEF Inv

(* The only timer of the system expires: it is the one that is registered, *)
(* and the heap has a least timer for it.                                  *)
LEMMA ExpiresForLeast ==
  ASSUME Inv, NEW s \in system, OnExpired(s)
  PROVE  \E t \in Ms :
           /\ Least(t) /\ Running /\ Unit * t <= ran /\ heap' = [heap EXCEPT ![t] = @ - 1]
           /\ heap' \in [Ms -> Nat]
<1>1. PICK t \in Ms : Least(t)
  BY DEF Inv, NothingIsDueEarly
<1>2. /\ Running /\ startTimer + Unit * t - Unit * elapsed <= s.due /\ s.due <= now
      /\ Unit * elapsed + (now - startTimer) <= ran
  BY <1>1 DEF Inv, NothingIsDueEarly, CountsNoMore, OnExpired
<1>3. /\ t \in Nat /\ elapsed \in Nat /\ now \in Nat /\ startTimer \in Nat
      /\ ran \in Nat /\ s.due \in Int
  BY ServiceAssumption DEF Inv, TypeOK
<1>4. Unit * t \in Int /\ Unit * elapsed \in Int
  BY <1>3, UnitDistributes
<1>5. Unit * t <= ran
  BY <1>2, <1>3, <1>4
<1>6. \A u \in Ms : Least(u) <=> u = t
  <2>1. \A u \in Ms : Least(u) => u = t
    BY <1>1, ServiceAssumption DEF Least
  <2>2. QED
    BY <1>1, <2>1
<1>7. heap \in [Ms -> Nat] /\ heap[t] > 0
  BY <1>1 DEF Inv, TypeOK, Least
<1>8. heap' = [u \in Ms |-> IF Least(u) THEN heap[u] - 1 ELSE heap[u]]
  BY DEF OnExpired
<1>9. heap' = [heap EXCEPT ![t] = @ - 1] /\ heap' \in [Ms -> Nat]
  <2>1. heap' = [u \in Ms |-> IF u = t THEN heap[u] - 1 ELSE heap[u]]
    BY <1>6, <1>8, Zenon
  <2>2. \A u \in Ms : (IF u = t THEN heap[u] - 1 ELSE heap[u]) \in Nat
    <3>1. \A u \in Ms : heap[u] \in Nat
      BY <1>7
    <3>2. heap[t] - 1 \in Nat
      BY <1>7, <3>1
    <3>3. QED
      BY <3>1, <3>2
  <2>3. heap' \in [Ms -> Nat]
    BY <2>1, <2>2
  <2>4. heap' = [heap EXCEPT ![t] = @ - 1]
    BY <1>7, <2>1
  <2>5. QED
    BY <2>3, <2>4
<1>10. QED
  BY <1>1, <1>2, <1>5, <1>9

LEMMA OnExpiredInv == ASSUME Inv, NEW s \in system, OnExpired(s) PROVE Inv'
<1>1. /\ system' = {} /\ timerID' = NoId /\ frames' = <<"expired">>
      /\ failed' = (timerID = NoId \/ Empty)
      /\ UNCHANGED <<mode, ran, now, elapsed, startTimer>>
  BY DEF OnExpired, Inv, OneAtMost
<1>2. timerID # NoId
  BY TimersAssumption DEF Inv, NothingIsDueEarly, TypeOK
<1>3. heap' \in [Ms -> Nat] /\ ~Empty
  BY ExpiresForLeast DEF Empty, Least, Inv, TypeOK
<1>4. failed' = FALSE
  BY <1>1, <1>2, <1>3
<1>5. /\ frames' \in Seq(Places) /\ Len(frames') = 1 /\ frames' # <<>>
      /\ frames'[1] = "expired"
  BY <1>1 DEF Places
<1>6. Top' = "expired" /\ OuterFramesExpired'
  BY <1>5 DEF Top, OuterFramesExpired
<1>7. TypeOK'
  BY <1>1, <1>3, <1>4, <1>5 DEF Inv, TypeOK, Places
<1>8. CountsNoMore' /\ NothingIsDueEarly' /\ OneAtMost'
  BY <1>1 DEF Inv, CountsNoMore, NothingIsDueEarly, OneAtMost, Running
<1>9. LoopHasNone' /\ MainHasOne'
  BY <1>6 DEF LoopHasNone, MainHasOne
<1>10. QED
  BY <1>4, <1>6, <1>7, <1>8, <1>9 DEF Inv

LEMMA LateReturnsInv == ASSUME Inv, LateReturns PROVE Inv'
<1>1. /\ frames # <<>> /\ Jump("loop") /\ timerID = NoId /\ system = {}
      /\ Running \/ Empty
      /\ UNCHANGED <<mode, ran, heap, now, elapsed, startTimer, timerID, system, failed>>
  BY DEF LateReturns, Top, Inv, LoopHasNone
<1>2. frames' \in Seq(Places) /\ Top' = "loop" /\ OuterFramesExpired'
  BY <1>1, ChangesPlace DEF Places
<1>3. TypeOK' /\ ~failed'
  BY <1>1, <1>2 DEF Inv, TypeOK, Places
<1>4. CountsNoMore' /\ NothingIsDueEarly' /\ OneAtMost'
  BY <1>1 DEF Inv, CountsNoMore, NothingIsDueEarly, OneAtMost, Running
<1>5. LoopHasNone' /\ MainHasOne'
  BY <1>1, <1>2 DEF LoopHasNone, MainHasOne, Running, Empty
<1>6. QED
  BY <1>2, <1>3, <1>4, <1>5 DEF Inv

LEMMA ExpiredReturnsInv == ASSUME Inv, ExpiredReturns PROVE Inv'
<1>1. frames # <<>> /\ UNCHANGED <<mode, ran, heap, now, failed>>
  BY DEF ExpiredReturns, Top
<1>2. CASE Running
  <2>1. CancelTimer /\ startTimer' = now /\ Jump("loop")
    BY <1>2 DEF ExpiredReturns
  <2>2. /\ system' = {} /\ timerID' = NoId
        /\ elapsed' \in Nat /\ Unit * elapsed' <= ran
    BY <1>2, <2>1, Cancelled
  <2>3. frames' \in Seq(Places) /\ Top' = "loop" /\ OuterFramesExpired'
    BY <1>1, <2>1, ChangesPlace DEF Places
  <2>4. TypeOK' /\ ~failed'
    BY <1>1, <2>1, <2>2, <2>3 DEF Inv, TypeOK, Places
  <2>5. CountsNoMore'
    BY <1>1, <1>2, <2>1, <2>2, CountsFromHere DEF Inv, TypeOK, Running
  <2>6. NothingIsDueEarly' /\ OneAtMost'
    BY <2>2 DEF NothingIsDueEarly, OneAtMost
  <2>7. LoopHasNone' /\ MainHasOne'
    BY <1>1, <1>2, <2>2, <2>3 DEF LoopHasNone, MainHasOne, Running
  <2>8. QED
    BY <2>3, <2>4, <2>5, <2>6, <2>7 DEF Inv
<1>3. CASE ~Running
  <2>1. Return /\ UNCHANGED <<elapsed, startTimer, timerID, system>>
    BY <1>3 DEF ExpiredReturns
  <2>2. frames' \in Seq(Places) /\ Top' \in {"main", "expired"} /\ OuterFramesExpired'
    BY <1>1, <2>1, Leaves
  <2>3. TypeOK' /\ ~failed'
    BY <1>1, <2>1, <2>2 DEF Inv, TypeOK, Places
  <2>4. CountsNoMore' /\ NothingIsDueEarly' /\ OneAtMost'
    BY <1>1, <1>3, <2>1 DEF Inv, CountsNoMore, NothingIsDueEarly, OneAtMost, Running
  <2>5. LoopHasNone' /\ MainHasOne'
    BY <1>1, <1>3, <2>2 DEF LoopHasNone, MainHasOne, Running
  <2>6. QED
    BY <2>2, <2>3, <2>4, <2>5 DEF Inv
<1>4. QED
  BY <1>2, <1>3

LEMMA TickInv == ASSUME Inv, Tick PROVE Inv'
<1>1. /\ now' = now + 1 /\ ran' = IF Running THEN ran + 1 ELSE ran
      /\ UNCHANGED <<mode, heap, elapsed, startTimer, timerID, system, frames, failed>>
  BY DEF Tick
<1>2. now \in Nat /\ ran \in Nat /\ startTimer \in Nat /\ Unit * elapsed \in Int
  BY UnitDistributes DEF Inv, TypeOK
<1>3. TypeOK' /\ ~failed'
  BY <1>1, <1>2 DEF Inv, TypeOK
<1>4. CountsNoMore'
  BY <1>1, <1>2 DEF Inv, CountsNoMore, Running
<1>5. NothingIsDueEarly'
  <2>1. \A u \in Ms : Least(u)' <=> Least(u)
    BY <1>1 DEF Least
  <2>2. QED
    BY <1>1, <2>1 DEF Inv, NothingIsDueEarly, Running
<1>6. OneAtMost' /\ OuterFramesExpired' /\ LoopHasNone' /\ MainHasOne'
  BY <1>1 DEF Inv, OneAtMost, OuterFramesExpired, LoopHasNone, MainHasOne, Running, Empty, Top
<1>7. QED
  BY <1>3, <1>4, <1>5, <1>6 DEF Inv

LEMMA NextInv ==
  ASSUME Inv, LateOps \subseteq {"stop"}, [Next]_vars
  PROVE  Inv'
<1>1. CASE Methods
  BY <1>1, AddTimerInv, StartInv, UnpauseInv, PauseInv, StopInv DEF Methods
<1>2. CASE Loop
  BY <1>2, LoopEndsInv, LoopDispatchesInv, LoopRegistersInv DEF Loop
<1>3. CASE Expiry
  BY <1>3, OnExpiredInv DEF Expiry
<1>4. CASE Returns
  BY <1>4, LateReturnsInv, ExpiredReturnsInv DEF Returns
<1>5. CASE Tick
  BY <1>5, TickInv
<1>6. CASE UNCHANGED vars
  <2>1. UNCHANGED <<mode, ran, heap, now, elapsed, startTimer, timerID, system, frames, failed>>
    BY <1>6 DEF vars
  <2>2. TypeOK' /\ ~failed'
    BY <2>1 DEF Inv, TypeOK
  <2>3. CountsNoMore' /\ OneAtMost' /\ OuterFramesExpired' /\ LoopHasNone' /\ MainHasOne'
    BY <2>1 DEF Inv, CountsNoMore, OneAtMost, OuterFramesExpired, LoopHasNone,
                MainHasOne, Running, Empty, Top
  <2>4. NothingIsDueEarly'
    BY <2>1 DEF Inv, NothingIsDueEarly, Running, Least
  <2>5. QED
    BY <2>2, <2>3, <2>4 DEF Inv
<1>7. QED
  BY <1>1, <1>2, <1>3, <1>4, <1>5, <1>6 DEF Next

-----------------------------------------------------------------------------
(* What follows is about players whose callbacks, when startTimer()        *)
(* dispatches them, do nothing to the time line or stop it.                *)

THEOREM InvHolds == ASSUME LateOps \subseteq {"stop"} PROVE Spec => []Inv
<1>1. Init => Inv
  BY InitInv
<1>2. Inv /\ [Next]_vars => Inv'
  BY NextInv
<1>3. QED
  BY <1>1, <1>2, PTL DEF Spec

(* The variables of the time line, the system's timers and the stack of    *)
(* activations keep their types.                                           *)
THEOREM TypeCorrect == ASSUME LateOps \subseteq {"stop"} PROVE Spec => []TypeOK
<1>1. Inv => TypeOK
  BY DEF Inv
<1>2. QED
  BY <1>1, InvHolds, PTL

(* The assertion at the head of onExpired() holds, and the heap it looks   *)
(* at is not empty.                                                        *)
THEOREM AssertionHolds ==
  ASSUME LateOps \subseteq {"stop"} PROVE Spec => []ExpiresAsRegistered
<1>1. Inv => ExpiresAsRegistered
  BY DEF Inv, ExpiresAsRegistered
<1>2. QED
  BY <1>1, InvHolds, PTL

(* In between activations the system has the one timer the time line       *)
(* waits for: cancelTimer() leaves none behind and startTimer() none out.  *)
THEOREM OneTimer == ASSUME LateOps \subseteq {"stop"} PROVE Spec => []OneSystemTimer
<1>1. Inv => OneSystemTimer
  <2> SUFFICES ASSUME Inv, frames = <<>>
               PROVE  IF Running /\ ~Empty
                        THEN \E s \in system : system = {s} /\ s.id = timerID
                        ELSE system = {} /\ timerID = NoId
    BY DEF OneSystemTimer
  <2>1. CASE Running /\ ~Empty
    <3>1. timerID # NoId
      BY <2>1 DEF Inv, MainHasOne, Top
    <3>2. PICK s \in system : TRUE
      BY <3>1 DEF Inv, OneAtMost
    <3>3. system = {s} /\ s.id = timerID
      BY <3>2 DEF Inv, OneAtMost, NothingIsDueEarly
    <3>4. QED
      BY <2>1, <3>3
  <2>2. CASE ~(Running /\ ~Empty)
    <3>1. system = {}
      BY <2>2 DEF Inv, NothingIsDueEarly, Least, Empty
    <3>2. timerID = NoId
      BY <3>1 DEF Inv, OneAtMost
    <3>3. QED
      BY <2>2, <3>1, <3>2
  <2>3. QED
    BY <2>1, <2>2
<1>2. QED
  BY <1>1, InvHolds, PTL

-----------------------------------------------------------------------------
(* The time line implements the service.                                   *)

\* A timer that is late by what has been counted is late by the clock.
LEMMA LateIsDue ==
  ASSUME Inv, Running, NEW t \in Ms, IsLate(t)
  PROVE  Unit * t <= ran
<1>1. /\ t \in Nat /\ elapsed \in Nat /\ now \in Nat /\ startTimer \in Nat /\ ran \in Nat
      /\ startTimer <= now /\ Unit * elapsed + (now - startTimer) <= ran /\ t <= elapsed
  BY ServiceAssumption DEF Inv, TypeOK, CountsNoMore, IsLate
<1>2. Unit * t <= Unit * elapsed /\ Unit * t \in Int /\ Unit * elapsed \in Int
  BY <1>1, UnitMonotone, UnitDistributes
<1>3. QED
  BY <1>1, <1>2

LEMMA LoopDispatchesIsDispatch == ASSUME Inv, LoopDispatches PROVE Dispatch
<1>1. PICK t \in Ms : Least(t) /\ IsLate(t) /\ Dispatches(t) /\ Top = "loop"
                      /\ UNCHANGED <<mode, ran>>
  BY DEF LoopDispatches
<1>2. Running
  BY <1>1 DEF Inv, LoopHasNone, Empty, Least
<1>3. Unit * t <= ran
  BY <1>1, <1>2, LateIsDue
<1>4. QED
  BY <1>1, <1>2, <1>3 DEF Dispatch, Running

LEMMA OnExpiredIsDispatch ==
  ASSUME Inv, NEW s \in system, OnExpired(s)
  PROVE  Dispatch
<1>1. UNCHANGED <<mode, ran>>
  BY DEF OnExpired
<1>2. PICK t \in Ms : /\ Least(t) /\ Running /\ Unit * t <= ran
                      /\ heap' = [heap EXCEPT ![t] = @ - 1]
  BY ExpiresForLeast
<1>3. QED
  BY <1>1, <1>2 DEF Dispatch, Dispatches, Running

LEMMA StepsAreService ==
  ASSUME Inv, [Next]_vars
  PROVE  [ServiceNext]_serviceVars
<1>1. ASSUME NEW t \in Ms, AddTimer(t) PROVE Add
  BY <1>1 DEF AddTimer, Add
<1>2. Start => Begin
  BY DEF Start, Begin, Resumes, Running
<1>3. Unpause => Release
  BY DEF Unpause, Release, Resumes
<1>4. Pause => Hold
  BY DEF Pause, Hold, Running
<1>5. Stop => End
  BY DEF Stop, End
<1>6. LoopEnds \/ LoopRegisters \/ Returns => UNCHANGED serviceVars
  BY DEF LoopEnds, LoopRegisters, Returns, LateReturns, ExpiredReturns, serviceVars
<1>7. LoopDispatches => Dispatch
  BY LoopDispatchesIsDispatch
<1>8. Expiry => Dispatch
  BY OnExpiredIsDispatch DEF Expiry
<1>9. Tick => Pass \/ UNCHANGED serviceVars
  BY DEF Tick, Pass, serviceVars, Running
<1>10. UNCHANGED vars => UNCHANGED serviceVars
  BY DEF vars, serviceVars
<1>11. QED
  BY <1>1, <1>2, <1>3, <1>4, <1>5, <1>6, <1>7, <1>8, <1>9, <1>10
     DEF Next, Methods, Loop, ServiceNext

(* Whatever its callers do, the time line is a clock with timers that are  *)
(* dispatched once each, the least first and never early; and stop()       *)
(* leaves none of them behind.                                             *)
THEOREM ImplementsService == ASSUME LateOps \subseteq {"stop"} PROVE Spec => Service
<1>1. Init => ServiceInit
  BY DEF Init
<1>2. Inv /\ [Next]_vars => [ServiceNext]_serviceVars
  BY StepsAreService
<1>3. QED
  BY <1>1, <1>2, InvHolds, PTL DEF Spec, Service, ServiceSpec

(* No timer leaves the heap before its time, unless stop() empties it.     *)
THEOREM NeverEarly == ASSUME LateOps \subseteq {"stop"} PROVE Spec => NothingEarly
<1> DEFINE Early(t) == heap'[t] < heap[t] /\ mode' # "stopped"
<1>1. ASSUME Inv, [Next]_vars, NEW t \in Ms, Early(t)
      PROVE  Running /\ Unit * t <= ran
  <2>0. heap \in [Ms -> Nat]
    BY <1>1 DEF Inv, TypeOK
  <2>1. [ServiceNext]_serviceVars
    BY <1>1, StepsAreService
  <2>2. CASE Add
    BY <1>1, <2>0, <2>2 DEF Add
  <2>3. CASE Dispatch
    <3>1. PICK u \in Ms : mode = "running" /\ Unit * u <= ran /\ Dispatches(u)
      BY <2>3 DEF Dispatch
    <3>2. u = t
      BY <1>1, <2>0, <3>1 DEF Dispatches
    <3>3. QED
      BY <3>1, <3>2 DEF Running
  <2>4. CASE End
    BY <1>1, <2>4 DEF End
  <2>5. CASE UNCHANGED heap
    BY <1>1, <2>0, <2>5
  <2>6. QED
    BY <2>1, <2>2, <2>3, <2>4, <2>5
       DEF ServiceNext, serviceVars, Begin, Hold, Release, Pass
<1>2. Inv /\ [Next]_vars
        => [\A t \in Ms : Early(t) => Running /\ Unit * t <= ran]_vars
  BY <1>1
<1>3. QED
  BY <1>2, InvHolds, PTL DEF Spec, NothingEarly
=============================================================================
