------------------------- MODULE CompositionProofs -------------------------
(***************************************************************************)
(* For any objects, links, actions and depth of calls: the composition     *)
(* holds what its objects are, counts the runs of its links, and ends when *)
(* nothing in it runs or is still to run.                                  *)
(*                                                                         *)
(* The invariant IInv has a part for each.  ObjectsInv: the frames that    *)
(* tell of an object say what it was, which is what the composition, told  *)
(* last, still holds.  LinksInv: each run of a link is on the stack once,  *)
(* and the counters are cardinalities of sets of tokens (places in the     *)
(* stack and timers).  StartsInv and EndsInTime: who remembers that it     *)
(* started something has, and it is being told or it runs.                 *)
(*                                                                         *)
(* The last part is about the switches of a composition (module Switch).   *)
(***************************************************************************)
EXTENDS Composition, Switch, FiniteSetTheorems, SequenceTheorems, WellFoundedInduction, TLAPS

MediaStates == {"SLEEPING", "OCCURRING", "PAUSED", "ABORTED"}

ChildType == [st : MediaStates, prepared : BOOLEAN, player : BOOLEAN, pauseCount : Nat]

CompositeType ==
    [whole : {"SLEEPING", "OCCURRING", "PAUSED"}, running : SUBSET Media, paused : SUBSET Media,
     pending : [Links -> Nat], last : {"stop", "abort"}]

DispatchFrames == [call : {"dispatch"}, who : Media, what : Acts, prev : MediaStates, due : SUBSET Links]
AfterFrames    == [call : {"after"}, who : Media, what : Acts \ {"start"}]
ActionsFrames  == [call : {"actions"}, who : Links, at : 1..MaxActs, upto : 1..MaxActs,
                   expired : BOOLEAN, run : BOOLEAN]
ComposeFrames  == [call : {"compose"}, what : Acts, todo : Seq(Media) \ {<<>>}]
Frames == DispatchFrames \cup AfterFrames \cup ActionsFrames \cup ComposeFrames

TypeInv ==
    /\ links \in [Links -> LinkSet]
    /\ child \in [Media -> ChildType]
    /\ composite \in CompositeType
    /\ compound \in [Links -> [pendingActions : Int, hasStart : BOOLEAN]]
    /\ delayed \in [Links \X (0..MaxActs) -> 0..MaxDelayed]
    /\ stack \in Seq(Frames)
    /\ failed \in BOOLEAN /\ reentered \in BOOLEAN

-----------------------------------------------------------------------------
(* The objects.  "s" stands for the stack, "h" for child, "c" for          *)
(* composite.                                                              *)

IsDispatch(s, k, m) == s[k].call = "dispatch" /\ s[k].who = m
IsAfter(s, k, m)    == s[k].call = "after" /\ s[k].who = m
Told(s, m)     == \E k \in DOMAIN s : IsDispatch(s, k, m)
Awaited(s, m)  == \E k \in DOMAIN s : IsAfter(s, k, m)

\* What the state of an object comes to when all have heard of the transition.
Settled == [start |-> "OCCURRING", stop |-> "SLEEPING", abort |-> "SLEEPING",
            pause |-> "PAUSED", resume |-> "OCCURRING"]

\* One transition of an object is told at a time, and the composition, which hears of
\* it last, has the object until then where it was before.
TellsRight(s, h, c) == \A k \in DOMAIN s : s[k].call = "dispatch" =>
    /\ s[k].prev \in From[s[k].what]
    /\ h[s[k].who].st = To[s[k].what] /\ h[s[k].who].prepared
    /\ s[k].who \in c.running <=> s[k].prev = "OCCURRING"
    /\ s[k].who \in c.paused <=> s[k].prev = "PAUSED"

TellsOnce(s) == \A j, k \in DOMAIN s :
    s[j].call = "dispatch" /\ s[k].call = "dispatch" /\ s[j].who = s[k].who => j = k

AwaitsRight(s, h) == \A j \in DOMAIN s : s[j].call = "after" =>
    /\ ~Told(s, s[j].who) => h[s[j].who].st = Settled[s[j].what]
    /\ \A k \in DOMAIN s : IsDispatch(s, k, s[j].who) => j < k /\ s[k].what = s[j].what

UntoldAgree(s, h, c) == \A m \in Media : ~Told(s, m) =>
    /\ m \in c.running <=> h[m].st = "OCCURRING"
    /\ m \in c.paused <=> h[m].st = "PAUSED"
    /\ h[m].st # "ABORTED"

PausesCount(s, h) == \A m \in Media :
    /\ ~h[m].player => h[m].st = "SLEEPING"
    /\ ~Awaited(s, m) => (h[m].pauseCount > 0 <=> h[m].st = "PAUSED")

WholeCovers(c) == c.whole = "SLEEPING" => NoneActive(c)

ObjectsInv(s, h, c) ==
    /\ TellsRight(s, h, c) /\ TellsOnce(s) /\ AwaitsRight(s, h)
    /\ UntoldAgree(s, h, c) /\ PausesCount(s, h) /\ WholeCovers(c)

-----------------------------------------------------------------------------
(* The links: "ls" stands for links, "p" for composite.pending, "q" for    *)
(* compound, "y" for delayed.                                              *)

Prompt(ls, l) == \A i \in DOMAIN ls[l].acts : ~ls[l].acts[i].delay
Runs(s, k, l) == s[k].call = "actions" /\ s[k].who = l
IsRun(s, l)   == \E k \in DOMAIN s : Runs(s, k, l)

DueAreDue(s, ls) == \A k \in DOMAIN s : s[k].call = "dispatch" =>
    \A l \in s[k].due : ls[l].on = s[k].who /\ ls[l].tr = s[k].what

\* The call of the transition that a link reacts to, which has told the link.
Triggers(s, k, ls, l) == IsDispatch(s, k, ls[l].on) /\ s[k].what = ls[l].tr /\ l \notin s[k].due

\* The run of a link is either one of its delayed actions, at the bottom of the stack,
\* or all of them from the first, which at the bottom only a delay can have begun.
RunsRight(s, ls) == \A k \in DOMAIN s : s[k].call = "actions" =>
    /\ s[k].at <= s[k].upto /\ s[k].upto <= Len(ls[s[k].who].acts)
    /\ s[k].expired => k = 1 /\ s[k].at = s[k].upto /\ ls[s[k].who].acts[s[k].at].delay
    /\ ~s[k].expired => s[k].upto = Len(ls[s[k].who].acts)
    /\ ls[s[k].who].delay => k = 1
    /\ ~ls[s[k].who].delay /\ ~s[k].expired
          => \E j \in DOMAIN s : j < k /\ Triggers(s, j, ls, s[k].who)

RunsOnce(s) == \A j, k \in DOMAIN s :
    /\ s[j].call = "actions" /\ s[k].call = "actions" /\ s[j].who = s[k].who
    /\ ~s[j].expired /\ ~s[k].expired
    => j = k

DelaysAreDue(ls, y) == \A l \in Links :
    /\ y[<<l, 0>>] > 0 => ls[l].delay
    /\ \A i \in 1..MaxActs : y[<<l, i>>] > 0 => i <= Len(ls[l].acts) /\ ls[l].acts[i].delay

PromptPending(s, ls, p, y) == \A l \in Links : Prompt(ls, l) =>
    p[l] = y[<<l, 0>>] + (IF IsRun(s, l) THEN 1 ELSE 0)

PromptCounts(s, ls, q) == \A k \in DOMAIN s :
    s[k].call = "actions" /\ Prompt(ls, s[k].who) /\ Len(ls[s[k].who].acts) > 1
        => q[s[k].who].pendingActions = s[k].upto - s[k].at + 1

LinksInv(s, ls, p, q, y) ==
    /\ DueAreDue(s, ls) /\ RunsRight(s, ls) /\ RunsOnce(s) /\ DelaysAreDue(ls, y)
    /\ PromptPending(s, ls, p, y) /\ PromptCounts(s, ls, q)

-----------------------------------------------------------------------------
(* What is left of the runs of a link: a token for each action that waits  *)
(* for its delay, and for each that the calls under way have yet to do.    *)

Waiting(y, l) == {t \in (1..MaxActs) \X (1..MaxDelayed) : t[2] <= y[<<l, t[1]>>]}
Called(s, l) == {t \in (DOMAIN s) \X (1..MaxActs) :
                    Runs(s, t[1], l) /\ s[t[1]].at <= t[2] /\ t[2] <= s[t[1]].upto}
ToDo(s, y, l) == Cardinality(Waiting(y, l)) + Cardinality(Called(s, l))
Begins(p, y, l) == p[l] - y[<<l, 0>>]

\* pendingLinks never forgets a run that has something left to do; for that a compound
\* action, which counts the actions of its last run only, may not count them short.
\* "b" runs have begun and not ended, and have "w" of "n" actions each left to do, of
\* which the last run has "a".
Counted(b, w, n, a) ==
    /\ b >= 0
    /\ n = 1 => b = w
    /\ b = 0 => w = 0
    /\ n > 1 /\ b = 1 /\ a > 0 => w <= a

ToDoCounted(s, ls, p, q, y) == \A l \in Links :
    Counted(Begins(p, y, l), ToDo(s, y, l), Len(ls[l].acts), q[l].pendingActions)

-----------------------------------------------------------------------------
(* The actions that start an object.                                       *)

Starts(ls, l, i) == ls[l].acts[i].what = "start"
StartTold(s) == \E k \in DOMAIN s : s[k].call = "dispatch" /\ s[k].what = "start"
HasStarted(s, k, ls) == s[k].call = "actions" /\ s[k].run /\ Starts(ls, s[k].who, s[k].at)

\* Until the action that starts an object returns, the start is told above it.
StartsAbove(s, ls) == \A k \in DOMAIN s : HasStarted(s, k, ls) /\ k + 1 \in DOMAIN s =>
    s[k + 1].call = "dispatch" /\ s[k + 1].what = "start"

TopStarted(s, ls, c, f) == \A k \in DOMAIN s : HasStarted(s, k, ls) /\ k + 1 \notin DOMAIN s =>
    f \/ StartTold(s) \/ ~NoneActive(c)

HasStartTrue(ls, q) == \A l \in Links :
    q[l].hasStart => \E i \in DOMAIN ls[l].acts : Starts(ls, l, i)

EndsInTime(s, c) == c.whole # "SLEEPING" /\ NothingLeft(c) => StartTold(s)

StartsInv(s, ls, c, q, f) == StartsAbove(s, ls) /\ TopStarted(s, ls, c, f) /\ HasStartTrue(ls, q)

IInv ==
    /\ TypeInv
    /\ ObjectsInv(stack, child, composite)
    /\ LinksInv(stack, links, composite.pending, compound, delayed)
    /\ ToDoCounted(stack, links, composite.pending, compound, delayed)
    /\ StartsInv(stack, links, composite, compound, failed)
    /\ ~failed /\ ~DelayedActions /\ StartsLast => EndsInTime(stack, composite)

-----------------------------------------------------------------------------
(* Stacks. *)

LEMMA BelowTop ==
  ASSUME stack \in Seq(Frames), ~Free
  PROVE  /\ Len(stack) \in Nat \ {0} /\ DOMAIN stack = 1..Len(stack)
         /\ Top \in Frames /\ Top = stack[Len(stack)] /\ Len(stack) \in DOMAIN stack
         /\ Below \in Seq(Frames) /\ DOMAIN Below = 1..(Len(stack) - 1)
         /\ Len(Below) = Len(stack) - 1
         /\ \A k \in 1..(Len(stack) - 1) : Below[k] = stack[k]
<1> DEFINE n == Len(stack)
<1>1. n \in Nat \ {0} /\ DOMAIN stack = 1..n /\ \A k \in 1..n : stack[k] \in Frames
  BY EmptySeq, LenProperties DEF Free
<1>2. /\ Below \in Seq(Frames)
      /\ Len(Below) = IF 1 <= n - 1 THEN n - 1 - 1 + 1 ELSE 0
      /\ \A k \in 1..(n - 1 - 1 + 1) : Below[k] = stack[1 + k - 1]
  <2>1. \A k \in 1..(n - 1) : stack[k] \in Frames
    BY <1>1
  <2>2. n - 1 \in Int
    BY <1>1
  <2>3. QED
    BY <2>1, <2>2, SubSeqProperties DEF Below
<1>3. DOMAIN Below = 1..Len(Below)
  BY <1>2, LenProperties
<1> HIDE DEF n
<1>4. Len(Below) = n - 1 /\ \A k \in 1..(n - 1) : Below[k] = stack[k]
  BY <1>1, <1>2
<1>5. Top = stack[n] /\ n \in 1..n /\ Top \in Frames
  BY <1>1 DEF Top, n
<1>6. QED
  BY <1>1, <1>2, <1>3, <1>4, <1>5 DEF n

LEMMA PushOne ==
  ASSUME NEW s \in Seq(Frames), NEW f \in Frames
  PROVE  /\ s \o <<f>> \in Seq(Frames) /\ DOMAIN (s \o <<f>>) = 1..(Len(s) + 1)
         /\ Len(s \o <<f>>) = Len(s) + 1
         /\ (s \o <<f>>)[Len(s) + 1] = f /\ \A k \in 1..Len(s) : (s \o <<f>>)[k] = s[k]
<1>1. <<f>> \in Seq(Frames) /\ Len(<<f>>) = 1 /\ Len(s) \in Nat
  BY LenProperties
<1>2. QED
  BY <1>1, ConcatProperties, LenProperties

LEMMA OneFrame ==
  ASSUME NEW f \in Frames
  PROVE  /\ <<f>> \in Seq(Frames) /\ Len(<<f>>) = 1 /\ DOMAIN <<f>> = {1} /\ <<f>>[1] = f
<1>1. <<f>> \in Seq(Frames) /\ Len(<<f>>) = 1 /\ <<f>>[1] = f
  OBVIOUS
<1>2. DOMAIN <<f>> = 1..1
  BY <1>1, LenProperties
<1>3. QED
  BY <1>1, <1>2

LEMMA PushTwo ==
  ASSUME NEW s \in Seq(Frames), NEW f \in Frames, NEW g \in Frames
  PROVE  LET t == s \o (<<f>> \o <<g>>) IN
         /\ t \in Seq(Frames) /\ DOMAIN t = 1..(Len(s) + 2) /\ Len(t) = Len(s) + 2
         /\ t[Len(s) + 1] = f /\ t[Len(s) + 2] = g /\ \A k \in 1..Len(s) : t[k] = s[k]
<1> DEFINE u == <<f>> \o <<g>>
<1>1. u \in Seq(Frames) /\ Len(u) = 2 /\ u[1] = f /\ u[2] = g
  <2>1. <<f>> \in Seq(Frames) /\ Len(<<f>>) = 1 /\ <<f>>[1] = f
    OBVIOUS
  <2>2. QED
    BY <2>1, PushOne
<1>2. Len(s) \in Nat
  BY LenProperties
<1> HIDE DEF u
<1>3. QED
  BY <1>1, <1>2, ConcatProperties, LenProperties DEF u

LEMMA AppendBelow ==
  ASSUME stack \in Seq(Frames), ~Free, NEW f \in Frames
  PROVE  LET s == Append(Below, f) IN
         /\ s \in Seq(Frames) /\ DOMAIN s = 1..Len(stack) /\ Len(s) = Len(stack)
         /\ s[Len(stack)] = f /\ \A k \in 1..(Len(stack) - 1) : s[k] = stack[k]
<1>1. /\ Below \in Seq(Frames) /\ Len(Below) = Len(stack) - 1 /\ Len(stack) \in Nat \ {0}
      /\ \A k \in 1..(Len(stack) - 1) : Below[k] = stack[k]
  BY BelowTop
<1>2. Append(Below, f) = Below \o <<f>>
  BY <1>1
<1>3. QED
  BY <1>1, <1>2, PushOne

-----------------------------------------------------------------------------
(* Types. *)

LEMMA LinkTypes ==
  ASSUME TypeInv, NEW l \in Links
  PROVE  /\ links[l].on \in Media /\ links[l].tr \in Acts /\ links[l].delay \in BOOLEAN
         /\ links[l].acts \in Seq([what : Acts, who : Media, delay : BOOLEAN])
         /\ Len(links[l].acts) \in 1..MaxActs /\ Len(links[l].acts) \in Nat /\ MaxActs \in Nat
         /\ DOMAIN links[l].acts = 1..Len(links[l].acts)
         /\ \A i \in 1..Len(links[l].acts) : /\ links[l].acts[i].what \in Acts /\ links[l].acts[i].who \in Media
                                        /\ links[l].acts[i].delay \in BOOLEAN
<1>1. IsLink(links[l]) /\ MaxActs \in Nat
  BY CompositionAssumption DEF TypeInv
<1>2. /\ links[l].acts \in Seq([what : Acts, who : Media, delay : BOOLEAN])
      /\ Len(links[l].acts) \in 1..MaxActs
  BY <1>1 DEF IsLink
<1>3. /\ DOMAIN links[l].acts = 1..Len(links[l].acts) /\ Len(links[l].acts) \in Nat
      /\ \A i \in 1..Len(links[l].acts) : links[l].acts[i] \in [what : Acts, who : Media, delay : BOOLEAN]
  BY <1>2, LenProperties, ElementOfSeq
<1>4. QED
  BY <1>1, <1>2, <1>3 DEF IsLink

LEMMA FrameTypes ==
  ASSUME NEW f \in Frames
  PROVE  /\ f.call = "dispatch" => f \in DispatchFrames
         /\ f.call = "after" => f \in AfterFrames
         /\ f.call = "actions" => f \in ActionsFrames
         /\ f.call = "compose" => f \in ComposeFrames
         /\ f.call \in {"dispatch", "after", "actions", "compose"}
BY DEF Frames, DispatchFrames, AfterFrames, ActionsFrames, ComposeFrames

LEMMA DispatchType ==
  ASSUME TypeInv, NEW m \in Media, NEW tr \in Acts
  PROVE  /\ Dispatch(m, tr) \in Frames /\ Dispatch(m, tr).call = "dispatch"
         /\ Dispatch(m, tr).who = m /\ Dispatch(m, tr).what = tr
         /\ Dispatch(m, tr).prev = child[m].st
         /\ Dispatch(m, tr).due = {l \in Links : links[l].on = m /\ links[l].tr = tr}
BY DEF TypeInv, ChildType, Dispatch, Frames, DispatchFrames

LEMMA AfterType ==
  ASSUME NEW m \in Media, NEW act \in Acts \ {"start"}
  PROVE  After(act, m) \in Frames
BY DEF After, Frames, AfterFrames

LEMMA ActionsType ==
  ASSUME NEW l \in Links, NEW i \in 1..MaxActs, NEW n \in 1..MaxActs, NEW expired \in BOOLEAN
  PROVE  Actions(l, i, n, expired) \in Frames
BY DEF Actions, Frames, ActionsFrames

\* What an action on the object m does to the stack and to the object.
Effect(act, m, rest) ==
    \/ /\ NoEffect(act, m)
       /\ stack' = rest /\ UNCHANGED <<child, failed, reentered>>
    \/ /\ Busy(m) /\ reentered' = TRUE /\ UNCHANGED <<stack, child, failed>>
    \/ /\ ~Busy(m) /\ act = "start" /\ Asleep(m)
       /\ child' = Played(m, "OCCURRING")
       /\ stack' = rest \o <<Dispatch(m, act)>>
       /\ UNCHANGED <<failed, reentered>>
    \/ /\ ~Busy(m) /\ act # "start" /\ child[m].st \in From[act]
       /\ child' = Played(m, To[act])
       /\ stack' = rest \o (<<After(act, m)>> \o <<Dispatch(m, act)>>)
       /\ UNCHANGED <<failed, reentered>>
    \/ /\ ~Busy(m) /\ act = "start" /\ Asleep(m)
       /\ child' \in {child, Played(m, "SLEEPING")}
       /\ failed' = TRUE /\ stack' = rest /\ UNCHANGED reentered
    \/ /\ ~Busy(m) /\ act # "start" /\ Asleep(m)
       /\ child' = [child EXCEPT ![m] = Unplayed]
       /\ stack' = rest /\ UNCHANGED <<failed, reentered>>
    \/ /\ ~Busy(m) /\ act \in {"pause", "resume"}
       /\ \E n \in Nat \ {0} : child' = [child EXCEPT ![m].pauseCount = n]
       /\ child[m].pauseCount > 0
       /\ stack' = rest /\ UNCHANGED <<failed, reentered>>

LEMMA RunMediaEffect ==
  ASSUME TypeInv, ObjectsInv(stack, child, composite), NEW act \in Acts, NEW m \in Media, NEW rest,
         RunMedia(act, m, rest)
  PROVE  Effect(act, m, rest)
<1> USE DEF RunMedia, Effect
<1>1. child[m] \in ChildType
  BY DEF TypeInv
<1>2. CASE NoEffect(act, m) \/ Busy(m)
  BY <1>2
<1>3. CASE ~NoEffect(act, m) /\ ~Busy(m)
  <2>1. ~Told(stack, m) /\ ~Awaited(stack, m)
    BY <1>3 DEF Busy, Told, Awaited, IsDispatch, IsAfter
  <2>2. /\ child[m].st \in {"SLEEPING", "OCCURRING", "PAUSED"}
        /\ ~child[m].player => Asleep(m)
        /\ child[m].pauseCount > 0 <=> child[m].st = "PAUSED"
    BY <1>1, <2>1 DEF ObjectsInv, UntoldAgree, PausesCount, ChildType, MediaStates, Asleep
  <2>3. CASE act = "start"
    <3>1. Asleep(m)
      BY <1>3, <2>2, <2>3 DEF NoEffect, HasPrepared
    <3>2. ASSUME StartPlayed(m, rest)
          PROVE  /\ child' = Played(m, "OCCURRING") /\ stack' = rest \o <<Dispatch(m, act)>>
                 /\ UNCHANGED <<failed, reentered>>
      <4>1. ChangeChild(m, "start", <<>>, rest) /\ To["start"] = "OCCURRING"
        BY <3>2 DEF StartPlayed, To
      <4>2. <<>> \o <<Dispatch(m, act)>> = <<Dispatch(m, act)>>
        OBVIOUS
      <4>3. QED
        BY <2>3, <4>1, <4>2 DEF ChangeChild, Push
    <3>3. ASSUME StartFailed(m, rest)
          PROVE  /\ child' \in {child, Played(m, "SLEEPING")}
                 /\ failed' = TRUE /\ stack' = rest /\ UNCHANGED reentered
      BY <3>3 DEF StartFailed
    <3>4. QED
      BY <1>3, <2>3, <3>1, <3>2, <3>3
  <2>4. CASE act # "start"
    <3>1. ASSUME ChangeChild(m, act, <<After(act, m)>>, rest)
          PROVE  /\ child' = Played(m, To[act])
                 /\ stack' = rest \o (<<After(act, m)>> \o <<Dispatch(m, act)>>)
                 /\ UNCHANGED <<failed, reentered>>
      BY <3>1 DEF ChangeChild, Push
    <3>2. ~NoEffect(act, m) =>
            /\ act = "pause" /\ child[m].pauseCount = 0 => child[m].st \in From[act]
            /\ act \in {"stop", "abort"} /\ ~Asleep(m) => child[m].st \in From[act]
            /\ act = "resume" /\ child[m].pauseCount = 1 => child[m].st \in From[act]
      BY <2>2 DEF NoEffect, HasPrepared, Asleep, From
    <3>3. ASSUME NEW n \in {1, -1}, CountPause(m, n, rest),
                 child[m].pauseCount > 0, n = -1 => child[m].pauseCount > 1
          PROVE  /\ \E k \in Nat \ {0} : child' = [child EXCEPT ![m].pauseCount = k]
                 /\ stack' = rest /\ UNCHANGED <<failed, reentered>>
      <4>1. child[m].pauseCount + n \in Nat \ {0}
        BY <1>1, <3>3 DEF ChildType
      <4>2. QED
        BY <3>3, <4>1 DEF CountPause
    <3>4. CASE act \in {"stop", "abort"}
      <4>1. \/ act = "stop" /\ Asleep(m) /\ StopAsleep(m, rest)
            \/ ~Asleep(m) /\ ChangeChild(m, act, <<After(act, m)>>, rest)
        BY <1>3, <2>4, <3>4 DEF CountPause
      <4>2. QED
        BY <1>3, <2>4, <3>1, <3>2, <3>4, <4>1 DEF StopAsleep
    <3>5. CASE act \in {"pause", "resume"}
      <4>1. \/ /\ child[m].st \in From[act]
               /\ ChangeChild(m, act, <<After(act, m)>>, rest)
            \/ \E n \in {1, -1} : /\ CountPause(m, n, rest) /\ child[m].pauseCount > 0
                                  /\ n = -1 => child[m].pauseCount > 1
        <5>1. child[m].pauseCount \in Nat
          BY <1>1 DEF ChildType
        <5>2. QED
          BY <1>3, <2>4, <3>2, <3>5, <5>1
      <4>2. CASE child[m].st \in From[act] /\ ChangeChild(m, act, <<After(act, m)>>, rest)
        BY <1>3, <2>4, <3>1, <4>2
      <4>3. CASE \E n \in {1, -1} : /\ CountPause(m, n, rest) /\ child[m].pauseCount > 0
                                    /\ n = -1 => child[m].pauseCount > 1
        BY <1>3, <3>3, <3>5, <4>3
      <4>4. QED
        BY <4>1, <4>2, <4>3
    <3>6. QED
      BY <3>4, <3>5, <2>4 DEF Acts
  <2>5. QED
    BY <2>3, <2>4
<1>4. QED
  BY <1>2, <1>3

LEMMA RunMediaTypes ==
  ASSUME TypeInv, ObjectsInv(stack, child, composite), NEW act \in Acts, NEW m \in Media, NEW rest \in Seq(Frames),
         RunMedia(act, m, rest)
  PROVE  /\ child' \in [Media -> ChildType] /\ stack' \in Seq(Frames)
         /\ failed' \in BOOLEAN /\ reentered' \in BOOLEAN
<1>1. Effect(act, m, rest)
  BY RunMediaEffect
<1>2. child \in [Media -> ChildType] /\ Unplayed \in ChildType
  BY DEF TypeInv, Unplayed, ChildType, MediaStates
<1>3. ASSUME act # "start" PROVE rest \o (<<After(act, m)>> \o <<Dispatch(m, act)>>) \in Seq(Frames)
  BY <1>3, PushTwo, DispatchType, AfterType
<1>4. rest \o <<Dispatch(m, act)>> \in Seq(Frames)
  BY PushOne, DispatchType
<1>5. To[act] \in MediaStates /\ "OCCURRING" \in MediaStates
  BY DEF To, MediaStates, Acts
<1>6. stack' \in Seq(Frames) /\ failed' \in BOOLEAN /\ reentered' \in BOOLEAN
  BY <1>1, <1>3, <1>4 DEF Effect, TypeInv
<1>7. \/ child' = child
      \/ child' = [child EXCEPT ![m] = Unplayed]
      \/ \E s \in MediaStates : child' = Played(m, s)
      \/ \E n \in Nat \ {0} : child' = [child EXCEPT ![m].pauseCount = n]
  <2>1. "SLEEPING" \in MediaStates
    BY DEF MediaStates
  <2>2. QED
    BY <1>1, <1>5, <2>1 DEF Effect
<1>8. child' \in [Media -> ChildType]
  <2>1. \A s \in MediaStates : Played(m, s) \in [Media -> ChildType]
    BY <1>2 DEF Played, ChildType
  <2>2. \A n \in Nat : [child EXCEPT ![m].pauseCount = n] \in [Media -> ChildType]
    BY <1>2 DEF ChildType
  <2>3. QED
    BY <1>2, <1>7, <2>1, <2>2
<1>9. QED
  BY <1>6, <1>8

\* The frame of a link's actions on the top of the stack, and what becomes of it.
LEMMA ActionsTop ==
  ASSUME TypeInv, RunsRight(stack, links), InCall("actions")
  PROVE  /\ ~Free /\ Top \in ActionsFrames /\ Top.who \in Links /\ Top.at \in 1..Top.upto
         /\ Top.upto \in 1..Len(links[Top.who].acts) /\ Len(links[Top.who].acts) \in Nat
         /\ [Top EXCEPT !.run = TRUE] \in ActionsFrames
         /\ Top.at # Top.upto => [Top EXCEPT !.at = @ + 1, !.run = FALSE] \in ActionsFrames
         /\ Append(Below, [Top EXCEPT !.run = TRUE]) \in Seq(Frames)
         /\ Returned \in Seq(Frames)
         /\ links[Top.who].acts[Top.at].what \in Acts /\ links[Top.who].acts[Top.at].who \in Media
<1>1. ~Free /\ Top \in Frames /\ Top.call = "actions" /\ stack \in Seq(Frames)
  BY BelowTop DEF InCall, TypeInv
<1>2. Top \in ActionsFrames
  BY <1>1, FrameTypes
<1>3. Top.at <= Top.upto /\ Top.upto <= Len(links[Top.who].acts)
  BY <1>1, BelowTop DEF RunsRight
<1>4. Top.who \in Links /\ Top.at \in 1..MaxActs /\ Top.upto \in 1..MaxActs
  BY <1>2 DEF ActionsFrames
<1>5. Len(links[Top.who].acts) \in Nat /\ MaxActs \in Nat
  BY <1>4, LinkTypes
<1>6. Top.at \in 1..Top.upto /\ Top.upto \in 1..Len(links[Top.who].acts) /\ Top.at \in 1..Len(links[Top.who].acts)
  BY <1>3, <1>4, <1>5
<1>7. [Top EXCEPT !.run = TRUE] \in ActionsFrames
  BY <1>2 DEF ActionsFrames
<1>8. Top.at # Top.upto => [Top EXCEPT !.at = @ + 1, !.run = FALSE] \in ActionsFrames
  <2>1. Top.at # Top.upto => Top.at + 1 \in 1..MaxActs
    BY <1>4, <1>5, <1>6
  <2>2. QED
    BY <1>2, <2>1 DEF ActionsFrames
<1>9. Append(Below, [Top EXCEPT !.run = TRUE]) \in Seq(Frames)
  BY <1>1, <1>7, AppendBelow DEF Frames
<1>10. Returned \in Seq(Frames)
  BY <1>1, <1>8, AppendBelow, BelowTop DEF Returned, Frames
<1>11. QED
  BY <1>1, <1>2, <1>4, <1>5, <1>6, <1>7, <1>8, <1>9, <1>10, LinkTypes

LEMMA ComposeTop ==
  ASSUME TypeInv, ~Free, Top.call = "compose"
  PROVE  LET rest == IF Len(Top.todo) = 1 THEN Below
                     ELSE Append(Below, [Top EXCEPT !.todo = Tail(@)])
         IN /\ ~Free /\ Top \in ComposeFrames /\ Top.what \in Acts /\ Head(Top.todo) \in Media
            /\ Len(Top.todo) # 1 => [Top EXCEPT !.todo = Tail(@)] \in ComposeFrames
            /\ rest \in Seq(Frames)
<1>1. ~Free /\ Top \in Frames /\ Top.call = "compose" /\ stack \in Seq(Frames)
  BY BelowTop DEF TypeInv
<1>2. Top \in ComposeFrames
  BY <1>1, FrameTypes
<1>3. Top.what \in Acts /\ Top.todo \in Seq(Media) /\ Top.todo # <<>>
  BY <1>2 DEF ComposeFrames
<1>4. /\ Head(Top.todo) \in Media /\ Tail(Top.todo) \in Seq(Media)
      /\ Len(Tail(Top.todo)) = Len(Top.todo) - 1 /\ Len(Top.todo) \in Nat
  BY <1>3, HeadTailProperties, LenProperties
<1>5. Len(Top.todo) # 1 => Tail(Top.todo) # <<>>
  <2>1. SUFFICES ASSUME Tail(Top.todo) = <<>> PROVE Len(Top.todo) = 1
    OBVIOUS
  <2>2. Len(<<>>) = 0
    OBVIOUS
  <2>3. Len(Tail(Top.todo)) = 0
    BY <2>1, <2>2, Zenon
  <2> DEFINE n == Len(Top.todo)
             k == Len(Tail(Top.todo))
  <2>4. n \in Nat /\ k = n - 1 /\ k = 0
    BY <1>4, <2>3
  <2> HIDE DEF n, k
  <2>5. n = 1
    BY <2>4
  <2>6. QED
    BY <2>5 DEF n
<1>6. Len(Top.todo) # 1 => [Top EXCEPT !.todo = Tail(@)] \in ComposeFrames
  <2>1. \A q \in Seq(Media) \ {<<>>} : [Top EXCEPT !.todo = q] \in ComposeFrames
    BY <1>2 DEF ComposeFrames
  <2>2. QED
    BY <1>4, <1>5, <2>1
<1>7. Len(Top.todo) # 1 => Append(Below, [Top EXCEPT !.todo = Tail(@)]) \in Seq(Frames)
  BY <1>1, <1>6, AppendBelow DEF Frames
<1>8. QED
  BY <1>1, <1>2, <1>3, <1>4, <1>6, <1>7, BelowTop

LEMMA WholeTypes ==
  ASSUME NEW d \in CompositeType, NEW tr \in Acts
  PROVE  ChangeWhole(d, tr) \in CompositeType
BY DEF ChangeWhole, CompositeType, From, To, Acts

LEMMA HearTypes ==
  ASSUME NEW c \in CompositeType, NEW m \in Media
  PROVE  \A tr \in Acts : \A prev : Hear(c, m, tr, prev) \in CompositeType
<1>1. \A d \in CompositeType, tr \in Acts : ChangeWhole(d, tr) \in CompositeType
  BY WholeTypes
<1>2. \A d \in CompositeType, R \in SUBSET Media, P \in SUBSET Media :
         [d EXCEPT !.running = R, !.paused = P] \in CompositeType
  BY DEF CompositeType
<1>3. HearStarts(c, m) \in CompositeType
  BY <1>1 DEF HearStarts, CompositeType, Acts
<1>4. HearPauses(c, m) \in CompositeType
  <2>1. [c EXCEPT !.running = @ \ {m}, !.paused = @ \cup {m}] \in CompositeType
    BY DEF CompositeType
  <2>2. QED
    BY <1>1, <2>1 DEF HearPauses, Acts
<1>5. HearResumes(c, m) \in CompositeType
  <2>1. [c EXCEPT !.paused = @ \ {m}, !.running = @ \cup {m}] \in CompositeType
    BY DEF CompositeType
  <2>2. QED
    BY <1>1, <2>1 DEF HearResumes, Acts
<1>6. ASSUME NEW tr \in {"stop", "abort"}, NEW prev PROVE HearEnds(c, m, tr, prev) \in CompositeType
  <2>1. Forget(c, m, prev) \in CompositeType
    BY DEF Forget, CompositeType
  <2>2. [Forget(c, m, prev) EXCEPT !.last = tr] \in CompositeType
    BY <2>1 DEF CompositeType
  <2>3. QED
    BY <1>1, <2>2 DEF HearEnds, Acts
<1>7. QED
  BY <1>3, <1>4, <1>5, <1>6 DEF Hear, Acts

LEMMA CompositeStep ==
  ASSUME NEW c \in CompositeType, NEW l \in Links
  PROVE  /\ LinkEvaluationStarted(c, l) \in CompositeType
         /\ \A start : LinkEvaluationFinished(c, l, start) \in CompositeType
<1>1. \A d \in CompositeType, tr \in Acts : ChangeWhole(d, tr) \in CompositeType
  BY WholeTypes
<1>2. LinkEvaluationStarted(c, l) \in CompositeType
  BY DEF LinkEvaluationStarted, CompositeType
<1>3. ASSUME NEW start PROVE LinkEvaluationFinished(c, l, start) \in CompositeType
  <2> DEFINE d == [c EXCEPT !.pending[l] = @ - 1]
  <2>1. c.pending[l] # 0 => d \in CompositeType
    BY DEF CompositeType
  <2>2. \A e \in CompositeType : e.last \in Acts
    BY DEF CompositeType, Acts
  <2>3. c.pending[l] # 0 => ChangeWhole(d, d.last) \in CompositeType
    BY <1>1, <2>1, <2>2
  <2>4. QED
    BY <2>1, <2>3 DEF LinkEvaluationFinished
<1>4. QED
  BY <1>2, <1>3

LEMMA InitTypes == Init => TypeInv
<1> SUFFICES ASSUME Init PROVE TypeInv
  OBVIOUS
<1>1. MaxDelayed \in Nat /\ 0 \in 0..MaxDelayed
  BY CompositionAssumption
<1>2. child \in [Media -> ChildType]
  BY DEF Init, Unplayed, ChildType, MediaStates
<1>3. composite \in CompositeType
  BY DEF Init, CompositeType
<1>4. delayed \in [Links \X (0..MaxActs) -> 0..MaxDelayed]
  BY <1>1 DEF Init
<1>5. stack = <<>> /\ <<>> \in Seq(Frames)
  BY DEF Init
<1>6. compound \in [Links -> [pendingActions : Int, hasStart : BOOLEAN]]
  BY DEF Init
<1>7. links \in [Links -> LinkSet] /\ failed \in BOOLEAN /\ reentered \in BOOLEAN
  BY DEF Init
<1>8. QED
  BY <1>2, <1>3, <1>4, <1>5, <1>6, <1>7 DEF TypeInv

\* A link of the dispatch on the top of the stack is told.
LEMMA TellLinkTypes ==
  ASSUME TypeInv, InCall("dispatch"), NEW l \in Top.due
  PROVE  /\ ~Free /\ Top \in DispatchFrames /\ l \in Links
         /\ [Top EXCEPT !.due = @ \ {l}] \in DispatchFrames
         /\ Append(Below, [Top EXCEPT !.due = @ \ {l}]) \in Seq(Frames)
         /\ Actions(l, 1, Len(links[l].acts), FALSE) \in Frames
<1>1. ~Free /\ Top \in Frames /\ Top.call = "dispatch" /\ stack \in Seq(Frames)
  BY BelowTop DEF InCall, TypeInv
<1>2. Top \in DispatchFrames
  BY <1>1, FrameTypes
<1>3. l \in Links
  BY <1>2 DEF DispatchFrames
<1>4. [Top EXCEPT !.due = @ \ {l}] \in DispatchFrames
  BY <1>2 DEF DispatchFrames
<1>5. Append(Below, [Top EXCEPT !.due = @ \ {l}]) \in Seq(Frames)
  BY <1>1, <1>4, AppendBelow DEF Frames
<1>6. Actions(l, 1, Len(links[l].acts), FALSE) \in Frames
  <2>1. Len(links[l].acts) \in 1..MaxActs /\ 1 \in 1..MaxActs
    BY <1>3, LinkTypes
  <2>2. QED
    BY <1>3, <2>1, ActionsType
<1>7. QED
  BY <1>1, <1>2, <1>3, <1>4, <1>5, <1>6

\* The types of what the steps of a link change.
LEMMA LinkStepTypes ==
  ASSUME TypeInv, NEW l \in Links
  PROVE  /\ [compound EXCEPT ![l] = Begun(l)]
              \in [Links -> [pendingActions : Int, hasStart : BOOLEAN]]
         /\ \A i \in 0..MaxActs :
              /\ delayed[<<l, i>>] \in 0..MaxDelayed
              /\ delayed[<<l, i>>] < MaxDelayed =>
                   [delayed EXCEPT ![<<l, i>>] = @ + 1] \in [Links \X (0..MaxActs) -> 0..MaxDelayed]
              /\ delayed[<<l, i>>] > 0 =>
                   [delayed EXCEPT ![<<l, i>>] = @ - 1] \in [Links \X (0..MaxActs) -> 0..MaxDelayed]
<1>1. Begun(l) \in [pendingActions : Int, hasStart : BOOLEAN]
  <2>1. Len(links[l].acts) \in Int
    BY LinkTypes
  <2>2. QED
    BY <2>1 DEF Begun
<1>2. ASSUME NEW i \in 0..MaxActs
      PROVE  /\ delayed[<<l, i>>] \in 0..MaxDelayed
             /\ delayed[<<l, i>>] < MaxDelayed =>
                  [delayed EXCEPT ![<<l, i>>] = @ + 1] \in [Links \X (0..MaxActs) -> 0..MaxDelayed]
             /\ delayed[<<l, i>>] > 0 =>
                  [delayed EXCEPT ![<<l, i>>] = @ - 1] \in [Links \X (0..MaxActs) -> 0..MaxDelayed]
  <2> DEFINE t == <<l, i>>
             T == Links \X (0..MaxActs)
  <2>1. t \in T /\ delayed \in [T -> 0..MaxDelayed] /\ MaxDelayed \in Nat
    BY CompositionAssumption DEF TypeInv
  <2> HIDE DEF t, T
  <2>2. /\ delayed[t] \in 0..MaxDelayed
        /\ delayed[t] < MaxDelayed => [delayed EXCEPT ![t] = @ + 1] \in [T -> 0..MaxDelayed]
        /\ delayed[t] > 0 => [delayed EXCEPT ![t] = @ - 1] \in [T -> 0..MaxDelayed]
    BY <2>1
  <2>3. QED
    BY <2>2 DEF t, T
<1>3. QED
  BY <1>1, <1>2 DEF TypeInv

LEMMA TypeStep ==
  ASSUME TypeInv, ObjectsInv(stack, child, composite), RunsRight(stack, links), [Next]_vars
  PROVE  TypeInv'
<1>0. /\ links \in [Links -> LinkSet] /\ child \in [Media -> ChildType]
      /\ composite \in CompositeType
      /\ compound \in [Links -> [pendingActions : Int, hasStart : BOOLEAN]]
      /\ delayed \in [Links \X (0..MaxActs) -> 0..MaxDelayed]
      /\ stack \in Seq(Frames) /\ failed \in BOOLEAN /\ reentered \in BOOLEAN
  BY DEF TypeInv
<1>1. ASSUME NEW act \in Acts, Outside(act) PROVE TypeInv'
  <2>1. Compose(act, IF act = "start" THEN Ports ELSE Order) \in Frames
    BY CompositionAssumption DEF Compose, Frames, ComposeFrames
  <2>2. stack' \in Seq(Frames)
    BY <1>1, <2>1, OneFrame DEF Outside
  <2>3. QED
    BY <1>0, <1>1, <2>2 DEF Outside, TypeInv
<1>2. ASSUME NEW m \in Media, NaturalEnd(m) PROVE TypeInv'
  <2>1. "stop" \in Acts /\ <<>> \in Seq(Frames) /\ RunMedia("stop", m, <<>>)
    BY <1>2 DEF Acts, NaturalEnd
  <2>2. /\ child' \in [Media -> ChildType] /\ stack' \in Seq(Frames)
        /\ failed' \in BOOLEAN /\ reentered' \in BOOLEAN
    BY <2>1, RunMediaTypes
  <2>3. QED
    BY <1>0, <1>2, <2>2 DEF NaturalEnd, TypeInv
<1>3. ASSUME NEW l \in Links, NEW i \in 0..MaxActs, DelayExpires(l, i)
      PROVE  TypeInv'
  <2>1. Len(links[l].acts) \in 1..MaxActs /\ 1 \in 1..MaxActs /\ MaxActs \in Nat
    BY LinkTypes
  <2>2. stack' \in Seq(Frames)
    <3>1. CASE i = 0
      <4>1. Actions(l, 1, Len(links[l].acts), FALSE) \in Frames
        BY <2>1, ActionsType
      <4>2. QED
        BY <1>3, <3>1, <4>1, OneFrame DEF DelayExpires
    <3>2. CASE i # 0
      <4>1. i \in 1..MaxActs
        BY <2>1, <3>2
      <4>2. Actions(l, i, i, TRUE) \in Frames
        BY <4>1, ActionsType
      <4>3. QED
        BY <1>3, <3>2, <4>2, OneFrame DEF DelayExpires
    <3>3. QED
      BY <3>1, <3>2
  <2>3. delayed' \in [Links \X (0..MaxActs) -> 0..MaxDelayed]
    BY <1>3, LinkStepTypes DEF DelayExpires
  <2>4. compound' \in [Links -> [pendingActions : Int, hasStart : BOOLEAN]]
    BY <1>0, <1>3, LinkStepTypes DEF DelayExpires
  <2>5. QED
    BY <1>0, <1>3, <2>2, <2>3, <2>4 DEF DelayExpires, TypeInv
<1>4. CASE AfterDispatch
  <2>1. /\ Top \in AfterFrames /\ Below \in Seq(Frames)
    BY <1>0, <1>4, BelowTop, FrameTypes DEF AfterDispatch, InCall
  <2>2. Top.who \in Media
    BY <2>1 DEF AfterFrames
  <2>3. child' \in [Media -> ChildType]
    BY <1>0, <1>4, <2>2 DEF AfterDispatch, Unplayed, ChildType, MediaStates
  <2>4. stack' \in Seq(Frames)
    BY <1>4, <2>1 DEF AfterDispatch
  <2>5. QED
    BY <1>0, <1>4, <2>3, <2>4 DEF AfterDispatch, TypeInv
<1>5. CASE TellLink
  <2>1. PICK l \in Top.due :
          LET rest == Append(Below, [Top EXCEPT !.due = @ \ {l}]) IN
          /\ composite' = LinkEvaluationStarted(composite, l)
          /\ IF links[l].delay
             THEN /\ delayed[<<l, 0>>] < MaxDelayed
                  /\ delayed' = [delayed EXCEPT ![<<l, 0>>] = @ + 1]
                  /\ stack' = rest
                  /\ UNCHANGED compound
             ELSE /\ stack' = rest \o <<Actions(l, 1, Len(links[l].acts), FALSE)>>
                  /\ compound' = [compound EXCEPT ![l] = Begun(l)]
                  /\ UNCHANGED delayed
    BY <1>5 DEF TellLink, Push
  <2>2. InCall("dispatch") /\ UNCHANGED <<links, child, failed, reentered>>
    BY <1>5 DEF TellLink
  <2>3. /\ l \in Links /\ Append(Below, [Top EXCEPT !.due = @ \ {l}]) \in Seq(Frames)
        /\ Actions(l, 1, Len(links[l].acts), FALSE) \in Frames
    BY <2>2, TellLinkTypes
  <2>4. stack' \in Seq(Frames)
    BY <2>1, <2>3, PushOne
  <2>5. composite' \in CompositeType
    <3>1. links[l].on \in Media
      BY <2>3, LinkTypes
    <3>2. LinkEvaluationStarted(composite, l) \in CompositeType
      BY <1>0, <2>3, <3>1, CompositeStep
    <3>3. QED
      BY <2>1, <3>2
  <2>6. 0 \in 0..MaxActs
    BY CompositionAssumption
  <2>7. /\ delayed' \in [Links \X (0..MaxActs) -> 0..MaxDelayed]
        /\ compound' \in [Links -> [pendingActions : Int, hasStart : BOOLEAN]]
    <3>1. CASE links[l].delay
      <4>1. /\ delayed[<<l, 0>>] < MaxDelayed
            /\ delayed' = [delayed EXCEPT ![<<l, 0>>] = @ + 1] /\ UNCHANGED compound
        BY <2>1, <3>1
      <4>2. delayed[<<l, 0>>] < MaxDelayed =>
              [delayed EXCEPT ![<<l, 0>>] = @ + 1] \in [Links \X (0..MaxActs) -> 0..MaxDelayed]
        BY <2>3, <2>6, LinkStepTypes
      <4>3. QED
        BY <1>0, <4>1, <4>2
    <3>2. CASE ~links[l].delay
      BY <1>0, <2>1, <2>3, <3>2, LinkStepTypes
    <3>3. QED
      BY <3>1, <3>2
  <2>8. QED
    BY <1>0, <2>2, <2>4, <2>5, <2>7 DEF TypeInv
<1>6. CASE TellComposite
  <2>1. Top \in DispatchFrames /\ Below \in Seq(Frames)
    BY <1>0, <1>6, BelowTop, FrameTypes DEF TellComposite, InCall
  <2>2. Top.who \in Media /\ Top.what \in Acts
    BY <2>1 DEF DispatchFrames
  <2>3. child' \in [Media -> ChildType]
    <3>1. child' = child \/ child' = [child EXCEPT ![Top.who].st = "SLEEPING"]
      BY <1>6 DEF TellComposite
    <3>2. [child EXCEPT ![Top.who].st = "SLEEPING"] \in [Media -> ChildType]
      BY <1>0, <2>2 DEF ChildType, MediaStates
    <3>3. QED
      BY <1>0, <3>1, <3>2
  <2>4. composite' \in CompositeType
    <3>1. composite' \in {composite, Hear(composite, Top.who, Top.what, Top.prev)}
      BY <1>6 DEF TellComposite
    <3>2. Hear(composite, Top.who, Top.what, Top.prev) \in CompositeType
      BY <1>0, <2>2, HearTypes
    <3>3. QED
      BY <1>0, <3>1, <3>2
  <2>5. stack' \in Seq(Frames)
    BY <1>6, <2>1 DEF TellComposite
  <2>6. QED
    BY <1>0, <1>6, <2>3, <2>4, <2>5 DEF TellComposite, TypeInv
<1>7. CASE DelayLinkAction
  <2>1. /\ Returned \in Seq(Frames) /\ Top.who \in Links /\ Top \in ActionsFrames
    BY <1>7, ActionsTop DEF DelayLinkAction
  <2>2. Top.at \in 0..MaxActs
    BY <2>1, CompositionAssumption DEF ActionsFrames
  <2>3. delayed' \in [Links \X (0..MaxActs) -> 0..MaxDelayed]
    BY <1>7, <2>1, <2>2, LinkStepTypes DEF DelayLinkAction
  <2>4. QED
    BY <1>0, <1>7, <2>1, <2>3 DEF DelayLinkAction, TypeInv
<1>8. CASE RunLinkAction
  <2>1. InCall("actions")
        /\ RunMedia(links[Top.who].acts[Top.at].what, links[Top.who].acts[Top.at].who,
                    Append(Below, [Top EXCEPT !.run = TRUE]))
    BY <1>8 DEF RunLinkAction
  <2>2. /\ Append(Below, [Top EXCEPT !.run = TRUE]) \in Seq(Frames)
        /\ links[Top.who].acts[Top.at].what \in Acts /\ links[Top.who].acts[Top.at].who \in Media
    BY <2>1, ActionsTop
  <2>3. /\ child' \in [Media -> ChildType] /\ stack' \in Seq(Frames)
        /\ failed' \in BOOLEAN /\ reentered' \in BOOLEAN
    BY <2>1, <2>2, RunMediaTypes
  <2>4. QED
    BY <1>0, <1>8, <2>3 DEF RunLinkAction, TypeInv
<1>9. CASE ActionProcessed
  <2>1. Returned \in Seq(Frames) /\ Top.who \in Links
    BY <1>9, ActionsTop DEF ActionProcessed
  <2>2. links[Top.who].on \in Media
    BY <2>1, LinkTypes
  <2>3. /\ composite' \in CompositeType
        /\ compound' \in [Links -> [pendingActions : Int, hasStart : BOOLEAN]]
    <3>1. \A start : LinkEvaluationFinished(composite, Top.who, start) \in CompositeType
      BY <1>0, <2>1, <2>2, CompositeStep
    <3> DEFINE start == links[Top.who].acts[Top.at].what = "start"
               d == [pendingActions |-> compound[Top.who].pendingActions - 1,
                     hasStart |-> compound[Top.who].hasStart \/ start]
    <3>2. d \in [pendingActions : Int, hasStart : BOOLEAN]
      <4>1. start \in BOOLEAN
        OBVIOUS
      <4> HIDE DEF start
      <4>2. QED
        BY <1>0, <2>1, <4>1
    <3>3. Processed(Top.who, start)
      BY <1>9 DEF ActionProcessed
    <3>4. /\ composite' = composite \/ \E s : composite' = LinkEvaluationFinished(composite, Top.who, s)
          /\ compound' = compound \/ compound' = [compound EXCEPT ![Top.who] = d]
      <4> HIDE DEF start
      <4>1. QED
        BY <3>3 DEF Processed
    <3> HIDE DEF d
    <3>5. composite' \in CompositeType
      BY <1>0, <3>1, <3>4
    <3>6. compound' \in [Links -> [pendingActions : Int, hasStart : BOOLEAN]]
      BY <1>0, <3>2, <3>4
    <3>7. QED
      BY <3>5, <3>6
  <2>4. QED
    BY <1>0, <1>9, <2>1, <2>3 DEF ActionProcessed, TypeInv
<1>10. CASE RunCompose
  <2> DEFINE rest == IF Len(Top.todo) = 1 THEN Below
                     ELSE Append(Below, [Top EXCEPT !.todo = Tail(@)])
  <2>1. Top.what \in Acts /\ Head(Top.todo) \in Media /\ rest \in Seq(Frames)
    BY <1>10, ComposeTop DEF RunCompose, InCall
  <2>2. RunMedia(Top.what, Head(Top.todo), rest)
    BY <1>10 DEF RunCompose
  <2> HIDE DEF rest
  <2>3. /\ child' \in [Media -> ChildType] /\ stack' \in Seq(Frames)
        /\ failed' \in BOOLEAN /\ reentered' \in BOOLEAN
    BY <2>1, <2>2, RunMediaTypes
  <2>4. QED
    BY <1>0, <1>10, <2>3 DEF RunCompose, TypeInv
<1>11. CASE UNCHANGED vars
  BY <1>0, <1>11 DEF vars, TypeInv
<1>12. QED
  BY <1>1, <1>2, <1>3, <1>4, <1>5, <1>6, <1>7, <1>8, <1>9, <1>10, <1>11 DEF Next

-----------------------------------------------------------------------------
(* The invariant of the objects. *)

\* The calls of the transitions in s are in t too, in the same place.
HeldBy(s, t) == \A k \in DOMAIN s : s[k].call \in {"dispatch", "after"} =>
    /\ k \in DOMAIN t
    /\ t[k].call = s[k].call /\ t[k].who = s[k].who /\ t[k].what = s[k].what
    /\ s[k].call = "dispatch" => t[k].prev = s[k].prev

LEMMA SameTold ==
  ASSUME NEW s, NEW t, NEW h, NEW c, HeldBy(s, t), HeldBy(t, s), ObjectsInv(s, h, c)
  PROVE  /\ ObjectsInv(t, h, c)
         /\ \A m : (Told(s, m) <=> Told(t, m)) /\ (Awaited(s, m) <=> Awaited(t, m))
<1>1. \A m : (Told(s, m) <=> Told(t, m)) /\ (Awaited(s, m) <=> Awaited(t, m))
  BY DEF HeldBy, Told, Awaited, IsDispatch, IsAfter
<1>2. TellsRight(t, h, c)
  BY DEF HeldBy, ObjectsInv, TellsRight
<1>3. TellsOnce(t)
  BY DEF HeldBy, ObjectsInv, TellsOnce
<1>4. AwaitsRight(t, h)
  BY <1>1 DEF HeldBy, ObjectsInv, AwaitsRight, IsDispatch
<1>5. UntoldAgree(t, h, c) /\ PausesCount(t, h) /\ WholeCovers(c)
  BY <1>1 DEF ObjectsInv, UntoldAgree, PausesCount
<1>6. QED
  BY <1>1, <1>2, <1>3, <1>4, <1>5 DEF ObjectsInv

\* What is told of the objects is all that the invariant reads of the composition.
LEMMA SameComposite ==
  ASSUME NEW s, NEW h, NEW c, NEW d, ObjectsInv(s, h, c),
         d.running = c.running, d.paused = c.paused, WholeCovers(d)
  PROVE  ObjectsInv(s, h, d)
BY DEF ObjectsInv, TellsRight, UntoldAgree

\* A transition of an object that has no call under way.
\* The same but for what m comes to, which is about to change.
AwaitsBut(s, h, m) == \A j \in DOMAIN s : s[j].call = "after" /\ s[j].who # m =>
    /\ ~Told(s, s[j].who) => h[s[j].who].st = Settled[s[j].what]
    /\ \A k \in DOMAIN s : IsDispatch(s, k, s[j].who) => j < k /\ s[k].what = s[j].what

ObjectsBut(s, h, c, m) ==
    /\ TellsRight(s, h, c) /\ TellsOnce(s) /\ AwaitsBut(s, h, m)
    /\ UntoldAgree(s, h, c) /\ PausesCount(s, h) /\ WholeCovers(c)

LEMMA PushAfter ==
  ASSUME NEW s \in Seq(Frames), NEW h, NEW c, NEW m \in Media, NEW tr, NEW f \in AfterFrames,
         ObjectsInv(s, h, c), ~Told(s, m), ~Awaited(s, m), f.who = m, f.what = tr
  PROVE  LET t == s \o <<f>> IN
         /\ ObjectsBut(t, h, c, m) /\ ~Told(t, m) /\ Awaited(t, m)
         /\ \A k \in DOMAIN t : IsAfter(t, k, m) => t[k].what = tr
<1> DEFINE t == s \o <<f>>
           n == Len(s)
<1>1. /\ n \in Nat /\ DOMAIN s = 1..n /\ DOMAIN t = 1..(n + 1) /\ t[n + 1] = f
      /\ \A k \in 1..n : t[k] = s[k]
  BY PushOne, LenProperties DEF Frames
<1>2. f.call = "after"
  BY DEF AfterFrames
<1> HIDE DEF t, n
<1>3. /\ \A k \in DOMAIN t : t[k].call = "dispatch" => k \in DOMAIN s
      /\ n + 1 \in DOMAIN t /\ n + 1 \notin DOMAIN s
      /\ \A k \in DOMAIN t : k = n + 1 \/ k \in DOMAIN s
      /\ DOMAIN s \subseteq DOMAIN t /\ \A k \in DOMAIN s : t[k] = s[k]
  BY <1>1, <1>2
<1>4. \A x : Told(t, x) <=> Told(s, x)
  BY <1>3 DEF Told, IsDispatch
<1>5. Awaited(t, m) /\ \A x : Awaited(s, x) => Awaited(t, x)
  BY <1>1, <1>2, <1>3 DEF Awaited, IsAfter
<1>6. TellsRight(t, h, c) /\ TellsOnce(t)
  BY <1>3 DEF ObjectsInv, TellsRight, TellsOnce
<1>7. AwaitsBut(t, h, m)
  <2> SUFFICES ASSUME NEW j \in DOMAIN t, t[j].call = "after", t[j].who # m
               PROVE  /\ ~Told(t, t[j].who) => h[t[j].who].st = Settled[t[j].what]
                      /\ \A k \in DOMAIN t : IsDispatch(t, k, t[j].who) => j < k /\ t[k].what = t[j].what
    BY DEF AwaitsBut
  <2>1. j \in DOMAIN s /\ t[j] = s[j]
    BY <1>1, <1>3
  <2>2. QED
    BY <1>3, <1>4, <2>1 DEF ObjectsInv, AwaitsRight, IsDispatch
<1>8. UntoldAgree(t, h, c) /\ PausesCount(t, h) /\ WholeCovers(c)
  BY <1>4, <1>5 DEF ObjectsInv, UntoldAgree, PausesCount
<1>9. \A k \in DOMAIN t : IsAfter(t, k, m) => t[k].what = tr
  BY <1>1, <1>3 DEF Awaited, IsAfter
<1>10. QED
  BY <1>4, <1>5, <1>6, <1>7, <1>8, <1>9 DEF ObjectsBut, t

LEMMA PushDispatch ==
  ASSUME NEW s \in Seq(Frames), NEW h \in [Media -> ChildType], NEW c \in CompositeType,
         NEW m \in Media, NEW tr \in Acts, NEW f \in DispatchFrames, NEW g \in [Media -> ChildType],
         ObjectsBut(s, h, c, m), ~Told(s, m),
         \A k \in DOMAIN s : IsAfter(s, k, m) => s[k].what = tr,
         tr = "start" => ~Awaited(s, m) /\ h[m].pauseCount = 0,
         tr # "start" => Awaited(s, m),
         f.who = m, f.what = tr, f.prev = h[m].st, h[m].st \in From[tr],
         g = [h EXCEPT ![m] = [st |-> To[tr], prepared |-> TRUE, player |-> TRUE,
                               pauseCount |-> @.pauseCount]]
  PROVE  ObjectsInv(s \o <<f>>, g, c)
<1> DEFINE t == s \o <<f>>
           n == Len(s)
<1>1. /\ n \in Nat /\ DOMAIN s = 1..n /\ DOMAIN t = 1..(n + 1) /\ t[n + 1] = f
      /\ \A k \in 1..n : t[k] = s[k]
  BY PushOne, LenProperties DEF Frames
<1>2. f.call = "dispatch"
  BY DEF DispatchFrames
<1>3. /\ g[m].st = To[tr] /\ g[m].prepared /\ g[m].player /\ g[m].pauseCount = h[m].pauseCount
      /\ \A x \in Media : x # m => g[x] = h[x]
  OBVIOUS
<1>4. \A k \in DOMAIN s : s[k] \in Frames
  BY <1>1, ElementOfSeq
<1>5. \A k \in DOMAIN s : s[k].call \in {"dispatch", "after"} => s[k].who \in Media
  BY <1>4, FrameTypes DEF DispatchFrames, AfterFrames
<1> HIDE DEF t, n
<1>6. \A x : Told(t, x) <=> Told(s, x) \/ x = m
  BY <1>1, <1>2 DEF Told, IsDispatch
<1>7. \A x : Awaited(t, x) <=> Awaited(s, x)
  <2>1. \A k \in DOMAIN t : t[k].call = "after" => k \in DOMAIN s
    BY <1>1, <1>2
  <2>2. DOMAIN s \subseteq DOMAIN t /\ \A k \in DOMAIN s : t[k] = s[k]
    BY <1>1
  <2>3. QED
    BY <2>1, <2>2 DEF Awaited, IsAfter
<1>8. TellsRight(t, g, c)
  <2>1. ASSUME NEW k \in 1..n, s[k].call = "dispatch"
        PROVE  s[k].who # m /\ g[s[k].who] = h[s[k].who]
    BY <1>1, <1>3, <1>5, <2>1 DEF Told, IsDispatch
  <2>2. m \in c.running <=> h[m].st = "OCCURRING"
    BY DEF ObjectsBut, UntoldAgree
  <2>3. m \in c.paused <=> h[m].st = "PAUSED"
    BY DEF ObjectsBut, UntoldAgree
  <2>4. ASSUME NEW k \in DOMAIN t, t[k].call = "dispatch", k # n + 1
        PROVE  /\ t[k].prev \in From[t[k].what]
               /\ g[t[k].who].st = To[t[k].what] /\ g[t[k].who].prepared
               /\ t[k].who \in c.running <=> t[k].prev = "OCCURRING"
               /\ t[k].who \in c.paused <=> t[k].prev = "PAUSED"
    BY <1>1, <2>1, <2>4 DEF ObjectsBut, TellsRight
  <2>5. QED
    BY <1>1, <1>3, <2>2, <2>3, <2>4 DEF TellsRight
<1>9. TellsOnce(t)
  <2>1. \A k \in 1..n : s[k].call = "dispatch" => s[k].who # m
    BY <1>1 DEF Told, IsDispatch
  <2>2. QED
    BY <1>1, <2>1 DEF ObjectsBut, TellsOnce
<1>10. AwaitsRight(t, g)
  <2> SUFFICES ASSUME NEW j \in DOMAIN t, t[j].call = "after"
               PROVE  /\ ~Told(t, t[j].who) => g[t[j].who].st = Settled[t[j].what]
                      /\ \A k \in DOMAIN t : IsDispatch(t, k, t[j].who) => j < k /\ t[k].what = t[j].what
    BY DEF AwaitsRight
  <2>1. j \in 1..n /\ t[j] = s[j] /\ s[j].call = "after" /\ s[j].who \in Media
    BY <1>1, <1>2, <1>5
  <2>2. /\ s[j].who # m /\ ~Told(s, s[j].who) => h[s[j].who].st = Settled[s[j].what]
        /\ \A k \in DOMAIN s : IsDispatch(s, k, s[j].who) => j < k /\ s[k].what = s[j].what
    BY <1>1, <2>1 DEF ObjectsBut, AwaitsBut, Told
  <2>3. ~Told(t, s[j].who) => g[s[j].who].st = Settled[s[j].what]
    BY <1>3, <1>6, <2>1, <2>2
  <2>4. ASSUME NEW k \in DOMAIN t, IsDispatch(t, k, s[j].who)
        PROVE  j < k /\ t[k].what = s[j].what
    <3>1. CASE k \in 1..n
      BY <1>1, <2>2, <2>4, <3>1 DEF IsDispatch
    <3>2. CASE k = n + 1
      <4>1. s[j].who = m
        BY <1>1, <2>4, <3>2 DEF IsDispatch
      <4>2. s[j].what = tr
        BY <1>1, <2>1, <4>1 DEF IsAfter
      <4>3. QED
        BY <1>1, <2>1, <3>2, <4>2
    <3>3. QED
      BY <1>1, <3>1, <3>2
  <2>5. QED
    BY <2>1, <2>3, <2>4
<1>11. UntoldAgree(t, g, c)
  BY <1>3, <1>6 DEF ObjectsBut, UntoldAgree
<1>12. PausesCount(t, g)
  <2>1. tr = "start" => g[m].st # "PAUSED" /\ ~(g[m].pauseCount > 0)
    BY <1>3 DEF To
  <2>2. \A x \in Media : x # m => /\ ~g[x].player => g[x].st = "SLEEPING"
                                  /\ ~Awaited(t, x) => (g[x].pauseCount > 0 <=> g[x].st = "PAUSED")
    BY <1>3, <1>7 DEF ObjectsBut, PausesCount
  <2>3. QED
    BY <1>3, <1>7, <2>1, <2>2 DEF PausesCount
<1>13. QED
  BY <1>8, <1>9, <1>10, <1>11, <1>12 DEF ObjectsInv, ObjectsBut, t

\* An object that no call knows of changes without being told: what it was before
\* it was played, or its count of pauses.
LEMMA ChangeUntold ==
  ASSUME NEW s, NEW h \in [Media -> ChildType], NEW c, NEW m \in Media, NEW e \in ChildType,
         NEW g, g = [h EXCEPT ![m] = e], ObjectsInv(s, h, c), ~Told(s, m), e.st = h[m].st,
         ~e.player => e.st = "SLEEPING", e.pauseCount > 0 <=> e.st = "PAUSED",
         \A k \in DOMAIN s : s[k].call = "dispatch" => s[k].who \in Media,
         \A k \in DOMAIN s : s[k].call = "after" => s[k].who \in Media
  PROVE  ObjectsInv(s, g, c)
<1>1. /\ g[m] = e /\ \A x \in Media : x # m => g[x] = h[x]
      /\ \A x \in Media : g[x].st = h[x].st
  OBVIOUS
<1>2. \A k \in DOMAIN s : s[k].call = "dispatch" => s[k].who # m
  BY DEF Told, IsDispatch
<1>3. TellsRight(s, g, c)
  BY <1>1, <1>2 DEF ObjectsInv, TellsRight
<1>4. AwaitsRight(s, g)
  BY <1>1 DEF ObjectsInv, AwaitsRight
<1>5. UntoldAgree(s, g, c)
  BY <1>1 DEF ObjectsInv, UntoldAgree
<1>6. PausesCount(s, g)
  BY <1>1 DEF ObjectsInv, PausesCount
<1>7. QED
  BY <1>3, <1>4, <1>5, <1>6 DEF ObjectsInv

LEMMA FrameOf ==
  ASSUME NEW s \in Seq(Frames)
  PROVE  /\ \A k \in DOMAIN s : s[k] \in Frames
         /\ \A k \in DOMAIN s : s[k].call \in {"dispatch", "after"} => s[k].who \in Media
         /\ \A k \in DOMAIN s : s[k].call = "actions" => s[k].who \in Links
<1>1. \A k \in DOMAIN s : s[k] \in Frames
  BY LenProperties, ElementOfSeq
<1>2. QED
  BY <1>1, FrameTypes DEF DispatchFrames, AfterFrames, ActionsFrames

LEMMA RunMediaObjects ==
  ASSUME TypeInv, ObjectsInv(stack, child, composite), NEW act \in Acts, NEW m \in Media,
         NEW rest \in Seq(Frames), HeldBy(stack, rest), HeldBy(rest, stack), RunMedia(act, m, rest)
  PROVE  ObjectsInv(stack', child', composite)
<1>1. Effect(act, m, rest)
  BY RunMediaEffect
<1>2. /\ ObjectsInv(rest, child, composite)
      /\ \A x : (Told(stack, x) <=> Told(rest, x)) /\ (Awaited(stack, x) <=> Awaited(rest, x))
  BY SameTold
<1>3. ~Busy(m) => ~Told(rest, m) /\ ~Awaited(rest, m)
  BY <1>2 DEF Busy, Told, Awaited, IsDispatch, IsAfter
<1>4. /\ child \in [Media -> ChildType] /\ child[m] \in ChildType /\ composite \in CompositeType
      /\ \A k \in DOMAIN rest : rest[k].call \in {"dispatch", "after"} => rest[k].who \in Media
  BY FrameOf DEF TypeInv
<1>5. CASE stack' = rest /\ child' = child
  BY <1>2, <1>5
<1>6. CASE UNCHANGED <<stack, child>>
  BY <1>6
<1>7. CASE ~Busy(m) /\ act = "start" /\ Asleep(m) /\ child' = Played(m, "OCCURRING")
           /\ stack' = rest \o <<Dispatch(m, act)>>
  <2> DEFINE f == Dispatch(m, act)
  <2>1. f \in DispatchFrames /\ f.who = m /\ f.what = act /\ f.prev = child[m].st
    BY DispatchType, FrameTypes
  <2>2. ~Told(rest, m) /\ ~Awaited(rest, m) /\ ObjectsBut(rest, child, composite, m)
    BY <1>2, <1>3, <1>7 DEF ObjectsInv, ObjectsBut, AwaitsRight, AwaitsBut
  <2>3. child[m].st = "SLEEPING" /\ child[m].pauseCount = 0 /\ child[m].st \in From[act]
    BY <1>2, <1>4, <1>7, <2>2 DEF ObjectsInv, PausesCount, Asleep, ChildType, From
  <2>4. child' = [child EXCEPT ![m] = [st |-> To[act], prepared |-> TRUE, player |-> TRUE,
                                       pauseCount |-> @.pauseCount]]
    BY <1>7 DEF Played, To
  <2>5. child' \in [Media -> ChildType]
    BY RunMediaTypes
  <2>6. \A k \in DOMAIN rest : ~IsAfter(rest, k, m)
    BY <2>2 DEF Awaited
  <2> HIDE DEF f
  <2>7. ObjectsInv(rest \o <<f>>, child', composite)
    BY <1>4, <1>7, <2>1, <2>2, <2>3, <2>4, <2>5, <2>6, PushDispatch
  <2>8. QED
    BY <1>7, <2>7 DEF f
<1>8. CASE /\ ~Busy(m) /\ act # "start" /\ child[m].st \in From[act] /\ child' = Played(m, To[act])
           /\ stack' = rest \o (<<After(act, m)>> \o <<Dispatch(m, act)>>)
  <2> DEFINE f == Dispatch(m, act)
             g == After(act, m)
             t == rest \o <<g>>
  <2>1. f \in DispatchFrames /\ f.who = m /\ f.what = act /\ f.prev = child[m].st
    BY DispatchType, FrameTypes
  <2>2. g \in AfterFrames /\ g.who = m /\ g.what = act
    BY <1>8 DEF After, AfterFrames
  <2>3. child' = [child EXCEPT ![m] = [st |-> To[act], prepared |-> TRUE, player |-> TRUE,
                                       pauseCount |-> @.pauseCount]]
    BY <1>8 DEF Played
  <2>4. child' \in [Media -> ChildType]
    BY RunMediaTypes
  <2>5. stack' = t \o <<f>>
    <3>1. <<g>> \in Seq(Frames) /\ <<f>> \in Seq(Frames)
      BY <2>1, <2>2 DEF Frames
    <3>2. rest \o (<<g>> \o <<f>>) = (rest \o <<g>>) \o <<f>>
      BY <3>1, ConcatAssociative
    <3>3. QED
      BY <1>8, <3>2
  <2> HIDE DEF f, g, t
  <2>6. ObjectsBut(t, child, composite, m) /\ ~Told(t, m) /\ Awaited(t, m)
        /\ \A k \in DOMAIN t : IsAfter(t, k, m) => t[k].what = act
    BY <1>2, <1>3, <1>8, <2>2, PushAfter DEF t
  <2>7. t \in Seq(Frames)
    BY <2>2, PushOne DEF t, Frames
  <2>8. ObjectsInv(t \o <<f>>, child', composite)
    BY <1>4, <1>8, <2>1, <2>3, <2>4, <2>6, <2>7, PushDispatch
  <2>9. QED
    BY <2>5, <2>8
<1>9. CASE ~Busy(m) /\ \E e \in ChildType :
              /\ child' = [child EXCEPT ![m] = e] /\ stack' = rest /\ e.st = child[m].st
              /\ ~e.player => e.st = "SLEEPING"
              /\ e.pauseCount > 0 <=> e.st = "PAUSED"
  <2>1. PICK e \in ChildType :
              /\ child' = [child EXCEPT ![m] = e] /\ stack' = rest /\ e.st = child[m].st
              /\ ~e.player => e.st = "SLEEPING"
              /\ e.pauseCount > 0 <=> e.st = "PAUSED"
    BY <1>9
  <2>2. ~Told(rest, m)
    BY <1>3, <1>9
  <2>3. ObjectsInv(rest, child', composite)
    BY <1>2, <1>4, <2>1, <2>2, ChangeUntold
  <2>4. QED
    BY <2>1, <2>3
<1>10. ~Busy(m) => (child[m].pauseCount > 0 <=> child[m].st = "PAUSED")
  BY <1>2, <1>3 DEF ObjectsInv, PausesCount
<1>11. CASE ~Busy(m) /\ Asleep(m) /\ child' = Played(m, "SLEEPING") /\ stack' = rest
  <2> DEFINE e == [st |-> "SLEEPING", prepared |-> TRUE, player |-> TRUE,
                   pauseCount |-> child[m].pauseCount]
  <2>1. e \in ChildType
    BY <1>4 DEF ChildType, MediaStates
  <2>2. child' = [child EXCEPT ![m] = e] /\ e.st = child[m].st /\ e.player
        /\ (e.pauseCount > 0 <=> e.st = "PAUSED")
    BY <1>10, <1>11 DEF Played, Asleep
  <2> HIDE DEF e
  <2>3. QED
    BY <1>9, <1>11, <2>1, <2>2
<1>12. CASE ~Busy(m) /\ Asleep(m) /\ child' = [child EXCEPT ![m] = Unplayed] /\ stack' = rest
  <2>1. /\ Unplayed \in ChildType /\ Unplayed.st = child[m].st /\ Unplayed.st = "SLEEPING"
        /\ (Unplayed.pauseCount > 0 <=> Unplayed.st = "PAUSED")
    BY <1>12 DEF Unplayed, ChildType, MediaStates, Asleep
  <2>2. QED
    BY <1>9, <1>12, <2>1
<1>13. CASE /\ ~Busy(m) /\ child[m].pauseCount > 0 /\ stack' = rest
            /\ \E n \in Nat \ {0} : child' = [child EXCEPT ![m].pauseCount = n]
  <2>1. PICK n \in Nat \ {0} : child' = [child EXCEPT ![m].pauseCount = n]
    BY <1>13
  <2> DEFINE e == [child[m] EXCEPT !.pauseCount = n]
  <2>2. /\ e \in ChildType /\ e.st = child[m].st /\ e.player = child[m].player
        /\ e.pauseCount > 0 /\ child' = [child EXCEPT ![m] = e]
    BY <1>4, <2>1 DEF ChildType
  <2>3. e.st = "PAUSED" /\ e.player
    BY <1>2, <1>10, <1>13, <2>2 DEF ObjectsInv, PausesCount
  <2> HIDE DEF e
  <2>4. QED
    BY <1>9, <1>13, <2>2, <2>3
<1>14. QED
  BY <1>1, <1>5, <1>6, <1>7, <1>8, <1>11, <1>12, <1>13 DEF Effect

LEMMA AfterDispatchObjects ==
  ASSUME TypeInv, ObjectsInv(stack, child, composite), AfterDispatch
  PROVE  ObjectsInv(stack', child', composite')
<1> DEFINE s == stack
           t == Below
           n == Len(stack)
           m == Top.who
<1>1. /\ Top \in AfterFrames /\ Top = s[n] /\ s[n].call = "after" /\ s \in Seq(Frames)
      /\ n \in DOMAIN s /\ DOMAIN s = 1..n /\ n \in Nat \ {0}
      /\ t \in Seq(Frames) /\ DOMAIN t = 1..(n - 1) /\ \A k \in 1..(n - 1) : t[k] = s[k]
  BY BelowTop, FrameTypes DEF AfterDispatch, InCall, TypeInv
<1>2. m \in Media /\ Top.what \in {"stop", "abort", "pause", "resume"} /\ m = s[n].who
  BY <1>1 DEF AfterFrames, Acts
<1>3. /\ stack' = t /\ composite' = composite
      /\ child' = IF Top.what \in {"stop", "abort"} THEN [child EXCEPT ![m] = Unplayed]
                  ELSE [child EXCEPT ![m].pauseCount = IF Top.what = "pause" THEN 1 ELSE 0]
  BY DEF AfterDispatch
<1>4. child \in [Media -> ChildType] /\ child' \in [Media -> ChildType]
  BY <1>2, <1>3 DEF TypeInv, Unplayed, ChildType, MediaStates
<1> DEFINE h == child
           g == child'
           c == composite
<1> HIDE DEF s, t, n, h, g, c
<1>5. /\ DOMAIN t \subseteq DOMAIN s /\ \A k \in DOMAIN t : t[k] = s[k] /\ k # n
      /\ \A k \in DOMAIN s : k = n \/ k \in DOMAIN t
      /\ \A k \in DOMAIN s : s[k].call = "dispatch" => k \in DOMAIN t
  BY <1>1
<1>6. ~Told(s, m)
  <2>1. \A k \in DOMAIN s : ~IsDispatch(s, k, m)
    <3>1. AwaitsRight(s, h)
      BY DEF ObjectsInv, s, h
    <3>2. \A k \in DOMAIN s : IsDispatch(s, k, m) => n < k
      BY <1>1, <1>2, <3>1 DEF AwaitsRight
    <3>3. QED
      BY <1>1, <3>2
  <2>2. QED
    BY <2>1 DEF Told
<1>7. h[m].st = Settled[Top.what] /\ h[m].st # "ABORTED"
  <2>1. AwaitsRight(s, h) /\ UntoldAgree(s, h, c)
    BY DEF ObjectsInv, s, h, c
  <2>2. QED
    BY <1>1, <1>2, <1>6, <2>1 DEF AwaitsRight, UntoldAgree
<1>8. /\ \A x \in Media : g[x].st = h[x].st
      /\ \A x \in Media : x # m => g[x] = h[x]
      /\ ~g[m].player => g[m].st = "SLEEPING"
      /\ g[m].pauseCount > 0 <=> g[m].st = "PAUSED"
  <2>1. h \in [Media -> ChildType] /\ h[m] \in ChildType
    BY <1>2, <1>4 DEF h
  <2>2. ~h[m].player => h[m].st = "SLEEPING"
    BY <1>2 DEF ObjectsInv, PausesCount, h
  <2>3. CASE Top.what \in {"stop", "abort"}
    <3>1. g = [h EXCEPT ![m] = Unplayed] /\ h[m].st = "SLEEPING"
      BY <1>3, <1>7, <2>3 DEF g, h, Settled
    <3>2. QED
      BY <1>2, <2>1, <3>1 DEF Unplayed
  <2>4. CASE Top.what \in {"pause", "resume"}
    <3>1. \E k \in {0, 1} : /\ g = [h EXCEPT ![m].pauseCount = k]
                            /\ k = 1 <=> h[m].st = "PAUSED"
      <4>1. CASE Top.what = "pause"
        <5>1. g = [h EXCEPT ![m].pauseCount = 1] /\ h[m].st = "PAUSED"
          BY <1>3, <1>7, <4>1 DEF g, h, Settled
        <5>2. QED
          BY <5>1
      <4>2. CASE Top.what = "resume"
        <5>1. g = [h EXCEPT ![m].pauseCount = 0] /\ h[m].st # "PAUSED"
          BY <1>3, <1>7, <4>2 DEF g, h, Settled
        <5>2. QED
          BY <5>1
      <4>3. QED
        BY <2>4, <4>1, <4>2
    <3>2. PICK k \in {0, 1} : /\ g = [h EXCEPT ![m].pauseCount = k]
                              /\ k = 1 <=> h[m].st = "PAUSED"
      BY <3>1
    <3>3. g = [h EXCEPT ![m] = [h[m] EXCEPT !.pauseCount = k]]
      BY <3>2
    <3>4. /\ [h[m] EXCEPT !.pauseCount = k].pauseCount = k
          /\ [h[m] EXCEPT !.pauseCount = k].st = h[m].st
          /\ [h[m] EXCEPT !.pauseCount = k].player = h[m].player
      BY <2>1 DEF ChildType
    <3>5. QED
      BY <1>2, <2>1, <2>2, <3>2, <3>3, <3>4
  <2>5. QED
    BY <1>2, <2>3, <2>4
<1>9. \A x : Told(t, x) <=> Told(s, x)
  BY <1>5 DEF Told, IsDispatch
<1>10. \A x : x # m => (Awaited(t, x) <=> Awaited(s, x))
  BY <1>2, <1>5 DEF Awaited, IsAfter
<1>11. \A k \in DOMAIN t : t[k].call = "dispatch" => t[k].who \in Media /\ t[k].who # m
  <2>1. \A k \in DOMAIN s : s[k].call = "dispatch" => s[k].who \in Media
    BY <1>1, FrameOf
  <2>2. QED
    BY <1>5, <1>6, <2>1 DEF Told, IsDispatch
<1>12. ObjectsInv(s, h, c)
  BY DEF s, h, c
<1> HIDE DEF m
<1>13. TellsRight(t, g, c) /\ TellsOnce(t)
  BY <1>5, <1>8, <1>11, <1>12 DEF ObjectsInv, TellsRight, TellsOnce
<1>14. AwaitsRight(t, g)
  <2>1. \A k \in DOMAIN s : s[k].call = "after" => s[k].who \in Media
    BY <1>1, FrameOf
  <2>2. QED
    BY <1>5, <1>8, <1>9, <1>12, <2>1 DEF ObjectsInv, AwaitsRight, IsDispatch
<1>15. UntoldAgree(t, g, c) /\ WholeCovers(c)
  BY <1>8, <1>9, <1>12 DEF ObjectsInv, UntoldAgree
<1>16. PausesCount(t, g)
  BY <1>8, <1>10, <1>12 DEF ObjectsInv, PausesCount
<1>17. QED
  BY <1>3, <1>13, <1>14, <1>15, <1>16 DEF ObjectsInv, c, g, t

\* What the composition makes of a transition, told of an object that it has where
\* it was before.
Moved(S, m, there) == IF there THEN S \cup {m} ELSE S \ {m}

LEMMA HearEffect ==
  ASSUME NEW c \in CompositeType, NEW m \in Media, NEW tr \in Acts, NEW prev \in From[tr],
         m \in c.running <=> prev = "OCCURRING", m \in c.paused <=> prev = "PAUSED", WholeCovers(c)
  PROVE  LET d == Hear(c, m, tr, prev) IN
         /\ d.running = Moved(c.running, m, Settled[tr] = "OCCURRING")
         /\ d.paused = Moved(c.paused, m, Settled[tr] = "PAUSED")
         /\ d.pending = c.pending
         /\ WholeCovers(d)
         /\ d.whole = "SLEEPING" => c.whole = "SLEEPING" \/ NothingLeft(d)
         /\ NothingLeft(d) => d.whole = "SLEEPING"
<1>1. \A d \in CompositeType, k \in Acts :
        /\ ChangeWhole(d, k).running = d.running /\ ChangeWhole(d, k).paused = d.paused
        /\ ChangeWhole(d, k).pending = d.pending /\ ChangeWhole(d, k).last = d.last
  BY DEF ChangeWhole, CompositeType
<1>2. \A d \in CompositeType :
        /\ ChangeWhole(d, "start").whole # "SLEEPING"
        /\ d.whole # "SLEEPING" => /\ ChangeWhole(d, "pause").whole # "SLEEPING"
                                   /\ ChangeWhole(d, "resume").whole # "SLEEPING"
        /\ ChangeWhole(d, "stop").whole = "SLEEPING"
        /\ ChangeWhole(d, "abort").whole = "SLEEPING"
  BY DEF ChangeWhole, CompositeType, From, To
<1>3. CASE tr = "start"
  <2> DEFINE d == Hear(c, m, tr, prev)
  <2>1. prev = "SLEEPING" /\ m \notin c.running /\ m \notin c.paused
    BY <1>3 DEF From
  <2>2. CASE NoneActive(c)
    <3>1. d = [ChangeWhole(c, "start") EXCEPT !.running = @ \cup {m}]
      BY <1>3, <2>2 DEF Hear, HearStarts
    <3>2. ChangeWhole(c, "start") \in CompositeType
      BY WholeTypes DEF Acts
    <3>3. /\ d.running = c.running \cup {m} /\ d.paused = c.paused /\ d.pending = c.pending
          /\ d.whole # "SLEEPING"
      BY <1>1, <1>2, <3>1, <3>2 DEF CompositeType, Acts
    <3> HIDE DEF d
    <3>4. QED
      BY <1>3, <2>1, <3>3 DEF Moved, Settled, WholeCovers, NothingLeft, NoneActive, d
  <2>3. CASE ~NoneActive(c)
    <3>1. d = [c EXCEPT !.running = @ \cup {m}]
      BY <1>3, <2>3 DEF Hear, HearStarts
    <3>2. /\ d.running = c.running \cup {m} /\ d.paused = c.paused /\ d.pending = c.pending
          /\ d.whole = c.whole /\ c.whole # "SLEEPING"
      BY <2>3, <3>1 DEF CompositeType, WholeCovers
    <3> HIDE DEF d
    <3>3. QED
      BY <1>3, <2>1, <3>2 DEF Moved, Settled, WholeCovers, NothingLeft, NoneActive, d
  <2>4. QED
    BY <2>2, <2>3
<1>4. CASE tr = "pause"
  <2> DEFINE e == [c EXCEPT !.running = @ \ {m}, !.paused = @ \cup {m}]
             d == Hear(c, m, tr, prev)
  <2>1. prev = "OCCURRING" /\ m \in c.running /\ m \notin c.paused
    BY <1>4 DEF From
  <2>2. c.whole # "SLEEPING"
    BY <2>1 DEF WholeCovers, NoneActive
  <2>3. /\ e \in CompositeType /\ e.running = c.running \ {m} /\ e.paused = c.paused \cup {m}
        /\ e.pending = c.pending /\ e.whole = c.whole
    BY DEF CompositeType
  <2>4. d = IF e.running = {} THEN ChangeWhole(e, "pause") ELSE e
    BY <1>4 DEF Hear, HearPauses
  <2> HIDE DEF d, e
  <2>5. /\ d.running = c.running \ {m} /\ d.paused = c.paused \cup {m} /\ d.pending = c.pending
        /\ d.whole # "SLEEPING"
    BY <1>1, <1>2, <2>2, <2>3, <2>4 DEF Acts
  <2>6. QED
    BY <1>4, <2>5 DEF Moved, Settled, WholeCovers, NothingLeft, NoneActive, d
<1>5. CASE tr = "resume"
  <2> DEFINE e == [c EXCEPT !.paused = @ \ {m}, !.running = @ \cup {m}]
             d == Hear(c, m, tr, prev)
  <2>1. prev = "PAUSED" /\ m \notin c.running /\ m \in c.paused
    BY <1>5 DEF From
  <2>2. c.whole # "SLEEPING"
    BY <2>1 DEF WholeCovers, NoneActive
  <2>3. /\ e \in CompositeType /\ e.running = c.running \cup {m} /\ e.paused = c.paused \ {m}
        /\ e.pending = c.pending /\ e.whole = c.whole
    BY DEF CompositeType
  <2>4. d = IF e.running = {m} THEN ChangeWhole(e, "resume") ELSE e
    BY <1>5 DEF Hear, HearResumes
  <2> HIDE DEF d, e
  <2>5. /\ d.running = c.running \cup {m} /\ d.paused = c.paused \ {m} /\ d.pending = c.pending
        /\ d.whole # "SLEEPING"
    BY <1>1, <1>2, <2>2, <2>3, <2>4 DEF Acts
  <2>6. QED
    BY <1>5, <2>5 DEF Moved, Settled, WholeCovers, NothingLeft, NoneActive, d
<1>6. CASE tr \in {"stop", "abort"}
  <2> DEFINE e == [Forget(c, m, prev) EXCEPT !.last = tr]
             d == Hear(c, m, tr, prev)
  <2>1. /\ prev \in {"OCCURRING", "PAUSED"}
        /\ m \in c.running <=> prev = "OCCURRING"
        /\ m \in c.paused <=> prev = "PAUSED"
    BY <1>6 DEF From
  <2>2. /\ e \in CompositeType /\ e.running = c.running \ {m} /\ e.paused = c.paused \ {m}
        /\ e.pending = c.pending /\ e.whole = c.whole /\ e.last = tr
    <3>1. CASE prev = "OCCURRING"
      <4>1. e = [[c EXCEPT !.running = @ \ {m}] EXCEPT !.last = tr]
        BY <3>1 DEF Forget
      <4>2. c.paused = c.paused \ {m}
        BY <2>1, <3>1
      <4>3. QED
        BY <1>6, <4>1, <4>2 DEF CompositeType
    <3>2. CASE prev = "PAUSED"
      <4>1. e = [[c EXCEPT !.paused = @ \ {m}] EXCEPT !.last = tr]
        BY <3>2 DEF Forget
      <4>2. c.running = c.running \ {m}
        BY <2>1, <3>2
      <4>3. QED
        BY <1>6, <4>1, <4>2 DEF CompositeType
    <3>3. QED
      BY <2>1, <3>1, <3>2
  <2>3. d = IF NothingLeft(e) THEN ChangeWhole(e, tr) ELSE e
    BY <1>6 DEF Hear, HearEnds
  <2> HIDE DEF d, e
  <2>4. d.running = e.running /\ d.paused = e.paused /\ d.pending = e.pending
    BY <1>1, <1>6, <2>2, <2>3 DEF Acts
  <2>5. NothingLeft(d) <=> NothingLeft(e)
    BY <2>4 DEF NothingLeft, NoneActive, NonePending
  <2>6. /\ NothingLeft(d) => d.whole = "SLEEPING"
        /\ ~NothingLeft(d) => d.whole = c.whole
    BY <1>2, <1>6, <2>2, <2>3, <2>5
  <2>7. WholeCovers(d)
    BY <2>2, <2>4, <2>6 DEF WholeCovers, NothingLeft, NoneActive
  <2>8. QED
    BY <1>6, <2>2, <2>4, <2>6, <2>7 DEF Moved, Settled, d
<1>7. QED
  BY <1>3, <1>4, <1>5, <1>6 DEF Acts

\* What the step makes of the composition and of the object.
LEMMA TellCompositeEffect ==
  ASSUME TypeInv, ObjectsInv(stack, child, composite), TellComposite
  PROVE  LET m == Top.who
             tr == Top.what IN
         /\ Top \in DispatchFrames /\ m \in Media /\ tr \in Acts
         /\ composite' = Hear(composite, m, tr, Top.prev)
         /\ composite'.running = Moved(composite.running, m, Settled[tr] = "OCCURRING")
         /\ composite'.paused = Moved(composite.paused, m, Settled[tr] = "PAUSED")
         /\ composite'.pending = composite.pending
         /\ WholeCovers(composite')
         /\ composite'.whole = "SLEEPING" => composite.whole = "SLEEPING" \/ NothingLeft(composite')
         /\ NothingLeft(composite') => composite'.whole = "SLEEPING"
         /\ child'[m].st = Settled[tr] /\ child'[m].player = child[m].player
         /\ child'[m].pauseCount = child[m].pauseCount
         /\ child[m].st = "PAUSED" <=> child'[m].st = "PAUSED"
         /\ \A x \in Media : x # m => child'[x] = child[x]
         /\ child[m].st = "SLEEPING" => child'[m].st = "SLEEPING"
<1> DEFINE m == Top.who
           tr == Top.what
<1>1. Top \in DispatchFrames /\ Top.call = "dispatch" /\ Top = stack[Len(stack)]
      /\ Len(stack) \in DOMAIN stack
  BY BelowTop, FrameTypes DEF TellComposite, InCall, TypeInv
<1>2. m \in Media /\ tr \in Acts
  BY <1>1 DEF DispatchFrames
<1>3. /\ Top.prev \in From[tr]
      /\ child[m].st = To[tr] /\ child[m].prepared
      /\ m \in composite.running <=> Top.prev = "OCCURRING"
      /\ m \in composite.paused <=> Top.prev = "PAUSED"
  BY <1>1 DEF ObjectsInv, TellsRight
<1>4. composite' = Hear(composite, m, tr, Top.prev)
  BY <1>3 DEF TellComposite
<1>5. child' = IF child[m].st = "ABORTED" THEN [child EXCEPT ![m].st = "SLEEPING"] ELSE child
  BY DEF TellComposite
<1>6. composite \in CompositeType /\ child \in [Media -> ChildType] /\ WholeCovers(composite)
  BY DEF TypeInv, ObjectsInv
<1> HIDE DEF m, tr
<1>7. /\ composite'.running = Moved(composite.running, m, Settled[tr] = "OCCURRING")
      /\ composite'.paused = Moved(composite.paused, m, Settled[tr] = "PAUSED")
      /\ composite'.pending = composite.pending
      /\ WholeCovers(composite')
      /\ composite'.whole = "SLEEPING" => composite.whole = "SLEEPING" \/ NothingLeft(composite')
      /\ NothingLeft(composite') => composite'.whole = "SLEEPING"
  BY <1>2, <1>3, <1>4, <1>6, HearEffect
<1>8. /\ child'[m].st = IF child[m].st = "ABORTED" THEN "SLEEPING" ELSE child[m].st
      /\ child'[m].player = child[m].player /\ child'[m].pauseCount = child[m].pauseCount
      /\ \A x \in Media : x # m => child'[x] = child[x]
  BY <1>2, <1>5, <1>6 DEF ChildType
<1>9. child'[m].st = Settled[tr]
  BY <1>2, <1>3, <1>8 DEF Settled, To, Acts
<1>10. QED
  BY <1>1, <1>2, <1>4, <1>7, <1>8, <1>9 DEF m, tr

LEMMA TellCompositeObjects ==
  ASSUME TypeInv, ObjectsInv(stack, child, composite), TellComposite
  PROVE  ObjectsInv(stack', child', composite')
<1> DEFINE s == stack
           t == Below
           n == Len(stack)
           m == Top.who
           tr == Top.what
           h == child
           g == child'
           c == composite
           d == composite'
<1>1. /\ Top = s[n] /\ s[n].call = "dispatch" /\ s \in Seq(Frames)
      /\ n \in DOMAIN s /\ DOMAIN s = 1..n /\ n \in Nat \ {0}
      /\ t \in Seq(Frames) /\ DOMAIN t = 1..(n - 1) /\ \A k \in 1..(n - 1) : t[k] = s[k]
      /\ stack' = t
  BY BelowTop DEF TellComposite, InCall, TypeInv
<1>2. /\ m \in Media /\ tr \in Acts
      /\ d.running = Moved(c.running, m, Settled[tr] = "OCCURRING")
      /\ d.paused = Moved(c.paused, m, Settled[tr] = "PAUSED")
      /\ WholeCovers(d)
      /\ g[m].st = Settled[tr] /\ g[m].player = h[m].player
      /\ g[m].pauseCount = h[m].pauseCount
      /\ h[m].st = "PAUSED" <=> g[m].st = "PAUSED"
      /\ \A x \in Media : x # m => g[x] = h[x]
      /\ h[m].st = "SLEEPING" => g[m].st = "SLEEPING"
  BY TellCompositeEffect
<1>3. ObjectsInv(s, h, c) /\ s[n].who = m /\ s[n].what = tr
  BY <1>1
<1>4. \A k \in DOMAIN s : s[k].call \in {"dispatch", "after"} => s[k].who \in Media
  BY <1>1, FrameOf
<1> HIDE DEF s, t, n, m, tr, h, g, c, d
<1>5. /\ DOMAIN t \subseteq DOMAIN s /\ \A k \in DOMAIN t : t[k] = s[k] /\ k # n
      /\ \A k \in DOMAIN s : k = n \/ k \in DOMAIN t
      /\ \A k \in DOMAIN s : s[k].call = "after" => k \in DOMAIN t
  BY <1>1
<1>6. \A k \in DOMAIN t : t[k].call = "dispatch" => t[k].who \in Media /\ t[k].who # m
  BY <1>1, <1>3, <1>4, <1>5 DEF ObjectsInv, TellsOnce
<1>7. ~Told(t, m)
  BY <1>6 DEF Told, IsDispatch
<1>8. \A x : x # m => (Told(t, x) <=> Told(s, x))
  BY <1>3, <1>5 DEF Told, IsDispatch
<1>9. \A x : Awaited(t, x) <=> Awaited(s, x)
  BY <1>5 DEF Awaited, IsAfter
<1>10. /\ \A x \in Media : x # m => (x \in d.running <=> x \in c.running)
                                    /\ (x \in d.paused <=> x \in c.paused)
       /\ m \in d.running <=> Settled[tr] = "OCCURRING"
       /\ m \in d.paused <=> Settled[tr] = "PAUSED"
  BY <1>2 DEF Moved
<1>11. TellsRight(t, g, d) /\ TellsOnce(t)
  BY <1>2, <1>3, <1>5, <1>6, <1>10 DEF ObjectsInv, TellsRight, TellsOnce
<1>12. AwaitsRight(t, g)
  <2> SUFFICES ASSUME NEW j \in DOMAIN t, t[j].call = "after"
               PROVE  /\ ~Told(t, t[j].who) => g[t[j].who].st = Settled[t[j].what]
                      /\ \A k \in DOMAIN t : IsDispatch(t, k, t[j].who) => j < k /\ t[k].what = t[j].what
    BY DEF AwaitsRight
  <2>1. j \in DOMAIN s /\ t[j] = s[j] /\ s[j].call = "after" /\ s[j].who \in Media
    BY <1>4, <1>5
  <2>2. /\ ~Told(s, s[j].who) => h[s[j].who].st = Settled[s[j].what]
        /\ \A k \in DOMAIN s : IsDispatch(s, k, s[j].who) => j < k /\ s[k].what = s[j].what
    BY <1>3, <2>1 DEF ObjectsInv, AwaitsRight
  <2>3. CASE s[j].who = m
    <3>1. s[j].what = tr
      BY <1>1, <1>3, <2>2, <2>3 DEF IsDispatch
    <3>2. QED
      BY <1>2, <1>6, <2>1, <2>3, <3>1 DEF IsDispatch
  <2>4. CASE s[j].who # m
    BY <1>2, <1>5, <1>8, <2>1, <2>2, <2>4 DEF IsDispatch
  <2>5. QED
    BY <2>3, <2>4
<1>13. UntoldAgree(t, g, d)
  <2>1. Settled[tr] # "ABORTED"
    BY <1>2 DEF Settled, Acts
  <2>2. QED
    BY <1>2, <1>3, <1>8, <1>10, <2>1 DEF ObjectsInv, UntoldAgree
<1>14. PausesCount(t, g)
  BY <1>2, <1>3, <1>9 DEF ObjectsInv, PausesCount
<1>15. QED
  BY <1>1, <1>2, <1>11, <1>12, <1>13, <1>14 DEF ObjectsInv, d, g

LEMMA ReplaceTop ==
  ASSUME stack \in Seq(Frames), ~Free, NEW f \in Frames, f.call = Top.call,
         f.call \in {"dispatch", "after"} => f.who = Top.who /\ f.what = Top.what,
         f.call = "dispatch" => f.prev = Top.prev
  PROVE  HeldBy(stack, Append(Below, f)) /\ HeldBy(Append(Below, f), stack)
<1> DEFINE t == Append(Below, f)
           n == Len(stack)
<1>1. n \in Nat \ {0} /\ DOMAIN stack = 1..n /\ Top = stack[n]
  BY BelowTop
<1>2. DOMAIN t = 1..n /\ t[n] = f /\ \A k \in 1..(n - 1) : t[k] = stack[k]
  BY AppendBelow
<1> HIDE DEF t, n
<1>3. DOMAIN t = DOMAIN stack /\ \A k \in DOMAIN stack : k = n \/ t[k] = stack[k]
  BY <1>1, <1>2
<1>4. HeldBy(stack, t) /\ HeldBy(t, stack)
  BY <1>1, <1>2, <1>3 DEF HeldBy
<1>5. QED
  BY <1>4 DEF t

LEMMA PopTop ==
  ASSUME stack \in Seq(Frames), ~Free, Top.call \notin {"dispatch", "after"}
  PROVE  HeldBy(stack, Below) /\ HeldBy(Below, stack)
<1> DEFINE n == Len(stack)
<1>1. /\ n \in Nat \ {0} /\ DOMAIN stack = 1..n /\ Top = stack[n] /\ DOMAIN Below = 1..(n - 1)
      /\ \A k \in 1..(n - 1) : Below[k] = stack[k]
  BY BelowTop
<1> HIDE DEF n
<1>2. /\ DOMAIN Below \subseteq DOMAIN stack /\ \A k \in DOMAIN Below : Below[k] = stack[k]
      /\ \A k \in DOMAIN stack : k = n \/ k \in DOMAIN Below
  BY <1>1
<1>3. QED
  BY <1>1, <1>2 DEF HeldBy

LEMMA PushOther ==
  ASSUME NEW s \in Seq(Frames), NEW f \in Frames, f.call \notin {"dispatch", "after"}
  PROVE  HeldBy(s, s \o <<f>>) /\ HeldBy(s \o <<f>>, s)
<1> DEFINE t == s \o <<f>>
           n == Len(s)
<1>1. /\ n \in Nat /\ DOMAIN s = 1..n /\ DOMAIN t = 1..(n + 1) /\ t[n + 1] = f
      /\ \A k \in 1..n : t[k] = s[k]
  BY PushOne, LenProperties
<1> HIDE DEF t, n
<1>2. /\ DOMAIN s \subseteq DOMAIN t /\ \A k \in DOMAIN s : t[k] = s[k]
      /\ \A k \in DOMAIN t : k \in DOMAIN s \/ t[k] = f
  BY <1>1
<1>3. HeldBy(s, t) /\ HeldBy(t, s)
  BY <1>2 DEF HeldBy
<1>4. QED
  BY <1>3 DEF t

LEMMA HeldByTwo ==
  ASSUME NEW s, NEW t, NEW u, HeldBy(s, t), HeldBy(t, u)
  PROVE  HeldBy(s, u)
BY DEF HeldBy

\* The stacks to which the steps of the links and of the composition return.
LEMMA RestHeld ==
  ASSUME TypeInv, RunsRight(stack, links), ~Free
  PROVE  /\ Top.call = "actions" =>
              /\ HeldBy(stack, Returned) /\ HeldBy(Returned, stack)
              /\ HeldBy(stack, Append(Below, [Top EXCEPT !.run = TRUE]))
              /\ HeldBy(Append(Below, [Top EXCEPT !.run = TRUE]), stack)
         /\ Top.call = "compose" =>
              LET rest == IF Len(Top.todo) = 1 THEN Below
                          ELSE Append(Below, [Top EXCEPT !.todo = Tail(@)])
              IN HeldBy(stack, rest) /\ HeldBy(rest, stack)
         /\ Top.call = "dispatch" => \A l :
              LET rest == Append(Below, [Top EXCEPT !.due = @ \ {l}])
              IN HeldBy(stack, rest) /\ HeldBy(rest, stack)
<1>1. stack \in Seq(Frames) /\ Top \in Frames
  BY BelowTop DEF TypeInv
<1>2. ASSUME Top.call = "actions"
      PROVE  /\ HeldBy(stack, Returned) /\ HeldBy(Returned, stack)
             /\ HeldBy(stack, Append(Below, [Top EXCEPT !.run = TRUE]))
             /\ HeldBy(Append(Below, [Top EXCEPT !.run = TRUE]), stack)
  <2>1. Top \in ActionsFrames
    BY <1>1, <1>2, FrameTypes
  <2> DEFINE f == [Top EXCEPT !.run = TRUE]
             g == [Top EXCEPT !.at = @ + 1, !.run = FALSE]
  <2>2. f \in Frames /\ f.call = "actions"
    BY <2>1 DEF ActionsFrames, Frames
  <2>3. g.call = "actions"
    BY <2>1 DEF ActionsFrames
  <2>4. Top.at # Top.upto => g \in Frames
    <3>1. Top.at <= Top.upto
      BY <1>1, <1>2, BelowTop DEF RunsRight
    <3>2. Top.at # Top.upto => Top.at + 1 \in 1..MaxActs
      BY <2>1, <3>1, CompositionAssumption DEF ActionsFrames
    <3>3. QED
      BY <2>1, <3>2 DEF ActionsFrames, Frames
  <2> HIDE DEF f, g
  <2>5. HeldBy(stack, Append(Below, f)) /\ HeldBy(Append(Below, f), stack)
    BY <1>1, <1>2, <2>2, ReplaceTop
  <2>6. Top.at # Top.upto => HeldBy(stack, Append(Below, g)) /\ HeldBy(Append(Below, g), stack)
    BY <1>1, <1>2, <2>3, <2>4, ReplaceTop
  <2>7. HeldBy(stack, Below) /\ HeldBy(Below, stack)
    BY <1>1, <1>2, PopTop
  <2>8. QED
    BY <2>5, <2>6, <2>7 DEF Returned, f, g
<1>3. ASSUME Top.call = "compose"
      PROVE  LET rest == IF Len(Top.todo) = 1 THEN Below
                         ELSE Append(Below, [Top EXCEPT !.todo = Tail(@)])
             IN HeldBy(stack, rest) /\ HeldBy(rest, stack)
  <2> DEFINE f == [Top EXCEPT !.todo = Tail(@)]
  <2>1. Top \in ComposeFrames /\ f.call = "compose"
    BY <1>1, <1>3, FrameTypes DEF ComposeFrames
  <2>2. HeldBy(stack, Below) /\ HeldBy(Below, stack)
    BY <1>1, <1>3, PopTop
  <2>3. CASE Len(Top.todo) = 1
    BY <2>2, <2>3
  <2>4. CASE Len(Top.todo) # 1
    <3>1. f \in Frames
      BY <1>3, <2>4, ComposeTop DEF Frames
    <3> HIDE DEF f
    <3>2. HeldBy(stack, Append(Below, f)) /\ HeldBy(Append(Below, f), stack)
      BY <1>1, <1>3, <2>1, <3>1, ReplaceTop
    <3>3. QED
      BY <2>4, <3>2 DEF f
  <2>5. QED
    BY <2>3, <2>4
<1>4. ASSUME Top.call = "dispatch", NEW l
      PROVE  LET rest == Append(Below, [Top EXCEPT !.due = @ \ {l}])
             IN HeldBy(stack, rest) /\ HeldBy(rest, stack)
  <2> DEFINE f == [Top EXCEPT !.due = @ \ {l}]
  <2>1. Top \in DispatchFrames
    BY <1>1, <1>4, FrameTypes
  <2>2. /\ f \in Frames /\ f.call = "dispatch" /\ f.who = Top.who /\ f.what = Top.what
        /\ f.prev = Top.prev
    BY <2>1 DEF DispatchFrames, Frames
  <2> HIDE DEF f
  <2>3. HeldBy(stack, Append(Below, f)) /\ HeldBy(Append(Below, f), stack)
    BY <1>1, <1>4, <2>2, ReplaceTop
  <2>4. QED
    BY <2>3 DEF f
<1>5. QED
  BY <1>2, <1>3, <1>4

\* What the end of a run makes of the composition.
LEMMA FinishedEffect ==
  ASSUME NEW c \in CompositeType, NEW l \in Links, NEW start \in BOOLEAN, WholeCovers(c)
  PROVE  LET d == LinkEvaluationFinished(c, l, start) IN
         /\ d.running = c.running /\ d.paused = c.paused /\ WholeCovers(d)
         /\ \A k \in Links : k # l => d.pending[k] = c.pending[k]
         /\ d.pending[l] = IF c.pending[l] = 0 THEN 0 ELSE c.pending[l] - 1
         /\ d.whole = "SLEEPING" => c.whole = "SLEEPING" \/ NothingLeft(d)
         /\ c.pending[l] = 0 => d = c
         /\ c.pending[l] # 0 /\ NothingLeft(d) /\ ~start => d.whole = "SLEEPING"
<1> DEFINE e == [c EXCEPT !.pending[l] = @ - 1]
           d == LinkEvaluationFinished(c, l, start)
<1>1. /\ d = IF c.pending[l] = 0 THEN c
             ELSE IF NothingLeft(e) /\ ~start THEN ChangeWhole(e, e.last) ELSE e
  BY DEF LinkEvaluationFinished
<1>2. c.pending[l] \in Nat /\ c.last \in {"stop", "abort"}
  BY DEF CompositeType
<1>3. /\ c.pending[l] # 0 => e \in CompositeType
      /\ e.running = c.running /\ e.paused = c.paused /\ e.whole = c.whole /\ e.last = c.last
      /\ e.pending[l] = c.pending[l] - 1 /\ \A k \in Links : k # l => e.pending[k] = c.pending[k]
  BY DEF CompositeType
<1> HIDE DEF e, d
<1>4. c.pending[l] # 0 =>
        /\ ChangeWhole(e, e.last).running = e.running /\ ChangeWhole(e, e.last).paused = e.paused
        /\ ChangeWhole(e, e.last).pending = e.pending
        /\ ChangeWhole(e, e.last).whole = "SLEEPING"
  BY <1>2, <1>3 DEF ChangeWhole, CompositeType, From, To
<1>5. c.pending[l] # 0 => /\ d.running = e.running /\ d.paused = e.paused /\ d.pending = e.pending
                          /\ NothingLeft(e) /\ ~start => d.whole = "SLEEPING"
                          /\ ~(NothingLeft(e) /\ ~start) => d.whole = e.whole
  BY <1>1, <1>4
<1>6. c.pending[l] # 0 => (NothingLeft(d) <=> NothingLeft(e))
  BY <1>5 DEF NothingLeft, NoneActive, NonePending
<1>7. c.pending[l] # 0 => WholeCovers(d)
  BY <1>3, <1>5 DEF WholeCovers, NothingLeft, NoneActive
<1>8. QED
  BY <1>1, <1>2, <1>3, <1>5, <1>6, <1>7 DEF d

\* What an action that comes to its end makes of its compound action and of the
\* composition.
LEMMA ProcessedEffect ==
  ASSUME TypeInv, RunsRight(stack, links), WholeCovers(composite), ActionProcessed
  PROVE  LET l == Top.who
             start == links[l].acts[Top.at].what = "start"
             d == [pendingActions |-> compound[l].pendingActions - 1,
                   hasStart |-> compound[l].hasStart \/ start]
             one == Len(links[l].acts) = 1 IN
         /\ l \in Links
         /\ one => compound' = compound
                   /\ composite' = LinkEvaluationFinished(composite, l, start)
         /\ ~one => compound' = [compound EXCEPT ![l] = d]
         /\ ~one /\ compound[l].pendingActions # 1 => composite' = composite
         /\ ~one /\ compound[l].pendingActions = 1
              => composite' = LinkEvaluationFinished(composite, l, d.hasStart)
         /\ composite'.running = composite.running /\ composite'.paused = composite.paused
         /\ WholeCovers(composite')
         /\ composite'.whole = "SLEEPING" => composite.whole = "SLEEPING" \/ NothingLeft(composite')
<1> DEFINE l == Top.who
           start == links[l].acts[Top.at].what = "start"
           d == [pendingActions |-> compound[l].pendingActions - 1,
                 hasStart |-> compound[l].hasStart \/ start]
           one == Len(links[l].acts) = 1
<1>1. l \in Links /\ Processed(l, start)
  BY ActionsTop DEF ActionProcessed
<1>2. compound[l] \in [pendingActions : Int, hasStart : BOOLEAN] /\ composite \in CompositeType
  BY <1>1 DEF TypeInv
<1>3. start \in BOOLEAN /\ one \in BOOLEAN
  OBVIOUS
<1> HIDE DEF start, l
<1>4. AllProcessed(d) <=> compound[l].pendingActions = 1
  BY <1>2 DEF AllProcessed
<1>5. d.hasStart \in BOOLEAN
  BY <1>2, <1>3
<1>6. /\ one => compound' = compound /\ composite' = LinkEvaluationFinished(composite, l, start)
      /\ ~one => compound' = [compound EXCEPT ![l] = d]
      /\ ~one /\ ~AllProcessed(d) => composite' = composite
      /\ ~one /\ AllProcessed(d) => composite' = LinkEvaluationFinished(composite, l, d.hasStart)
  BY <1>1 DEF Processed
<1> HIDE DEF d
<1>7. composite' = composite \/ \E x \in BOOLEAN : composite' = LinkEvaluationFinished(composite, l, x)
  BY <1>3, <1>5, <1>6
<1>8. /\ composite'.running = composite.running /\ composite'.paused = composite.paused
      /\ WholeCovers(composite')
      /\ composite'.whole = "SLEEPING" => composite.whole = "SLEEPING" \/ NothingLeft(composite')
  <2>1. CASE composite' = composite
    BY <2>1
  <2>2. CASE \E x \in BOOLEAN : composite' = LinkEvaluationFinished(composite, l, x)
    <3>1. PICK x \in BOOLEAN : composite' = LinkEvaluationFinished(composite, l, x)
      BY <2>2
    <3>2. QED
      BY <1>1, <1>2, <3>1, FinishedEffect
  <2>3. QED
    BY <1>7, <2>1, <2>2
<1>9. QED
  BY <1>1, <1>4, <1>6, <1>8 DEF l, start, d

LEMMA ObjectsStep ==
  ASSUME TypeInv, ObjectsInv(stack, child, composite), RunsRight(stack, links), [Next]_vars
  PROVE  ObjectsInv(stack', child', composite')
<1>1. ASSUME NEW t, stack' = t, HeldBy(stack, t), HeldBy(t, stack), child' = child,
             composite'.running = composite.running, composite'.paused = composite.paused,
             WholeCovers(composite')
      PROVE  ObjectsInv(stack', child', composite')
  BY <1>1, SameTold, SameComposite
<1>2. WholeCovers(composite)
  BY DEF ObjectsInv
<1>3. ASSUME NEW f \in Frames, f.call \notin {"dispatch", "after"}, Free
      PROVE  HeldBy(stack, <<f>>) /\ HeldBy(<<f>>, stack)
  BY <1>3, OneFrame DEF HeldBy, Free
<1>4. ASSUME NEW act \in Acts, Outside(act) PROVE ObjectsInv(stack', child', composite')
  <2> DEFINE f == Compose(act, IF act = "start" THEN Ports ELSE Order)
  <2>1. f \in Frames /\ f.call = "compose"
    BY CompositionAssumption DEF Compose, Frames, ComposeFrames
  <2>2. stack' = <<f>> /\ child' = child /\ composite' = composite /\ Free
    BY <1>4 DEF Outside
  <2> HIDE DEF f
  <2>3. QED
    BY <1>1, <1>2, <1>3, <2>1, <2>2
<1>5. ASSUME NEW m \in Media, NaturalEnd(m) PROVE ObjectsInv(stack', child', composite')
  <2>1. RunMedia("stop", m, <<>>) /\ Free /\ composite' = composite
    BY <1>5 DEF NaturalEnd
  <2>2. HeldBy(stack, <<>>) /\ HeldBy(<<>>, stack) /\ "stop" \in Acts /\ <<>> \in Seq(Frames)
    BY <2>1 DEF HeldBy, Free, Acts
  <2>3. QED
    BY <2>1, <2>2, RunMediaObjects
<1>6. ASSUME NEW l \in Links, NEW i \in 0..MaxActs, DelayExpires(l, i)
      PROVE  ObjectsInv(stack', child', composite')
  <2>1. \E f : stack' = <<f>> /\ f.call = "actions"
    BY <1>6 DEF DelayExpires, Actions
  <2>2. PICK f : stack' = <<f>> /\ f.call = "actions"
    BY <2>1
  <2>3. HeldBy(stack, <<f>>) /\ HeldBy(<<f>>, stack)
    BY <1>6, <2>2 DEF HeldBy, Free, DelayExpires
  <2>4. QED
    BY <1>1, <1>2, <1>6, <2>2, <2>3 DEF DelayExpires
<1>7. CASE AfterDispatch
  BY <1>7, AfterDispatchObjects
<1>8. CASE TellLink
  <2>1. PICK l \in Top.due :
          LET rest == Append(Below, [Top EXCEPT !.due = @ \ {l}]) IN
          /\ composite' = LinkEvaluationStarted(composite, l)
          /\ stack' = rest \/ stack' = rest \o <<Actions(l, 1, Len(links[l].acts), FALSE)>>
    BY <1>8 DEF TellLink, Push
  <2>2. InCall("dispatch") /\ child' = child
    BY <1>8 DEF TellLink
  <2> DEFINE rest == Append(Below, [Top EXCEPT !.due = @ \ {l}])
             f == Actions(l, 1, Len(links[l].acts), FALSE)
  <2>3. l \in Links /\ rest \in Seq(Frames) /\ f \in Frames
    BY <2>2, TellLinkTypes
  <2>4. HeldBy(stack, rest) /\ HeldBy(rest, stack)
    BY <2>2, RestHeld DEF InCall
  <2>5. f.call \notin {"dispatch", "after"}
    BY DEF Actions
  <2>6. stack' = rest \/ stack' = rest \o <<f>>
    BY <2>1
  <2> HIDE DEF rest, f
  <2>7. HeldBy(rest, rest \o <<f>>) /\ HeldBy(rest \o <<f>>, rest)
    BY <2>3, <2>5, PushOther
  <2>8. HeldBy(stack, rest \o <<f>>) /\ HeldBy(rest \o <<f>>, stack)
    BY <2>4, <2>7, HeldByTwo
  <2>9. composite \in CompositeType
    BY DEF TypeInv
  <2>10. /\ composite'.running = composite.running /\ composite'.paused = composite.paused
         /\ composite'.whole = composite.whole
    BY <2>1, <2>9 DEF LinkEvaluationStarted, CompositeType
  <2>11. WholeCovers(composite')
    BY <1>2, <2>10 DEF WholeCovers, NoneActive
  <2>12. QED
    BY <1>1, <2>2, <2>4, <2>6, <2>8, <2>10, <2>11
<1>9. CASE TellComposite
  BY <1>9, TellCompositeObjects
<1>10. CASE DelayLinkAction
  <2>1. stack' = Returned /\ child' = child /\ composite' = composite /\ ~Free /\ Top.call = "actions"
    BY <1>10 DEF DelayLinkAction, InCall
  <2>2. QED
    BY <1>1, <1>2, <2>1, RestHeld
<1>11. CASE RunLinkAction
  <2> DEFINE rest == Append(Below, [Top EXCEPT !.run = TRUE])
             action == links[Top.who].acts[Top.at]
  <2>1. RunMedia(action.what, action.who, rest) /\ InCall("actions") /\ composite' = composite
    BY <1>11 DEF RunLinkAction
  <2>2. action.what \in Acts /\ action.who \in Media /\ rest \in Seq(Frames)
    BY <2>1, ActionsTop
  <2>3. HeldBy(stack, rest) /\ HeldBy(rest, stack)
    BY <2>1, RestHeld DEF InCall
  <2> HIDE DEF rest, action
  <2>4. QED
    BY <2>1, <2>2, <2>3, RunMediaObjects
<1>12. CASE ActionProcessed
  <2>1. stack' = Returned /\ child' = child /\ ~Free /\ Top.call = "actions"
    BY <1>12 DEF ActionProcessed, InCall
  <2>2. /\ composite'.running = composite.running /\ composite'.paused = composite.paused
        /\ WholeCovers(composite')
    BY <1>2, <1>12, ProcessedEffect
  <2>3. HeldBy(stack, Returned) /\ HeldBy(Returned, stack)
    BY <2>1, RestHeld
  <2>4. QED
    BY <1>1, <2>1, <2>2, <2>3
<1>13. CASE RunCompose
  <2> DEFINE rest == IF Len(Top.todo) = 1 THEN Below
                     ELSE Append(Below, [Top EXCEPT !.todo = Tail(@)])
  <2>1. RunMedia(Top.what, Head(Top.todo), rest) /\ InCall("compose") /\ composite' = composite
    BY <1>13 DEF RunCompose
  <2>2. Top.what \in Acts /\ Head(Top.todo) \in Media /\ rest \in Seq(Frames)
    BY <2>1, ComposeTop DEF InCall
  <2>3. HeldBy(stack, rest) /\ HeldBy(rest, stack)
    BY <2>1, RestHeld DEF InCall
  <2> HIDE DEF rest
  <2>4. QED
    BY <2>1, <2>2, <2>3, RunMediaObjects
<1>14. CASE UNCHANGED vars
  BY <1>14 DEF vars
<1>15. QED
  BY <1>4, <1>5, <1>6, <1>7, <1>8, <1>9, <1>10, <1>11, <1>12, <1>13, <1>14 DEF Next

-----------------------------------------------------------------------------
(* The invariant of the links. *)

\* The runs of the links in s are those in t, in the same place, over the same calls of
\* the transitions.
KeepsRuns(s, t) ==
    /\ \A k \in DOMAIN t : t[k].call = "actions" =>
          /\ k \in DOMAIN s /\ s[k].call = "actions" /\ s[k].who = t[k].who
          /\ s[k].at = t[k].at /\ s[k].upto = t[k].upto /\ s[k].expired = t[k].expired
    /\ \A k \in DOMAIN s : s[k].call = "actions" => k \in DOMAIN t /\ t[k].call = "actions"
    /\ \A j, k \in DOMAIN s : j < k /\ s[j].call = "dispatch" /\ s[k].call = "actions" =>
          /\ j \in DOMAIN t /\ t[j].call = "dispatch" /\ t[j].who = s[j].who
          /\ t[j].what = s[j].what /\ t[j].due \subseteq s[j].due

LEMMA SameRuns ==
  ASSUME NEW s, NEW t, NEW ls, NEW p, NEW q, NEW y, KeepsRuns(s, t), DueAreDue(t, ls),
         LinksInv(s, ls, p, q, y), DOMAIN t \subseteq Nat, DOMAIN s \subseteq Nat
  PROVE  /\ LinksInv(t, ls, p, q, y)
         /\ \A l : (IsRun(s, l) <=> IsRun(t, l)) /\ Called(s, l) = Called(t, l)
<1>1. \A k, l : (k \in DOMAIN s /\ Runs(s, k, l)) <=> (k \in DOMAIN t /\ Runs(t, k, l))
  BY DEF KeepsRuns, Runs
<1>2. RunsRight(t, ls)
  <2> SUFFICES ASSUME NEW k \in DOMAIN t, t[k].call = "actions"
               PROVE  /\ t[k].at <= t[k].upto /\ t[k].upto <= Len(ls[t[k].who].acts)
                      /\ t[k].expired => k = 1 /\ t[k].at = t[k].upto /\ ls[t[k].who].acts[t[k].at].delay
                      /\ ~t[k].expired => t[k].upto = Len(ls[t[k].who].acts)
                      /\ ls[t[k].who].delay => k = 1
                      /\ ~ls[t[k].who].delay /\ ~t[k].expired
                            => \E j \in DOMAIN t : j < k /\ Triggers(t, j, ls, t[k].who)
    BY DEF RunsRight
  <2>1. /\ k \in DOMAIN s /\ s[k].call = "actions" /\ s[k].who = t[k].who
        /\ s[k].at = t[k].at /\ s[k].upto = t[k].upto /\ s[k].expired = t[k].expired
    BY DEF KeepsRuns
  <2>2. RunsRight(s, ls)
    BY DEF LinksInv
  <2>3. ASSUME NEW j \in DOMAIN s, j < k, Triggers(s, j, ls, s[k].who)
        PROVE  j \in DOMAIN t /\ Triggers(t, j, ls, s[k].who)
    <3>1. s[j].call = "dispatch"
      BY <2>3 DEF Triggers, IsDispatch
    <3>2. /\ j \in DOMAIN t /\ t[j].call = "dispatch" /\ t[j].who = s[j].who
          /\ t[j].what = s[j].what /\ t[j].due \subseteq s[j].due
      BY <2>1, <2>3, <3>1 DEF KeepsRuns
    <3>3. QED
      BY <2>3, <3>2 DEF Triggers, IsDispatch
  <2>4. /\ s[k].at <= s[k].upto /\ s[k].upto <= Len(ls[s[k].who].acts)
        /\ s[k].expired => k = 1 /\ s[k].at = s[k].upto /\ ls[s[k].who].acts[s[k].at].delay
        /\ ~s[k].expired => s[k].upto = Len(ls[s[k].who].acts)
        /\ ls[s[k].who].delay => k = 1
        /\ ~ls[s[k].who].delay /\ ~s[k].expired
              => \E j \in DOMAIN s : j < k /\ Triggers(s, j, ls, s[k].who)
    BY <2>1, <2>2 DEF RunsRight
  <2>5. QED
    BY <2>1, <2>3, <2>4
<1>3. RunsOnce(t)
  BY DEF KeepsRuns, LinksInv, RunsOnce
<1>4. \A l : IsRun(s, l) <=> IsRun(t, l)
  BY <1>1 DEF IsRun
<1>5. PromptPending(t, ls, p, y)
  BY <1>4 DEF LinksInv, PromptPending
<1>6. PromptCounts(t, ls, q)
  BY DEF KeepsRuns, LinksInv, PromptCounts
<1>7. \A l : Called(s, l) = Called(t, l)
  <2>1. ASSUME NEW l PROVE Called(s, l) \subseteq Called(t, l)
    BY <1>1 DEF Called, KeepsRuns, Runs
  <2>2. ASSUME NEW l PROVE Called(t, l) \subseteq Called(s, l)
    BY <1>1 DEF Called, KeepsRuns, Runs
  <2>3. QED
    BY <2>1, <2>2
<1>8. QED
  BY <1>2, <1>3, <1>4, <1>5, <1>6, <1>7 DEF LinksInv

\* One more run of the link l has begun.
OneBegins(p, y, p2, y2, l) ==
    /\ p[l] \in Nat /\ y[<<l, 0>>] \in Nat /\ p2[l] \in Nat /\ y2[<<l, 0>>] \in Nat
    /\ p2[l] - y2[<<l, 0>>] = p[l] - y[<<l, 0>>] + 1
    /\ \A k \in Links : k # l => p2[k] = p[k] /\ y2[<<k, 0>>] = y[<<k, 0>>]

\* A link begins to run all of its actions, on the top of the stack.
LEMMA PushRun ==
  ASSUME TypeInv, NEW s \in Seq(Frames), NEW l \in Links, NEW p, NEW p2, NEW q, NEW y, NEW y2,
         LinksInv(s, links, p, q, y), DelaysAreDue(links, y2),
         q \in [Links -> [pendingActions : Int, hasStart : BOOLEAN]],
         \A k \in DOMAIN s : Runs(s, k, l) => s[k].expired,
         links[l].delay => s = <<>>,
         ~links[l].delay => \E j \in DOMAIN s : Triggers(s, j, links, l),
         OneBegins(p, y, p2, y2, l)
  PROVE  LinksInv(s \o <<Actions(l, 1, Len(links[l].acts), FALSE)>>, links, p2,
                  [q EXCEPT ![l] = Begun(l)], y2)
<1> DEFINE n == Len(s)
           a == Len(links[l].acts)
           f == Actions(l, 1, a, FALSE)
           t == s \o <<f>>
           q2 == [q EXCEPT ![l] = Begun(l)]
<1>1. a \in 1..MaxActs /\ a \in Nat /\ MaxActs \in Nat /\ 1 \in 1..MaxActs
  BY LinkTypes
<1>2. /\ f \in Frames /\ f.call = "actions" /\ f.who = l /\ f.at = 1 /\ f.upto = a
      /\ f.expired = FALSE
  BY <1>1, ActionsType DEF Actions
<1>3. q2[l].pendingActions = a /\ \A k \in Links : k # l => q2[k] = q[k]
  BY DEF Begun
<1> HIDE DEF f, q2
<1>4. /\ n \in Nat /\ DOMAIN s = 1..n /\ DOMAIN t = 1..(n + 1) /\ t[n + 1] = f
      /\ \A k \in 1..n : t[k] = s[k]
  BY <1>2, PushOne, LenProperties
<1> HIDE DEF t, n, a
<1>5. /\ DOMAIN s \subseteq DOMAIN t /\ \A k \in DOMAIN s : t[k] = s[k] /\ k < n + 1 /\ k \in Nat
      /\ \A k \in DOMAIN t : k \in DOMAIN s \/ k = n + 1
      /\ n + 1 \in DOMAIN t /\ n + 1 \notin DOMAIN s
  BY <1>4
<1>6. /\ DueAreDue(s, links) /\ RunsRight(s, links) /\ RunsOnce(s)
      /\ PromptPending(s, links, p, y) /\ PromptCounts(s, links, q)
  BY DEF LinksInv
<1>7. DueAreDue(t, links)
  <2>1. \A k \in DOMAIN t : t[k].call = "dispatch" => k \in DOMAIN s /\ t[k] = s[k]
    BY <1>2, <1>4, <1>5
  <2>2. QED
    BY <1>6, <2>1 DEF DueAreDue
<1>8. RunsRight(t, links)
  <2> SUFFICES ASSUME NEW k \in DOMAIN t, t[k].call = "actions"
               PROVE  /\ t[k].at <= t[k].upto /\ t[k].upto <= Len(links[t[k].who].acts)
                      /\ t[k].expired => k = 1 /\ t[k].at = t[k].upto /\ links[t[k].who].acts[t[k].at].delay
                      /\ ~t[k].expired => t[k].upto = Len(links[t[k].who].acts)
                      /\ links[t[k].who].delay => k = 1
                      /\ ~links[t[k].who].delay /\ ~t[k].expired
                            => \E j \in DOMAIN t : j < k /\ Triggers(t, j, links, t[k].who)
    BY DEF RunsRight
  <2>1. \A j \in DOMAIN s : \A x : Triggers(s, j, links, x) => Triggers(t, j, links, x)
    BY <1>5 DEF Triggers, IsDispatch
  <2>2. CASE k \in DOMAIN s
    <3>1. /\ s[k].at <= s[k].upto /\ s[k].upto <= Len(links[s[k].who].acts)
          /\ s[k].expired => k = 1 /\ s[k].at = s[k].upto /\ links[s[k].who].acts[s[k].at].delay
          /\ ~s[k].expired => s[k].upto = Len(links[s[k].who].acts)
          /\ links[s[k].who].delay => k = 1
          /\ ~links[s[k].who].delay /\ ~s[k].expired
                => \E j \in DOMAIN s : j < k /\ Triggers(s, j, links, s[k].who)
      BY <1>5, <1>6, <2>2 DEF RunsRight
    <3>2. QED
      BY <1>5, <2>1, <2>2, <3>1
  <2>3. CASE k = n + 1
    <3>1. t[k] = f
      BY <1>4, <2>3
    <3>2. links[l].delay => n = 0
      BY <1>4 DEF n
    <3>3. ~links[l].delay => \E j \in DOMAIN t : j < k /\ Triggers(t, j, links, l)
      BY <1>5, <2>1, <2>3
    <3>4. QED
      BY <1>1, <1>2, <2>3, <3>1, <3>2, <3>3 DEF a
  <2>4. QED
    BY <1>5, <2>2, <2>3
<1>9. RunsOnce(t)
  <2>1. \A k \in DOMAIN s : s[k].call = "actions" /\ s[k].who = l => s[k].expired
    BY DEF Runs
  <2> SUFFICES ASSUME NEW j \in DOMAIN t, NEW k \in DOMAIN t, t[j].call = "actions",
                      t[k].call = "actions", t[j].who = t[k].who, ~t[j].expired, ~t[k].expired
               PROVE  j = k
    BY DEF RunsOnce
  <2>2. t[n + 1].who = l
    BY <1>2, <1>4
  <2>3. j \in DOMAIN s => t[j] = s[j]
    BY <1>5
  <2>4. k \in DOMAIN s => t[k] = s[k]
    BY <1>5
  <2>5. (j \in DOMAIN s \/ j = n + 1) /\ (k \in DOMAIN s \/ k = n + 1)
    BY <1>5
  <2>6. CASE j \in DOMAIN s /\ k \in DOMAIN s
    BY <1>6, <2>3, <2>4, <2>6 DEF RunsOnce
  <2>7. CASE j \in DOMAIN s /\ k = n + 1
    BY <2>1, <2>2, <2>3, <2>7
  <2>8. CASE j = n + 1 /\ k \in DOMAIN s
    BY <2>1, <2>2, <2>4, <2>8
  <2>9. QED
    BY <2>5, <2>6, <2>7, <2>8
<1>10. Prompt(links, l) => \A k \in DOMAIN s : ~Runs(s, k, l)
  <2> SUFFICES ASSUME Prompt(links, l), NEW k \in DOMAIN s, Runs(s, k, l) PROVE FALSE
    OBVIOUS
  <2>1. s[k].expired /\ s[k].who = l /\ s[k].call = "actions" /\ s[k] \in ActionsFrames
    BY FrameOf, FrameTypes DEF Runs
  <2>2. links[l].acts[s[k].at].delay /\ s[k].at <= s[k].upto /\ s[k].upto <= Len(links[l].acts)
    BY <1>6, <2>1 DEF RunsRight
  <2>3. s[k].at \in DOMAIN links[l].acts
    BY <1>1, <2>1, <2>2, LinkTypes DEF ActionsFrames, a
  <2>4. QED
    BY <2>2, <2>3 DEF Prompt
<1>11. PromptPending(t, links, p2, y2)
  <2> SUFFICES ASSUME NEW k \in Links, Prompt(links, k)
               PROVE  p2[k] = y2[<<k, 0>>] + (IF IsRun(t, k) THEN 1 ELSE 0)
    BY DEF PromptPending
  <2>1. p[k] = y[<<k, 0>>] + (IF IsRun(s, k) THEN 1 ELSE 0)
    BY <1>6 DEF PromptPending
  <2>2. CASE k = l
    <3>1. ~IsRun(s, l) /\ IsRun(t, l)
      <4>1. ~IsRun(s, l)
        BY <1>10, <2>2 DEF IsRun
      <4>2. Runs(t, n + 1, l)
        BY <1>2, <1>4 DEF Runs
      <4>3. QED
        BY <1>5, <4>1, <4>2 DEF IsRun
    <3>2. QED
      BY <2>1, <2>2, <3>1 DEF OneBegins
  <2>3. CASE k # l
    <3>1. IsRun(s, k) <=> IsRun(t, k)
      <4>1. ~Runs(t, n + 1, k)
        BY <1>2, <1>4, <2>3 DEF Runs
      <4>2. \A j \in DOMAIN s : Runs(s, j, k) <=> Runs(t, j, k)
        BY <1>5 DEF Runs
      <4>3. QED
        BY <1>5, <4>1, <4>2 DEF IsRun
    <3>2. QED
      BY <2>1, <2>3, <3>1 DEF OneBegins
  <2>4. QED
    BY <2>2, <2>3
<1>12. PromptCounts(t, links, q2)
  <2> SUFFICES ASSUME NEW k \in DOMAIN t, t[k].call = "actions", Prompt(links, t[k].who),
                      Len(links[t[k].who].acts) > 1
               PROVE  q2[t[k].who].pendingActions = t[k].upto - t[k].at + 1
    BY DEF PromptCounts
  <2>1. CASE k \in DOMAIN s
    <3>1. s[k].who # l /\ s[k].who \in Links
      BY <1>5, <1>10, <2>1, FrameOf DEF Runs
    <3>2. q[s[k].who].pendingActions = s[k].upto - s[k].at + 1
      BY <1>5, <1>6, <2>1 DEF PromptCounts
    <3>3. QED
      BY <1>3, <1>5, <2>1, <3>1, <3>2
  <2>2. CASE k = n + 1
    BY <1>1, <1>2, <1>3, <1>4, <2>2
  <2>3. QED
    BY <1>5, <2>1, <2>2
<1>13. QED
  BY <1>7, <1>8, <1>9, <1>11, <1>12 DEF LinksInv, t, q2, f, a

-----------------------------------------------------------------------------
(* The tokens. *)

LEMMA TokensFinite ==
  ASSUME NEW s \in Seq(Frames), NEW y, NEW l
  PROVE  /\ IsFiniteSet(Waiting(y, l)) /\ Cardinality(Waiting(y, l)) \in Nat
         /\ IsFiniteSet(Called(s, l)) /\ Cardinality(Called(s, l)) \in Nat
         /\ ToDo(s, y, l) \in Nat
<1>1. MaxActs \in Nat /\ MaxDelayed \in Nat /\ Len(s) \in Nat /\ DOMAIN s = 1..Len(s)
  BY CompositionAssumption, LenProperties
<1>2. IsFiniteSet(1..MaxActs) /\ IsFiniteSet(1..MaxDelayed) /\ IsFiniteSet(DOMAIN s)
  BY <1>1, FS_Interval
<1>3. IsFiniteSet((1..MaxActs) \X (1..MaxDelayed)) /\ IsFiniteSet((DOMAIN s) \X (1..MaxActs))
  BY <1>2, FS_Product
<1>4. /\ Waiting(y, l) \in SUBSET ((1..MaxActs) \X (1..MaxDelayed))
      /\ Called(s, l) \in SUBSET ((DOMAIN s) \X (1..MaxActs))
  BY DEF Waiting, Called
<1>5. IsFiniteSet(Waiting(y, l)) /\ IsFiniteSet(Called(s, l))
  BY <1>3, <1>4, FS_Subset
<1>6. Cardinality(Waiting(y, l)) \in Nat /\ Cardinality(Called(s, l)) \in Nat
  BY <1>5, FS_CardinalityType
<1>7. QED
  BY <1>5, <1>6 DEF ToDo

LEMMA PushRunTokens ==
  ASSUME NEW s \in Seq(Frames), NEW l \in Links, NEW a \in 1..MaxActs, NEW b \in a..MaxActs,
         NEW expired \in BOOLEAN
  PROVE  LET t == s \o <<Actions(l, a, b, expired)>> IN
         /\ \A k : k # l => Called(t, k) = Called(s, k)
         /\ Cardinality(Called(t, l)) = Cardinality(Called(s, l)) + b - a + 1
<1> DEFINE n == Len(s)
           f == Actions(l, a, b, expired)
           t == s \o <<f>>
<1>1. MaxActs \in Nat /\ a \in Nat /\ b \in Nat /\ a <= b /\ b \in 1..MaxActs
  BY CompositionAssumption
<1>2. f \in Frames /\ f.call = "actions" /\ f.who = l /\ f.at = a /\ f.upto = b
  BY <1>1, ActionsType DEF Actions
<1> HIDE DEF f
<1>3. /\ n \in Nat /\ DOMAIN s = 1..n /\ DOMAIN t = 1..(n + 1) /\ t[n + 1] = f
      /\ \A k \in 1..n : t[k] = s[k]
  BY <1>2, PushOne, LenProperties
<1> HIDE DEF t, n
<1>4. /\ DOMAIN t = (DOMAIN s) \cup {n + 1} /\ \A k \in DOMAIN s : t[k] = s[k]
      /\ n + 1 \notin DOMAIN s
  BY <1>3
<1>5. ASSUME NEW k, k # l PROVE Called(t, k) = Called(s, k)
  <2>1. ~Runs(t, n + 1, k) /\ \A j \in DOMAIN s : Runs(t, j, k) <=> Runs(s, j, k)
    BY <1>2, <1>3, <1>4, <1>5 DEF Runs
  <2>2. QED
    BY <1>4, <2>1 DEF Called
<1> DEFINE new == {n + 1} \X (a..b)
<1>6. Called(t, l) = Called(s, l) \cup new
  <2>1. Runs(t, n + 1, l) /\ \A j \in DOMAIN s : Runs(t, j, l) <=> Runs(s, j, l)
    BY <1>2, <1>3, <1>4 DEF Runs
  <2>2. t[n + 1].at = a /\ t[n + 1].upto = b
    BY <1>2, <1>3
  <2>3. a..b \subseteq 1..MaxActs /\ \A i \in 1..MaxActs : a <= i /\ i <= b <=> i \in a..b
    BY <1>1
  <2>4. ASSUME NEW x \in Called(t, l) PROVE x \in Called(s, l) \cup new
    BY <1>4, <2>1, <2>2, <2>3, <2>4 DEF Called
  <2>5. ASSUME NEW x \in Called(s, l) PROVE x \in Called(t, l)
    BY <1>4, <2>1, <2>5 DEF Called
  <2>6. ASSUME NEW x \in new PROVE x \in Called(t, l)
    BY <1>4, <2>1, <2>2, <2>3, <2>6 DEF Called
  <2>7. QED
    BY <2>4, <2>5, <2>6
<1>7. Called(s, l) \cap new = {}
  BY <1>4 DEF Called
<1>8. IsFiniteSet(new) /\ Cardinality(new) = b - a + 1
  <2>1. IsFiniteSet(a..b) /\ Cardinality(a..b) = b - a + 1
    BY <1>1, FS_Interval
  <2>2. IsFiniteSet({n + 1}) /\ Cardinality({n + 1}) = 1
    BY FS_Singleton
  <2>3. IsFiniteSet(new) /\ Cardinality(new) = Cardinality({n + 1}) * Cardinality(a..b)
    BY <2>1, <2>2, FS_Product
  <2>4. QED
    BY <1>1, <2>1, <2>2, <2>3
<1>9. IsFiniteSet(Called(s, l)) /\ Cardinality(Called(s, l)) \in Nat
  BY TokensFinite
<1> HIDE DEF new
<1>10. Cardinality(Called(t, l)) = Cardinality(Called(s, l)) + Cardinality(new) - Cardinality({})
  BY <1>6, <1>7, <1>8, <1>9, FS_Union
<1>11. Cardinality(Called(t, l)) = Cardinality(Called(s, l)) + b - a + 1
  BY <1>1, <1>8, <1>9, <1>10, FS_EmptySet
<1>12. QED
  BY <1>5, <1>11 DEF t, f

\* An action of the run on the top of the stack is dealt with.
LEMMA ReturnedTokens ==
  ASSUME TypeInv, RunsRight(stack, links), InCall("actions")
  PROVE  /\ \A k : k # Top.who => Called(Returned, k) = Called(stack, k)
         /\ Cardinality(Called(Returned, Top.who)) = Cardinality(Called(stack, Top.who)) - 1
         /\ Cardinality(Called(stack, Top.who)) \in Nat \ {0}
<1> DEFINE n == Len(stack)
           s == stack
           t == Returned
           l == Top.who
<1>1. /\ ~Free /\ Top \in ActionsFrames /\ l \in Links /\ Top.at \in 1..Top.upto
      /\ Returned \in Seq(Frames)
  BY ActionsTop
<1>2. /\ s \in Seq(Frames) /\ n \in Nat \ {0} /\ DOMAIN s = 1..n /\ Top = s[n] /\ n \in DOMAIN s
      /\ DOMAIN Below = 1..(n - 1) /\ \A k \in 1..(n - 1) : Below[k] = s[k]
  BY <1>1, BelowTop DEF TypeInv
<1>3. /\ Top.call = "actions" /\ Top.at \in 1..MaxActs /\ Top.upto \in 1..MaxActs
      /\ MaxActs \in Nat /\ Top.at <= Top.upto
  BY <1>1, CompositionAssumption DEF ActionsFrames
<1>4. ASSUME Top.at = Top.upto
      PROVE  /\ \A k : k # l => Called(t, k) = Called(s, k)
             /\ Called(t, l) = Called(s, l) \ {<<n, Top.at>>}
  <2>1. t = Below
    BY <1>4 DEF Returned
  <2>2. /\ DOMAIN t = (DOMAIN s) \ {n} /\ \A k \in DOMAIN t : t[k] = s[k]
    BY <1>2, <2>1
  <2>3. \A j \in DOMAIN t : \A k : Runs(t, j, k) <=> Runs(s, j, k)
    BY <2>2 DEF Runs
  <2>4. \A k : k # l => Called(t, k) = Called(s, k)
    <3>1. \A k : k # l => ~Runs(s, n, k)
      BY <1>2 DEF Runs
    <3> HIDE DEF t, s, n, l
    <3>2. QED
      BY <2>2, <2>3, <3>1 DEF Called
  <2>5. Called(t, l) = Called(s, l) \ {<<n, Top.at>>}
    <3>1. s[n].at = Top.at /\ s[n].upto = Top.at
      BY <1>2, <1>4
    <3>2. \A i \in 1..MaxActs : s[n].at <= i /\ i <= s[n].upto <=> i = Top.at
      BY <1>3, <3>1
    <3> HIDE DEF t, s, n, l
    <3>3. QED
      BY <2>2, <2>3, <3>2 DEF Called
  <2>6. QED
    BY <2>4, <2>5
<1>5. ASSUME Top.at # Top.upto
      PROVE  /\ \A k : k # l => Called(t, k) = Called(s, k)
             /\ Called(t, l) = Called(s, l) \ {<<n, Top.at>>}
  <2> DEFINE f == [Top EXCEPT !.at = @ + 1, !.run = FALSE]
  <2>1. t = Append(Below, f) /\ f \in Frames
    BY <1>5, ActionsTop DEF Returned, Frames
  <2>2. f.call = "actions" /\ f.who = l /\ f.at = Top.at + 1 /\ f.upto = Top.upto
    BY <1>1 DEF ActionsFrames
  <2> HIDE DEF f
  <2>3. DOMAIN t = DOMAIN s /\ t[n] = f /\ \A k \in DOMAIN s : k # n => t[k] = s[k]
    <3>1. /\ DOMAIN Append(Below, f) = 1..n /\ Append(Below, f)[n] = f
          /\ \A k \in 1..(n - 1) : Append(Below, f)[k] = s[k]
      BY <1>1, <1>2, <2>1, AppendBelow
    <3>2. n \in Nat
      BY <1>2
    <3> HIDE DEF n
    <3>3. \A k \in 1..n : k # n => k \in 1..(n - 1)
      BY <3>2
    <3>4. QED
      BY <1>2, <2>1, <3>1, <3>3
  <2>4. \A j \in DOMAIN s : \A k : Runs(t, j, k) <=> Runs(s, j, k)
    BY <1>2, <1>3, <2>2, <2>3 DEF Runs
  <2>5. \A k : k # l => Called(t, k) = Called(s, k)
    <3>1. \A k : k # l => ~Runs(s, n, k)
      BY <1>2 DEF Runs
    <3> HIDE DEF t, s, n, l
    <3>2. QED
      BY <2>3, <2>4, <3>1 DEF Called
  <2>6. Called(t, l) = Called(s, l) \ {<<n, Top.at>>}
    <3>1. s[n].at = Top.at /\ s[n].upto = Top.upto /\ t[n].at = Top.at + 1 /\ t[n].upto = Top.upto
      BY <1>2, <2>2, <2>3
    <3>2. \A i \in 1..MaxActs : t[n].at <= i /\ i <= t[n].upto
                                  <=> (s[n].at <= i /\ i <= s[n].upto /\ i # Top.at)
      BY <1>3, <3>1
    <3> HIDE DEF t, s, n, l
    <3>3. \A x \in (DOMAIN s) \X (1..MaxActs) : x \in Called(t, l) <=> x \in Called(s, l) \ {<<n, Top.at>>}
      BY <2>3, <2>4, <3>2 DEF Called
    <3>4. QED
      BY <2>3, <3>3 DEF Called
  <2>7. QED
    BY <2>5, <2>6
<1>6. /\ \A k : k # l => Called(t, k) = Called(s, k)
      /\ Called(t, l) = Called(s, l) \ {<<n, Top.at>>}
  BY <1>4, <1>5
<1>7. <<n, Top.at>> \in Called(s, l)
  <2>1. Runs(s, n, l) /\ s[n].at <= Top.at /\ Top.at <= s[n].upto
    BY <1>2, <1>3 DEF Runs
  <2>2. QED
    BY <1>2, <1>3, <2>1 DEF Called
<1>8. IsFiniteSet(Called(s, l)) /\ Cardinality(Called(s, l)) \in Nat
  BY <1>2, TokensFinite
<1>9. Cardinality(Called(s, l)) # 0
  BY <1>7, <1>8, FS_EmptySet
<1>10. Cardinality(Called(s, l) \ {<<n, Top.at>>}) = Cardinality(Called(s, l)) - 1
  BY <1>7, <1>8, FS_RemoveElement
<1>11. QED
  BY <1>6, <1>8, <1>9, <1>10

\* One more timer of an action.
OneMore(y, z, l, i) ==
    /\ y \in [Links \X (0..MaxActs) -> 0..MaxDelayed]
    /\ z \in [Links \X (0..MaxActs) -> 0..MaxDelayed]
    /\ z[<<l, i>>] = y[<<l, i>>] + 1
    /\ \A k \in Links, j \in 0..MaxActs : k # l \/ j # i => z[<<k, j>>] = y[<<k, j>>]

LEMMA TimerTokens ==
  ASSUME NEW y, NEW z, NEW l \in Links, NEW i \in 1..MaxActs, OneMore(y, z, l, i)
  PROVE  /\ \A k \in Links : k # l => Waiting(z, k) = Waiting(y, k)
         /\ Cardinality(Waiting(z, l)) = Cardinality(Waiting(y, l)) + 1
         /\ \A k \in Links : z[<<k, 0>>] = y[<<k, 0>>]
<1>1. MaxActs \in Nat /\ MaxDelayed \in Nat /\ i \in 0..MaxActs /\ i # 0 /\ 0 \in 0..MaxActs
      /\ \A j \in 1..MaxActs : j \in 0..MaxActs
  BY CompositionAssumption
<1>2. /\ \A k \in Links, j \in 0..MaxActs : <<k, j>> # <<l, i>> => z[<<k, j>>] = y[<<k, j>>]
      /\ z[<<l, i>>] = y[<<l, i>>] + 1
      /\ y[<<l, i>>] \in Nat /\ z[<<l, i>>] \in 1..MaxDelayed
  <2>1. y[<<l, i>>] \in 0..MaxDelayed /\ z[<<l, i>>] \in 0..MaxDelayed
    BY <1>1 DEF OneMore
  <2>2. \A k \in Links, j \in 0..MaxActs : <<k, j>> # <<l, i>> => k # l \/ j # i
    OBVIOUS
  <2>3. QED
    BY <1>1, <2>1, <2>2 DEF OneMore
<1> DEFINE x == <<i, z[<<l, i>>]>>
<1>3. \A k \in Links : k # l => Waiting(z, k) = Waiting(y, k)
  <2>1. \A k \in Links, j \in 1..MaxActs : k # l => z[<<k, j>>] = y[<<k, j>>]
    BY <1>1, <1>2
  <2>2. QED
    BY <2>1 DEF Waiting
<1>4. \A k \in Links : z[<<k, 0>>] = y[<<k, 0>>]
  BY <1>1, <1>2
<1>5. Waiting(z, l) = Waiting(y, l) \cup {x}
  <2>1. \A j \in 1..MaxActs : j # i => z[<<l, j>>] = y[<<l, j>>]
    BY <1>1, <1>2
  <2>2. \A d \in 1..MaxDelayed : d <= z[<<l, i>>] <=> d <= y[<<l, i>>] \/ d = z[<<l, i>>]
    BY <1>1, <1>2
  <2>3. x \in (1..MaxActs) \X (1..MaxDelayed) /\ x[1] = i /\ x[2] = z[<<l, i>>]
    BY <1>2
  <2>4. \A w \in (1..MaxActs) \X (1..MaxDelayed) :
           w = <<w[1], w[2]>> /\ w[1] \in 1..MaxActs /\ w[2] \in 1..MaxDelayed
    OBVIOUS
  <2>5. \A w \in (1..MaxActs) \X (1..MaxDelayed) :
           w[2] <= z[<<l, w[1]>>] <=> w[2] <= y[<<l, w[1]>>] \/ w = x
    <3> SUFFICES ASSUME NEW w \in (1..MaxActs) \X (1..MaxDelayed)
                 PROVE  w[2] <= z[<<l, w[1]>>] <=> w[2] <= y[<<l, w[1]>>] \/ w = x
      OBVIOUS
    <3>1. w[1] # i => w # x /\ z[<<l, w[1]>>] = y[<<l, w[1]>>]
      BY <2>1, <2>3, <2>4
    <3>2. w[1] = i => (w = x <=> w[2] = z[<<l, i>>])
      BY <2>3, <2>4
    <3>3. QED
      BY <2>2, <2>4, <3>1, <3>2
  <2> HIDE DEF x
  <2>6. QED
    BY <2>3, <2>5 DEF Waiting
<1>6. x \notin Waiting(y, l)
  <2>1. x[1] = i /\ x[2] = y[<<l, i>>] + 1
    BY <1>2
  <2>2. ~(x[2] <= y[<<l, x[1]>>])
    BY <1>2, <2>1
  <2> HIDE DEF x
  <2>3. QED
    BY <2>2 DEF Waiting
<1>7. IsFiniteSet(Waiting(y, l)) /\ Cardinality(Waiting(y, l)) \in Nat
  <2>1. <<>> \in Seq(Frames)
    OBVIOUS
  <2>2. QED
    BY <2>1, TokensFinite
<1> HIDE DEF x
<1>8. Cardinality(Waiting(z, l)) = Cardinality(Waiting(y, l)) + 1
  BY <1>5, <1>6, <1>7, FS_AddElement
<1>9. QED
  BY <1>3, <1>4, <1>8

-----------------------------------------------------------------------------
(* Steps that leave the runs of the links alone. *)

LEMMA KeepsRunsTwo ==
  ASSUME NEW s, NEW t, NEW u, KeepsRuns(s, t), KeepsRuns(t, u)
  PROVE  KeepsRuns(s, u)
<1>1. /\ \A k \in DOMAIN u : u[k].call = "actions" =>
            /\ k \in DOMAIN s /\ s[k].call = "actions" /\ s[k].who = u[k].who
            /\ s[k].at = u[k].at /\ s[k].upto = u[k].upto /\ s[k].expired = u[k].expired
      /\ \A k \in DOMAIN s : s[k].call = "actions" => k \in DOMAIN u /\ u[k].call = "actions"
  BY DEF KeepsRuns
<1>2. ASSUME NEW j \in DOMAIN s, NEW k \in DOMAIN s, j < k, s[j].call = "dispatch",
             s[k].call = "actions"
      PROVE  /\ j \in DOMAIN u /\ u[j].call = "dispatch" /\ u[j].who = s[j].who
             /\ u[j].what = s[j].what /\ u[j].due \subseteq s[j].due
  <2>1. /\ j \in DOMAIN t /\ t[j].call = "dispatch" /\ t[j].who = s[j].who
        /\ t[j].what = s[j].what /\ t[j].due \subseteq s[j].due
    BY <1>2 DEF KeepsRuns
  <2>2. k \in DOMAIN t /\ t[k].call = "actions"
    BY <1>2 DEF KeepsRuns
  <2>3. /\ j \in DOMAIN u /\ u[j].call = "dispatch" /\ u[j].who = t[j].who
        /\ u[j].what = t[j].what /\ u[j].due \subseteq t[j].due
    BY <1>2, <2>1, <2>2 DEF KeepsRuns
  <2>4. QED
    BY <2>1, <2>3
<1>3. QED
  BY <1>1, <1>2 DEF KeepsRuns

LEMMA ReplaceRuns ==
  ASSUME stack \in Seq(Frames), ~Free, DueAreDue(stack, links), NEW f \in Frames, f.call = Top.call,
         f.call \in {"dispatch", "actions"} => f.who = Top.who,
         f.call = "dispatch" => f.what = Top.what /\ f.due \subseteq Top.due,
         f.call = "actions" => f.at = Top.at /\ f.upto = Top.upto /\ f.expired = Top.expired
  PROVE  KeepsRuns(stack, Append(Below, f)) /\ DueAreDue(Append(Below, f), links)
<1> DEFINE t == Append(Below, f)
           n == Len(stack)
<1>1. n \in Nat \ {0} /\ DOMAIN stack = 1..n /\ Top = stack[n]
  BY BelowTop
<1>2. DOMAIN t = 1..n /\ t[n] = f /\ \A k \in 1..(n - 1) : t[k] = stack[k]
  BY AppendBelow
<1> HIDE DEF t, n
<1>3. DOMAIN t = DOMAIN stack /\ \A k \in DOMAIN stack : k = n \/ t[k] = stack[k]
  BY <1>1, <1>2
<1>4. KeepsRuns(stack, t)
  BY <1>1, <1>2, <1>3 DEF KeepsRuns
<1>5. DueAreDue(t, links)
  BY <1>1, <1>2, <1>3 DEF DueAreDue
<1>6. QED
  BY <1>4, <1>5 DEF t

LEMMA PopRuns ==
  ASSUME stack \in Seq(Frames), ~Free, DueAreDue(stack, links), Top.call # "actions"
  PROVE  KeepsRuns(stack, Below) /\ DueAreDue(Below, links)
<1> DEFINE n == Len(stack)
<1>1. /\ n \in Nat \ {0} /\ DOMAIN stack = 1..n /\ Top = stack[n] /\ DOMAIN Below = 1..(n - 1)
      /\ \A k \in 1..(n - 1) : Below[k] = stack[k]
  BY BelowTop
<1> HIDE DEF n
<1>2. /\ DOMAIN Below \subseteq DOMAIN stack /\ \A k \in DOMAIN Below : Below[k] = stack[k]
      /\ \A k \in DOMAIN stack : k = n \/ k \in DOMAIN Below
      /\ \A j, k \in DOMAIN stack : j < k => j \in DOMAIN Below
  BY <1>1
<1>3. QED
  BY <1>1, <1>2 DEF KeepsRuns, DueAreDue

LEMMA PushQuiet ==
  ASSUME NEW s \in Seq(Frames), DueAreDue(s, links), NEW f \in Frames, f.call # "actions",
         f.call = "dispatch" => \A l \in f.due : links[l].on = f.who /\ links[l].tr = f.what
  PROVE  KeepsRuns(s, s \o <<f>>) /\ DueAreDue(s \o <<f>>, links)
<1> DEFINE t == s \o <<f>>
           n == Len(s)
<1>1. /\ n \in Nat /\ DOMAIN s = 1..n /\ DOMAIN t = 1..(n + 1) /\ t[n + 1] = f
      /\ \A k \in 1..n : t[k] = s[k]
  BY PushOne, LenProperties
<1> HIDE DEF t, n
<1>2. /\ DOMAIN s \subseteq DOMAIN t /\ \A k \in DOMAIN s : t[k] = s[k]
      /\ \A k \in DOMAIN t : k \in DOMAIN s \/ t[k] = f
  BY <1>1
<1>3. KeepsRuns(s, t)
  BY <1>2 DEF KeepsRuns
<1>4. DueAreDue(t, links)
  BY <1>2 DEF DueAreDue
<1>5. QED
  BY <1>3, <1>4 DEF t

LEMMA RunMediaRuns ==
  ASSUME TypeInv, ObjectsInv(stack, child, composite), DueAreDue(stack, links), NEW act \in Acts,
         NEW m \in Media, NEW rest \in Seq(Frames), KeepsRuns(stack, rest), DueAreDue(rest, links),
         RunMedia(act, m, rest)
  PROVE  KeepsRuns(stack, stack') /\ DueAreDue(stack', links)
<1>1. Effect(act, m, rest)
  BY RunMediaEffect
<1>2. CASE stack' = rest
  BY <1>2
<1>3. CASE stack' = stack
  BY <1>3 DEF KeepsRuns
<1> DEFINE f == Dispatch(m, act)
<1>4. /\ f \in Frames /\ f.call = "dispatch"
      /\ \A l \in f.due : links[l].on = f.who /\ links[l].tr = f.what
  BY DispatchType
<1> HIDE DEF f
<1>5. CASE stack' = rest \o <<f>>
  <2>1. KeepsRuns(rest, rest \o <<f>>) /\ DueAreDue(rest \o <<f>>, links)
    BY <1>4, PushQuiet
  <2>2. QED
    BY <1>5, <2>1, KeepsRunsTwo
<1>6. CASE act # "start" /\ stack' = rest \o (<<After(act, m)>> \o <<f>>)
  <2> DEFINE g == After(act, m)
             t == rest \o <<g>>
  <2>1. g \in Frames /\ g.call = "after"
    BY <1>6, AfterType DEF After
  <2>2. stack' = t \o <<f>>
    <3>1. <<g>> \in Seq(Frames) /\ <<f>> \in Seq(Frames)
      BY <1>4, <2>1
    <3>2. rest \o (<<g>> \o <<f>>) = (rest \o <<g>>) \o <<f>>
      BY <3>1, ConcatAssociative
    <3>3. QED
      BY <1>6, <3>2
  <2>3. t \in Seq(Frames)
    BY <2>1, PushOne
  <2> HIDE DEF g
  <2>4. KeepsRuns(rest, t) /\ DueAreDue(t, links)
    BY <2>1, PushQuiet
  <2> HIDE DEF t
  <2>5. KeepsRuns(t, t \o <<f>>) /\ DueAreDue(t \o <<f>>, links)
    BY <1>4, <2>3, <2>4, PushQuiet
  <2>6. KeepsRuns(stack, t)
    BY <2>4, KeepsRunsTwo
  <2>7. KeepsRuns(stack, t \o <<f>>)
    BY <2>5, <2>6, KeepsRunsTwo
  <2>8. QED
    BY <2>2, <2>5, <2>7
<1>7. QED
  BY <1>1, <1>2, <1>3, <1>5, <1>6 DEF Effect, f

\* All the steps but those that begin a run, or come to the end of one of its actions.
LEMMA QuietRuns ==
  ASSUME TypeInv, ObjectsInv(stack, child, composite), DueAreDue(stack, links), RunsRight(stack, links),
         \/ \E act \in Acts : Outside(act)
         \/ \E m \in Media : NaturalEnd(m)
         \/ AfterDispatch \/ TellComposite \/ RunLinkAction \/ RunCompose
         \/ UNCHANGED vars
  PROVE  /\ KeepsRuns(stack, stack') /\ DueAreDue(stack', links)
         /\ UNCHANGED <<links, compound, delayed>> /\ composite'.pending = composite.pending
<1>0. UNCHANGED <<links, compound, delayed>> /\ composite'.pending = composite.pending
  <2>1. CASE TellComposite
    BY <2>1, TellCompositeEffect DEF TellComposite
  <2>2. CASE ~TellComposite
    BY <2>2 DEF Outside, NaturalEnd, AfterDispatch, RunLinkAction, RunCompose, vars
  <2>3. QED
    BY <2>1, <2>2
<1> SUFFICES KeepsRuns(stack, stack') /\ DueAreDue(stack', links)
  BY <1>0
<1>1. stack \in Seq(Frames) /\ (~Free => Top \in Frames)
  BY BelowTop DEF TypeInv
<1>2. ASSUME NEW act \in Acts, Outside(act) PROVE KeepsRuns(stack, stack') /\ DueAreDue(stack', links)
  <2> DEFINE f == Compose(act, IF act = "start" THEN Ports ELSE Order)
  <2>1. f.call = "compose" /\ Free /\ stack' = <<f>>
    BY <1>2 DEF Outside, Compose
  <2> HIDE DEF f
  <2>2. DOMAIN stack' = {1} /\ stack'[1] = f
    BY <2>1
  <2>3. QED
    BY <2>1, <2>2 DEF KeepsRuns, DueAreDue, Free
<1>3. ASSUME NEW m \in Media, NaturalEnd(m) PROVE KeepsRuns(stack, stack') /\ DueAreDue(stack', links)
  <2>1. RunMedia("stop", m, <<>>) /\ stack = <<>> /\ "stop" \in Acts /\ <<>> \in Seq(Frames)
    BY <1>3 DEF NaturalEnd, Free, Acts
  <2>2. KeepsRuns(stack, <<>>) /\ DueAreDue(<<>>, links)
    BY <2>1 DEF KeepsRuns, DueAreDue
  <2>3. QED
    BY <2>1, <2>2, RunMediaRuns
<1>4. CASE AfterDispatch
  <2>1. ~Free /\ Top.call # "actions" /\ stack' = Below
    BY <1>4 DEF AfterDispatch, InCall
  <2>2. QED
    BY <1>1, <2>1, PopRuns
<1>5. CASE TellComposite
  <2>1. ~Free /\ Top.call # "actions" /\ stack' = Below
    BY <1>5 DEF TellComposite, InCall
  <2>2. QED
    BY <1>1, <2>1, PopRuns
<1>6. ASSUME RunLinkAction
      PROVE  KeepsRuns(stack, stack') /\ DueAreDue(stack', links)
  <2> DEFINE f == [Top EXCEPT !.run = TRUE]
             rest == Append(Below, f)
             action == links[Top.who].acts[Top.at]
  <2>1. RunMedia(action.what, action.who, rest) /\ InCall("actions")
    BY <1>6 DEF RunLinkAction
  <2>2. /\ action.what \in Acts /\ action.who \in Media /\ rest \in Seq(Frames)
        /\ Top \in ActionsFrames /\ f \in Frames
    BY <1>6, <2>1, ActionsTop DEF Frames
  <2>3. /\ ~Free /\ f.call = Top.call /\ f.call = "actions" /\ f.who = Top.who /\ f.at = Top.at
        /\ f.upto = Top.upto /\ f.expired = Top.expired
    BY <2>1, <2>2 DEF ActionsFrames, InCall
  <2> HIDE DEF f, action
  <2>4. KeepsRuns(stack, rest) /\ DueAreDue(rest, links)
    BY <1>1, <2>2, <2>3, ReplaceRuns
  <2> HIDE DEF rest
  <2>5. QED
    BY <2>1, <2>2, <2>4, RunMediaRuns
<1>7. CASE RunCompose
  <2> DEFINE f == [Top EXCEPT !.todo = Tail(@)]
             rest == IF Len(Top.todo) = 1 THEN Below ELSE Append(Below, f)
  <2>1. RunMedia(Top.what, Head(Top.todo), rest) /\ ~Free /\ Top.call = "compose"
    BY <1>7 DEF RunCompose, InCall
  <2>2. /\ Top.what \in Acts /\ Head(Top.todo) \in Media /\ rest \in Seq(Frames)
        /\ Top \in ComposeFrames
        /\ Len(Top.todo) # 1 => f \in Frames
    BY <2>1, ComposeTop DEF Frames
  <2>3. f.call = "compose"
    BY <2>2 DEF ComposeFrames
  <2> HIDE DEF f
  <2>4. KeepsRuns(stack, Below) /\ DueAreDue(Below, links)
    BY <1>1, <2>1, PopRuns
  <2>5. Len(Top.todo) # 1 => KeepsRuns(stack, Append(Below, f)) /\ DueAreDue(Append(Below, f), links)
    BY <1>1, <2>1, <2>2, <2>3, ReplaceRuns
  <2>6. KeepsRuns(stack, rest) /\ DueAreDue(rest, links)
    BY <2>4, <2>5
  <2> HIDE DEF rest
  <2>7. QED
    BY <2>1, <2>2, <2>6, RunMediaRuns
<1>8. CASE UNCHANGED vars
  BY <1>8 DEF vars, KeepsRuns
<1>9. QED
  BY <1>2, <1>3, <1>4, <1>5, <1>6, <1>7, <1>8

-----------------------------------------------------------------------------
(* Steps of the run on the top of the stack. *)

LEMMA PromptRuns ==
  ASSUME TypeInv, NEW s \in Seq(Frames), RunsRight(s, links), NEW l \in Links, Prompt(links, l),
         NEW k \in DOMAIN s, Runs(s, k, l)
  PROVE  ~s[k].expired
<1> SUFFICES ASSUME s[k].expired PROVE FALSE
  OBVIOUS
<1>1. s[k].who = l /\ s[k].call = "actions" /\ s[k] \in ActionsFrames
  BY FrameOf, FrameTypes DEF Runs
<1>2. links[l].acts[s[k].at].delay /\ s[k].at <= s[k].upto /\ s[k].upto <= Len(links[l].acts)
  BY <1>1 DEF RunsRight
<1>3. s[k].at \in DOMAIN links[l].acts
  <2>1. s[k].at \in 1..MaxActs /\ s[k].upto \in 1..MaxActs /\ MaxActs \in Nat
    BY <1>1, CompositionAssumption DEF ActionsFrames
  <2>2. DOMAIN links[l].acts = 1..Len(links[l].acts) /\ Len(links[l].acts) \in Nat
    BY LinkTypes
  <2>3. QED
    BY <1>2, <2>1, <2>2
<1>4. QED
  BY <1>2, <1>3 DEF Prompt

LEMMA ReturnedIs ==
  ASSUME TypeInv, RunsRight(stack, links), InCall("actions")
  PROVE  LET n == Len(stack)
             t == Returned IN
         /\ n \in Nat \ {0} /\ n \in DOMAIN stack /\ Top = stack[n] /\ Top.call = "actions"
         /\ \A k \in DOMAIN stack : k \in Nat /\ k <= n
         /\ DOMAIN t \subseteq DOMAIN stack
         /\ \A k \in DOMAIN stack : k # n => k \in DOMAIN t /\ t[k] = stack[k]
         /\ n \in DOMAIN t <=> Top.at # Top.upto
         /\ Top.at # Top.upto => /\ t[n].call = "actions" /\ t[n].who = Top.who /\ t[n].at = Top.at + 1
                                 /\ t[n].upto = Top.upto /\ t[n].expired = Top.expired
                                 /\ t[n].run = FALSE /\ Top.at + 1 <= Top.upto
<1> DEFINE n == Len(stack)
           t == Returned
<1>1. ~Free /\ stack \in Seq(Frames) /\ Top \in ActionsFrames /\ Top.at \in 1..Top.upto
  BY ActionsTop DEF TypeInv
<1>2. /\ n \in Nat \ {0} /\ n \in DOMAIN stack /\ Top = stack[n] /\ DOMAIN stack = 1..n
      /\ DOMAIN Below = 1..(n - 1) /\ \A k \in 1..(n - 1) : Below[k] = stack[k]
  BY <1>1, BelowTop
<1>3. /\ Top.call = "actions" /\ Top.at \in Nat /\ Top.upto \in Nat /\ Top.at <= Top.upto
  BY <1>1, CompositionAssumption DEF ActionsFrames
<1> DEFINE f == [Top EXCEPT !.at = @ + 1, !.run = FALSE]
<1>4. /\ f.call = "actions" /\ f.who = Top.who /\ f.at = Top.at + 1 /\ f.upto = Top.upto
      /\ f.expired = Top.expired /\ f.run = FALSE
      /\ Top.at # Top.upto => f \in Frames
  BY <1>1, ActionsTop DEF ActionsFrames, Frames
<1>5. /\ Top.at = Top.upto => t = Below
      /\ Top.at # Top.upto => t = Append(Below, f)
  BY DEF Returned
<1> HIDE DEF f
<1>6. Top.at # Top.upto => /\ DOMAIN t = 1..n /\ t[n] = f
                           /\ \A k \in 1..(n - 1) : t[k] = stack[k]
  BY <1>1, <1>4, <1>5, AppendBelow
<1> HIDE DEF n, t
<1>7. \A k \in DOMAIN stack : k \in Nat /\ k <= n
  BY <1>2
<1>8. CASE Top.at = Top.upto
  BY <1>2, <1>3, <1>5, <1>7, <1>8 DEF n, t
<1>9. CASE Top.at # Top.upto
  <2>1. DOMAIN t = DOMAIN stack /\ t[n] = f /\ \A k \in DOMAIN stack : k # n => t[k] = stack[k]
    BY <1>2, <1>6, <1>9
  <2>2. Top.at + 1 <= Top.upto
    BY <1>3, <1>9
  <2>3. QED
    BY <1>2, <1>3, <1>4, <1>7, <1>9, <2>1, <2>2 DEF n, t
<1>10. QED
  BY <1>8, <1>9

LEMMA ReturnedRuns ==
  ASSUME TypeInv, InCall("actions"), NEW p, NEW q, NEW y, NEW p2, NEW q2, NEW y2,
         LinksInv(stack, links, p, q, y), DelaysAreDue(links, y2),
         \A k \in Links : k # Top.who =>
            p2[k] = p[k] /\ q2[k] = q[k] /\ y2[<<k, 0>>] = y[<<k, 0>>],
         y[<<Top.who, 0>>] \in Nat, p[Top.who] \in Nat, q[Top.who].pendingActions \in Int,
         Prompt(links, Top.who) =>
            /\ y2[<<Top.who, 0>>] = y[<<Top.who, 0>>]
            /\ p2[Top.who] = p[Top.who] - (IF Top.at = Top.upto THEN 1 ELSE 0)
            /\ Len(links[Top.who].acts) > 1
                  => q2[Top.who].pendingActions = q[Top.who].pendingActions - 1
  PROVE  LinksInv(Returned, links, p2, q2, y2)
<1> DEFINE n == Len(stack)
           t == Returned
           s == stack
           l == Top.who
<1>1. /\ DueAreDue(s, links) /\ RunsRight(s, links) /\ RunsOnce(s)
      /\ PromptPending(s, links, p, y) /\ PromptCounts(s, links, q)
  BY DEF LinksInv
<1>2. /\ n \in Nat \ {0} /\ n \in DOMAIN s /\ Top = s[n] /\ Top.call = "actions"
      /\ \A k \in DOMAIN s : k \in Nat /\ k <= n
      /\ DOMAIN t \subseteq DOMAIN s
      /\ \A k \in DOMAIN s : k # n => k \in DOMAIN t /\ t[k] = s[k]
      /\ n \in DOMAIN t <=> Top.at # Top.upto
      /\ Top.at # Top.upto => /\ t[n].call = "actions" /\ t[n].who = l /\ t[n].at = Top.at + 1
                              /\ t[n].upto = Top.upto /\ t[n].expired = Top.expired
                              /\ t[n].run = FALSE /\ Top.at + 1 <= Top.upto
  BY <1>1, ReturnedIs
<1>3. /\ s \in Seq(Frames) /\ l \in Links /\ Top.at \in Nat /\ Top.upto \in Nat /\ Top \in ActionsFrames
  <2>1. s \in Seq(Frames)
    BY DEF TypeInv
  <2>2. l \in Links /\ Top \in ActionsFrames
    BY <1>1, ActionsTop
  <2>3. Top.at \in Nat /\ Top.upto \in Nat
    BY <2>2, CompositionAssumption DEF ActionsFrames
  <2>4. QED
    BY <2>1, <2>2, <2>3
<1> HIDE DEF n, t, s
<1>4. \A k \in DOMAIN s : s[k].call = "dispatch" => k # n
  BY <1>2
<1>5. DueAreDue(t, links)
  <2>1. \A k \in DOMAIN t : t[k].call = "dispatch" => k \in DOMAIN s /\ t[k] = s[k]
    BY <1>2
  <2>2. QED
    BY <1>1, <2>1 DEF DueAreDue
<1>6. RunsRight(t, links)
  <2> SUFFICES ASSUME NEW k \in DOMAIN t, t[k].call = "actions"
               PROVE  /\ t[k].at <= t[k].upto /\ t[k].upto <= Len(links[t[k].who].acts)
                      /\ t[k].expired => k = 1 /\ t[k].at = t[k].upto /\ links[t[k].who].acts[t[k].at].delay
                      /\ ~t[k].expired => t[k].upto = Len(links[t[k].who].acts)
                      /\ links[t[k].who].delay => k = 1
                      /\ ~links[t[k].who].delay /\ ~t[k].expired
                            => \E j \in DOMAIN t : j < k /\ Triggers(t, j, links, t[k].who)
    BY DEF RunsRight
  <2>1. k \in DOMAIN s /\ s[k].call = "actions" /\ s[k].who = t[k].who /\ s[k].upto = t[k].upto
        /\ s[k].expired = t[k].expired /\ k \in Nat /\ k <= n
    BY <1>2
  <2>2. /\ s[k].at <= s[k].upto /\ s[k].upto <= Len(links[s[k].who].acts)
        /\ s[k].expired => k = 1 /\ s[k].at = s[k].upto /\ links[s[k].who].acts[s[k].at].delay
        /\ ~s[k].expired => s[k].upto = Len(links[s[k].who].acts)
        /\ links[s[k].who].delay => k = 1
        /\ ~links[s[k].who].delay /\ ~s[k].expired
              => \E j \in DOMAIN s : j < k /\ Triggers(s, j, links, s[k].who)
    BY <1>1, <2>1 DEF RunsRight
  <2>3. ASSUME NEW j \in DOMAIN s, j < k, Triggers(s, j, links, s[k].who)
        PROVE  j \in DOMAIN t /\ Triggers(t, j, links, s[k].who)
    <3>1. j # n
      BY <1>4, <2>3 DEF Triggers, IsDispatch
    <3>2. j \in DOMAIN t /\ t[j] = s[j]
      BY <1>2, <3>1
    <3>3. QED
      BY <2>3, <3>2 DEF Triggers, IsDispatch
  <2>4. CASE k # n
    <3>1. t[k] = s[k]
      BY <1>2, <2>1, <2>4
    <3>2. QED
      BY <2>1, <2>2, <2>3, <3>1
  <2>5. CASE k = n
    <3>1. Top.at # Top.upto /\ s[k].at = Top.at /\ s[k].upto = Top.upto
      BY <1>2, <2>5
    <3>2. t[k].at <= t[k].upto /\ ~t[k].expired
      BY <1>2, <2>1, <2>2, <2>5, <3>1
    <3>3. QED
      BY <2>1, <2>2, <2>3, <3>2
  <2>6. QED
    BY <2>4, <2>5
<1>7. \A k \in DOMAIN t : t[k].call = "actions" =>
         /\ k \in DOMAIN s /\ s[k].call = "actions" /\ s[k].who = t[k].who
         /\ s[k].expired = t[k].expired /\ s[k].upto = t[k].upto
  BY <1>2
<1>8. RunsOnce(t)
  BY <1>1, <1>7 DEF RunsOnce
<1>9. ASSUME Prompt(links, l), NEW k \in DOMAIN s, Runs(s, k, l) PROVE k = n
  <2>1. ~s[k].expired
    BY <1>1, <1>3, <1>9, PromptRuns
  <2>2. Runs(s, n, l)
    BY <1>2 DEF Runs
  <2>3. ~s[n].expired
    BY <1>1, <1>2, <1>3, <1>9, <2>2, PromptRuns
  <2>4. QED
    BY <1>1, <1>2, <1>9, <2>1, <2>2, <2>3 DEF RunsOnce, Runs
<1>10. PromptPending(t, links, p2, y2)
  <2> SUFFICES ASSUME NEW k \in Links, Prompt(links, k)
               PROVE  p2[k] = y2[<<k, 0>>] + (IF IsRun(t, k) THEN 1 ELSE 0)
    BY DEF PromptPending
  <2>1. p[k] = y[<<k, 0>>] + (IF IsRun(s, k) THEN 1 ELSE 0)
    BY <1>1 DEF PromptPending
  <2>2. CASE k # l
    <3>1. \A j \in DOMAIN s : Runs(s, j, k) => j # n
      BY <1>2, <2>2 DEF Runs
    <3>2. IsRun(t, k) <=> IsRun(s, k)
      BY <1>2, <1>7, <2>2, <3>1 DEF IsRun, Runs
    <3>3. QED
      BY <2>1, <2>2, <3>2
  <2>3. CASE k = l
    <3>1. IsRun(s, l)
      BY <1>2 DEF IsRun, Runs
    <3>2. \A j \in DOMAIN t : Runs(t, j, l) => j = n
      BY <1>7, <1>9, <2>3 DEF Runs
    <3>3. IsRun(t, l) <=> Top.at # Top.upto
      BY <1>2, <3>2 DEF IsRun, Runs
    <3>4. QED
      BY <2>1, <2>3, <3>1, <3>3
  <2>4. QED
    BY <2>2, <2>3
<1>11. PromptCounts(t, links, q2)
  <2> SUFFICES ASSUME NEW k \in DOMAIN t, t[k].call = "actions", Prompt(links, t[k].who),
                      Len(links[t[k].who].acts) > 1
               PROVE  q2[t[k].who].pendingActions = t[k].upto - t[k].at + 1
    BY DEF PromptCounts
  <2>1. k \in DOMAIN s /\ s[k].call = "actions" /\ s[k].who = t[k].who /\ s[k].who \in Links
    BY <1>3, <1>7, FrameOf
  <2>2. q[s[k].who].pendingActions = s[k].upto - s[k].at + 1
    BY <1>1, <2>1 DEF PromptCounts
  <2>3. CASE k = n
    <3>1. Top.at # Top.upto /\ t[k].who = l /\ t[k].at = Top.at + 1 /\ t[k].upto = Top.upto
      BY <1>2, <2>3
    <3>2. q[l].pendingActions = Top.upto - Top.at + 1
      BY <1>2, <2>2, <2>3
    <3>3. q2[l].pendingActions = q[l].pendingActions - 1
      BY <3>1
    <3>4. QED
      BY <1>3, <3>1, <3>2, <3>3
  <2>4. CASE k # n
    <3>1. s[k].who # l
      BY <1>9, <2>1, <2>4 DEF Runs
    <3>2. t[k] = s[k]
      BY <1>2, <2>1, <2>4
    <3>3. QED
      BY <2>1, <2>2, <3>1, <3>2
  <2>5. QED
    BY <2>3, <2>4
<1>12. QED
  BY <1>5, <1>6, <1>8, <1>10, <1>11 DEF LinksInv, t

-----------------------------------------------------------------------------
(* The counts. *)

LEMMA CountedSteps ==
  ASSUME NEW b \in Int, NEW w \in Nat, NEW n \in Nat \ {0}, NEW a \in Int, Counted(b, w, n, a)
  PROVE  /\ Counted(b + 1, w + n, n, n)
         /\ w > 0 => /\ b >= 1
                     /\ n = 1 => Counted(b - 1, w - 1, n, a)
                     /\ n > 1 /\ a = 1 => Counted(b - 1, w - 1, n, a - 1)
                     /\ n > 1 /\ a # 1 => Counted(b, w - 1, n, a - 1)
BY DEF Counted

LEMMA CountedBut ==
  ASSUME NEW s, NEW t, NEW p, NEW p2, NEW q, NEW q2, NEW y, NEW y2, NEW l,
         ToDoCounted(s, links, p, q, y),
         \A k \in Links : k # l => /\ p2[k] = p[k] /\ q2[k] = q[k] /\ y2[<<k, 0>>] = y[<<k, 0>>]
                                   /\ ToDo(t, y2, k) = ToDo(s, y, k),
         Counted(Begins(p2, y2, l), ToDo(t, y2, l), Len(links[l].acts), q2[l].pendingActions)
  PROVE  ToDoCounted(t, links, p2, q2, y2)
<1> SUFFICES ASSUME NEW k \in Links, k # l
             PROVE  Counted(Begins(p2, y2, k), ToDo(t, y2, k), Len(links[k].acts), q2[k].pendingActions)
  BY DEF ToDoCounted
<1>1. Begins(p2, y2, k) = Begins(p, y, k)
  BY DEF Begins
<1>2. Counted(Begins(p, y, k), ToDo(s, y, k), Len(links[k].acts), q[k].pendingActions)
  BY DEF ToDoCounted
<1>3. QED
  BY <1>1, <1>2

LEMMA CountTypes ==
  ASSUME TypeInv, NEW l \in Links
  PROVE  /\ composite.pending[l] \in Nat /\ \A i \in 0..MaxActs : delayed[<<l, i>>] \in Nat
         /\ delayed[<<l, 0>>] \in Nat /\ delayed[<<l, 0>>] \in 0..MaxDelayed
         /\ Begins(composite.pending, delayed, l) \in Int
         /\ compound[l].pendingActions \in Int
         /\ ToDo(stack, delayed, l) \in Nat
         /\ Len(links[l].acts) \in Nat \ {0} /\ Len(links[l].acts) \in 1..MaxActs
         /\ MaxActs \in Nat /\ MaxDelayed \in Nat /\ 1 \in 1..MaxActs /\ 0 \in 0..MaxActs
<1>1. composite.pending[l] \in Nat /\ compound[l].pendingActions \in Int
  BY DEF TypeInv, CompositeType
<1>2. MaxActs \in Nat /\ MaxDelayed \in Nat /\ 0 \in 0..MaxActs
  BY CompositionAssumption
<1>3. \A i \in 0..MaxActs : delayed[<<l, i>>] \in 0..MaxDelayed
  BY LinkStepTypes
<1>4. ToDo(stack, delayed, l) \in Nat
  BY TokensFinite DEF TypeInv
<1>5. Len(links[l].acts) \in 1..MaxActs
  BY LinkTypes
<1>6. QED
  BY <1>1, <1>2, <1>3, <1>4, <1>5 DEF Begins

DelayedBut(z, l, i, v) == z = [delayed EXCEPT ![<<l, i>>] = v]

LEMMA DelayedAt ==
  ASSUME TypeInv, NEW l \in Links, NEW i \in 0..MaxActs, NEW v, NEW z, DelayedBut(z, l, i, v)
  PROVE  /\ z[<<l, i>>] = v
         /\ \A k \in Links, j \in 0..MaxActs : k # l \/ j # i => z[<<k, j>>] = delayed[<<k, j>>]
<1> DEFINE T == Links \X (0..MaxActs)
           e == <<l, i>>
<1>1. e \in T /\ (\A k \in Links, j \in 0..MaxActs : <<k, j>> \in T)
      /\ \A k \in Links, j \in 0..MaxActs : k # l \/ j # i => <<k, j>> # e
  OBVIOUS
<1>2. delayed \in [T -> 0..MaxDelayed] /\ z = [delayed EXCEPT ![e] = v]
  BY DEF TypeInv, DelayedBut
<1> HIDE DEF T, e
<1>3. z[e] = v /\ \A x \in T : x # e => z[x] = delayed[x]
  BY <1>1, <1>2
<1>4. QED
  BY <1>1, <1>3 DEF e

\* A run of all the actions of l begins, on the stack s.
LEMMA BeginCounts ==
  ASSUME TypeInv, NEW l \in Links, NEW s \in Seq(Frames), NEW p2, NEW y2,
         ToDoCounted(stack, links, composite.pending, compound, delayed),
         \A k : Called(s, k) = Called(stack, k),
         OneBegins(composite.pending, delayed, p2, y2, l),
         \A k \in Links, i \in 1..MaxActs : y2[<<k, i>>] = delayed[<<k, i>>]
  PROVE  ToDoCounted(s \o <<Actions(l, 1, Len(links[l].acts), FALSE)>>, links, p2,
                     [compound EXCEPT ![l] = Begun(l)], y2)
<1> DEFINE n == Len(links[l].acts)
           t == s \o <<Actions(l, 1, n, FALSE)>>
           q2 == [compound EXCEPT ![l] = Begun(l)]
           b == Begins(composite.pending, delayed, l)
           w == ToDo(stack, delayed, l)
<1>1. /\ n \in Nat \ {0} /\ n \in 1..MaxActs /\ 1 \in 1..MaxActs /\ b \in Int /\ w \in Nat
      /\ compound[l].pendingActions \in Int
  BY CountTypes
<1>2. /\ \A k : k # l => Called(t, k) = Called(s, k)
      /\ Cardinality(Called(t, l)) = Cardinality(Called(s, l)) + n - 1 + 1
  <2>1. n \in 1..MaxActs /\ 1 \in 1..MaxActs
    BY <1>1
  <2> HIDE DEF n
  <2>2. FALSE \in BOOLEAN
    OBVIOUS
  <2>3. QED
    BY <2>1, <2>2, PushRunTokens
<1>3. \A k \in Links : Waiting(y2, k) = Waiting(delayed, k)
  BY DEF Waiting
<1>4. ASSUME NEW k \in Links, k # l PROVE ToDo(t, y2, k) = ToDo(stack, delayed, k)
  BY <1>2, <1>3, <1>4 DEF ToDo
<1>5. ToDo(t, y2, l) = w + n
  <2>1. /\ Cardinality(Waiting(delayed, l)) \in Nat /\ Cardinality(Called(stack, l)) \in Nat
        /\ Cardinality(Called(t, l)) = Cardinality(Called(stack, l)) + n - 1 + 1
        /\ Waiting(y2, l) = Waiting(delayed, l)
    BY <1>2, <1>3, TokensFinite DEF TypeInv
  <2> DEFINE u == Cardinality(Waiting(delayed, l))
             v == Cardinality(Called(stack, l))
  <2>2. ToDo(t, y2, l) = u + Cardinality(Called(t, l)) /\ w = u + v
    BY <2>1 DEF ToDo
  <2> HIDE DEF u, v, w, n, t
  <2>3. QED
    BY <1>1, <2>1, <2>2 DEF u, v
<1>6. Begins(p2, y2, l) = b + 1
  BY DEF Begins, OneBegins
<1>7. q2[l].pendingActions = n /\ \A k \in Links : k # l => q2[k] = compound[k]
  BY DEF Begun, TypeInv
<1>8. Counted(b, w, n, compound[l].pendingActions)
  BY DEF ToDoCounted
<1> HIDE DEF n, t, q2, b, w
<1>9. Counted(b + 1, w + n, n, n)
  BY <1>1, <1>8, CountedSteps
<1>10. Counted(Begins(p2, y2, l), ToDo(t, y2, l), Len(links[l].acts), q2[l].pendingActions)
  BY <1>5, <1>6, <1>7, <1>9 DEF n
<1>11. ToDoCounted(t, links, p2, q2, y2)
  BY <1>4, <1>7, <1>10, CountedBut DEF OneBegins
<1>12. QED
  BY <1>11 DEF t, n, q2

-----------------------------------------------------------------------------
(* The invariant of the links and the counts, step by step. *)

LEMMA QuietLinks ==
  ASSUME TypeInv, TypeInv', KeepsRuns(stack, stack'), DueAreDue(stack', links),
         UNCHANGED <<links, compound, delayed>>, composite'.pending = composite.pending,
         LinksInv(stack, links, composite.pending, compound, delayed),
         ToDoCounted(stack, links, composite.pending, compound, delayed)
  PROVE  /\ LinksInv(stack', links', composite'.pending, compound', delayed')
         /\ ToDoCounted(stack', links', composite'.pending, compound', delayed')
<1>1. DOMAIN stack \subseteq Nat /\ DOMAIN stack' \subseteq Nat
  BY LenProperties DEF TypeInv
<1>2. /\ LinksInv(stack', links, composite.pending, compound, delayed)
      /\ \A l : Called(stack, l) = Called(stack', l)
  BY <1>1, SameRuns
<1>3. \A l : ToDo(stack', delayed, l) = ToDo(stack, delayed, l)
  BY <1>2 DEF ToDo
<1>4. ToDoCounted(stack', links, composite.pending, compound, delayed)
  BY <1>3 DEF ToDoCounted
<1>5. QED
  BY <1>2, <1>4

LEMMA TellLinkLinks ==
  ASSUME TypeInv, ObjectsInv(stack, child, composite), TellLink,
         LinksInv(stack, links, composite.pending, compound, delayed),
         ToDoCounted(stack, links, composite.pending, compound, delayed)
  PROVE  /\ LinksInv(stack', links', composite'.pending, compound', delayed')
         /\ ToDoCounted(stack', links', composite'.pending, compound', delayed')
<1>1. InCall("dispatch") /\ ~Free /\ Top.call = "dispatch" /\ links' = links
  BY DEF TellLink, InCall
<1>2. PICK l \in Top.due :
        LET rest == Append(Below, [Top EXCEPT !.due = @ \ {l}]) IN
        /\ composite' = LinkEvaluationStarted(composite, l)
        /\ \/ /\ links[l].delay /\ delayed[<<l, 0>>] < MaxDelayed
              /\ delayed' = [delayed EXCEPT ![<<l, 0>>] = @ + 1]
              /\ stack' = rest /\ compound' = compound
           \/ /\ ~links[l].delay
              /\ stack' = rest \o <<Actions(l, 1, Len(links[l].acts), FALSE)>>
              /\ compound' = [compound EXCEPT ![l] = Begun(l)] /\ delayed' = delayed
  BY DEF TellLink, Push
<1> DEFINE f == [Top EXCEPT !.due = @ \ {l}]
           s == Append(Below, f)
           n == Len(stack)
           p == composite.pending
           p2 == composite'.pending
<1>3. /\ Top \in DispatchFrames /\ l \in Links /\ f \in Frames /\ s \in Seq(Frames)
      /\ Actions(l, 1, Len(links[l].acts), FALSE) \in Frames
  BY <1>1, TellLinkTypes DEF Frames
<1>4. f.call = "dispatch" /\ f.who = Top.who /\ f.what = Top.what /\ f.due = Top.due \ {l}
  BY <1>3 DEF DispatchFrames
<1>5. stack \in Seq(Frames) /\ DueAreDue(stack, links) /\ TellsOnce(stack)
  BY DEF TypeInv, LinksInv, ObjectsInv
<1>6. /\ n \in Nat \ {0} /\ DOMAIN stack = 1..n /\ Top = stack[n]
      /\ DOMAIN s = 1..n /\ s[n] = f /\ \A k \in 1..(n - 1) : s[k] = stack[k]
  BY <1>1, <1>3, <1>5, BelowTop, AppendBelow
<1> HIDE DEF f
<1>7. KeepsRuns(stack, s) /\ DueAreDue(s, links)
  BY <1>1, <1>3, <1>4, <1>5, ReplaceRuns
<1> HIDE DEF s, n
<1>8. /\ LinksInv(s, links, p, compound, delayed)
      /\ \A k : Called(s, k) = Called(stack, k)
  <2>1. DOMAIN stack \subseteq Nat /\ DOMAIN s \subseteq Nat
    BY <1>6
  <2>2. QED
    BY <1>7, <2>1, SameRuns
<1>9. /\ p2[l] = p[l] + 1 /\ \A k \in Links : k # l => p2[k] = p[k]
  <2>1. composite \in CompositeType /\ p \in [Links -> Nat]
    BY DEF TypeInv, CompositeType
  <2>2. p2 = [p EXCEPT ![l] = @ + 1]
    BY <1>2, <2>1 DEF LinkEvaluationStarted, CompositeType
  <2>3. QED
    BY <1>3, <2>1, <2>2
<1>10. p[l] \in Nat /\ delayed[<<l, 0>>] \in Nat /\ 0 \in 0..MaxActs
       /\ \A i \in 1..MaxActs : i # 0 /\ i \in 0..MaxActs
  BY <1>3, CountTypes
<1> HIDE DEF p2
<1>11. CASE links[l].delay
  <2> DEFINE y == delayed
             y2 == delayed'
  <2>1. y2 = [delayed EXCEPT ![<<l, 0>>] = @ + 1] /\ stack' = s /\ compound' = compound
    BY <1>2, <1>11 DEF s, f
  <2>2. /\ y2[<<l, 0>>] = y[<<l, 0>>] + 1
        /\ \A k \in Links, j \in 0..MaxActs : k # l \/ j # 0 => y2[<<k, j>>] = y[<<k, j>>]
    <3>1. 0 \in 0..MaxActs /\ l \in Links
      BY <1>3, <1>10
    <3>2. DelayedBut(y2, l, 0, delayed[<<l, 0>>] + 1)
      BY <2>1 DEF DelayedBut
    <3> HIDE DEF y2
    <3>3. QED
      BY <3>1, <3>2, DelayedAt
  <2> HIDE DEF y2
  <2>3. /\ \A k \in Links : k # l => y2[<<k, 0>>] = y[<<k, 0>>]
        /\ \A k \in Links : \A i \in 1..MaxActs : y2[<<k, i>>] = y[<<k, i>>]
    BY <1>10, <2>2
  <2>4. DelaysAreDue(links, y2)
    <3>1. DelaysAreDue(links, y)
      BY DEF LinksInv
    <3>2. QED
      BY <1>11, <2>3, <3>1 DEF DelaysAreDue
  <2>5. PromptPending(s, links, p2, y2)
    <3>1. PromptPending(s, links, p, y)
      BY <1>8 DEF LinksInv
    <3> SUFFICES ASSUME NEW k \in Links, Prompt(links, k)
                 PROVE  p2[k] = y2[<<k, 0>>] + (IF IsRun(s, k) THEN 1 ELSE 0)
      BY DEF PromptPending
    <3>2. p[k] = y[<<k, 0>>] + (IF IsRun(s, k) THEN 1 ELSE 0)
      BY <3>1 DEF PromptPending
    <3>3. CASE k = l
      BY <1>9, <1>10, <2>2, <3>2, <3>3
    <3>4. CASE k # l
      BY <1>9, <2>3, <3>2, <3>4
    <3>5. QED
      BY <3>3, <3>4
  <2>6. LinksInv(s, links, p2, compound, y2)
    BY <1>8, <2>4, <2>5 DEF LinksInv
  <2>7. \A k \in Links : ToDo(s, y2, k) = ToDo(stack, y, k)
    BY <1>8, <2>3 DEF ToDo, Waiting
  <2>8. \A k \in Links : Begins(p2, y2, k) = Begins(p, y, k)
    <3>1. \A k \in Links : k # l => Begins(p2, y2, k) = Begins(p, y, k)
      BY <1>9, <2>3 DEF Begins
    <3>2. Begins(p2, y2, l) = Begins(p, y, l)
      BY <1>9, <1>10, <2>2 DEF Begins
    <3>3. QED
      BY <3>1, <3>2
  <2>9. ToDoCounted(s, links, p2, compound, y2)
    BY <2>7, <2>8 DEF ToDoCounted
  <2>10. QED
    BY <1>1, <2>1, <2>6, <2>9 DEF p2, y2
<1>12. CASE ~links[l].delay
  <2> DEFINE t == s \o <<Actions(l, 1, Len(links[l].acts), FALSE)>>
             q2 == [compound EXCEPT ![l] = Begun(l)]
  <2>1. stack' = t /\ compound' = q2 /\ delayed' = delayed
    BY <1>2, <1>12 DEF s, f
  <2>2. links[l].on = Top.who /\ links[l].tr = Top.what
    BY <1>1, <1>5, <1>6 DEF DueAreDue
  <2>3. Triggers(s, n, links, l) /\ n \in DOMAIN s
    BY <1>4, <1>6, <2>2 DEF Triggers, IsDispatch
  <2>4. ASSUME NEW k \in DOMAIN s, Runs(s, k, l), ~s[k].expired PROVE FALSE
    <3>1. RunsRight(s, links)
      BY <1>8 DEF LinksInv
    <3>2. PICK j \in DOMAIN s : j < k /\ Triggers(s, j, links, l)
      BY <1>12, <2>4, <3>1 DEF RunsRight, Runs
    <3>3. j \in 1..(n - 1)
      BY <1>6, <3>2
    <3>4. stack[j].call = "dispatch" /\ stack[j].who = stack[n].who /\ j \in DOMAIN stack /\ n \in DOMAIN stack
      BY <1>6, <2>2, <3>2, <3>3 DEF Triggers, IsDispatch
    <3>5. j = n
      BY <1>1, <1>5, <1>6, <3>4 DEF TellsOnce
    <3>6. QED
      BY <1>6, <3>3, <3>5
  <2>5. /\ DelaysAreDue(links, delayed)
        /\ compound \in [Links -> [pendingActions : Int, hasStart : BOOLEAN]]
    BY DEF LinksInv, TypeInv
  <2>6. OneBegins(p, delayed, p2, delayed, l)
    BY <1>9, <1>10 DEF OneBegins
  <2>7. LinksInv(t, links, p2, q2, delayed)
    BY <1>3, <1>8, <1>12, <2>3, <2>4, <2>5, <2>6, PushRun
  <2>8. ToDoCounted(t, links, p2, q2, delayed)
    BY <1>3, <1>8, <2>6, BeginCounts
  <2>9. QED
    BY <1>1, <2>1, <2>7, <2>8 DEF p2
<1>13. QED
  BY <1>11, <1>12

LEMMA ConditionExpiresLinks ==
  ASSUME TypeInv, NEW l \in Links, DelayExpires(l, 0),
         LinksInv(stack, links, composite.pending, compound, delayed),
         ToDoCounted(stack, links, composite.pending, compound, delayed)
  PROVE  /\ LinksInv(stack', links', composite'.pending, compound', delayed')
         /\ ToDoCounted(stack', links', composite'.pending, compound', delayed')
<1> DEFINE y2 == delayed'
           q2 == [compound EXCEPT ![l] = Begun(l)]
           f == Actions(l, 1, Len(links[l].acts), FALSE)
           p == composite.pending
           p2 == composite'.pending
<1>1. /\ stack = <<>> /\ delayed[<<l, 0>>] > 0 /\ y2 = [delayed EXCEPT ![<<l, 0>>] = delayed[<<l, 0>>] - 1]
      /\ stack' = <<f>> /\ compound' = q2 /\ links' = links /\ composite' = composite
  BY DEF DelayExpires, Free
<1>2. /\ p[l] \in Nat /\ delayed[<<l, 0>>] \in Nat /\ 0 \in 0..MaxActs
      /\ \A i \in 1..MaxActs : i # 0 /\ i \in 0..MaxActs
  BY CountTypes
<1> HIDE DEF y2
<1>3. /\ y2[<<l, 0>>] = delayed[<<l, 0>>] - 1
      /\ \A k \in Links, j \in 0..MaxActs : k # l \/ j # 0 => y2[<<k, j>>] = delayed[<<k, j>>]
  <2>1. 0 \in 0..MaxActs
    BY <1>2
  <2>2. DelayedBut(y2, l, 0, delayed[<<l, 0>>] - 1)
    BY <1>1 DEF DelayedBut
  <2>3. QED
    BY <2>1, <2>2, DelayedAt
<1>4. /\ OneBegins(p, delayed, p2, y2, l)
      /\ \A k \in Links : k # l => y2[<<k, 0>>] = delayed[<<k, 0>>]
      /\ \A k \in Links, i \in 1..MaxActs : y2[<<k, i>>] = delayed[<<k, i>>]
  BY <1>1, <1>2, <1>3 DEF OneBegins
<1> HIDE DEF p2
<1>5. DelaysAreDue(links, delayed)
  BY DEF LinksInv
<1>6. DelaysAreDue(links, y2) /\ links[l].delay
  <2>1. links[l].delay
    BY <1>1, <1>5 DEF DelaysAreDue
  <2>2. QED
    BY <1>4, <1>5, <2>1 DEF DelaysAreDue
<1>7. stack \in Seq(Frames) /\ compound \in [Links -> [pendingActions : Int, hasStart : BOOLEAN]]
  BY DEF TypeInv
<1>8. \A k \in DOMAIN stack : Runs(stack, k, l) => stack[k].expired
  BY <1>1
<1>9. f \in Frames
  BY CountTypes, ActionsType
<1>10. stack \o <<f>> = <<f>>
  BY <1>1, <1>9
<1>11. LinksInv(stack \o <<f>>, links, p2, q2, y2)
  <2>1. links[l].delay => stack = <<>>
    BY <1>1
  <2>2. ~links[l].delay => \E j \in DOMAIN stack : Triggers(stack, j, links, l)
    BY <1>6
  <2>3. QED
    BY <1>4, <1>6, <1>7, <1>8, <2>1, <2>2, PushRun
<1>12. ToDoCounted(stack \o <<f>>, links, p2, q2, y2)
  BY <1>4, <1>7, BeginCounts
<1> HIDE DEF f, q2
<1>13. QED
  BY <1>1, <1>10, <1>11, <1>12 DEF y2, p2

LEMMA ActionExpiresLinks ==
  ASSUME TypeInv, NEW l \in Links, NEW i \in 1..MaxActs, DelayExpires(l, i),
         LinksInv(stack, links, composite.pending, compound, delayed),
         ToDoCounted(stack, links, composite.pending, compound, delayed)
  PROVE  /\ LinksInv(stack', links', composite'.pending, compound', delayed')
         /\ ToDoCounted(stack', links', composite'.pending, compound', delayed')
<1> DEFINE y2 == delayed'
           f == Actions(l, i, i, TRUE)
           t == <<f>>
           p == composite.pending
<1>1. MaxActs \in Nat /\ i # 0 /\ i \in 0..MaxActs /\ 0 \in 0..MaxActs /\ TRUE \in BOOLEAN
      /\ i \in i..MaxActs
  BY CompositionAssumption
<1>2. /\ stack = <<>> /\ delayed[<<l, i>>] > 0 /\ y2 = [delayed EXCEPT ![<<l, i>>] = delayed[<<l, i>>] - 1]
      /\ stack' = t /\ compound' = compound /\ links' = links /\ composite' = composite
  BY <1>1 DEF DelayExpires, Free
<1> HIDE DEF y2
<1>3. /\ y2[<<l, i>>] = delayed[<<l, i>>] - 1
      /\ \A k \in Links, j \in 0..MaxActs : k # l \/ j # i => y2[<<k, j>>] = delayed[<<k, j>>]
  <2>1. i \in 0..MaxActs
    BY <1>1
  <2>2. DelayedBut(y2, l, i, delayed[<<l, i>>] - 1)
    BY <1>2 DEF DelayedBut
  <2>3. QED
    BY <2>1, <2>2, DelayedAt
<1>4. /\ delayed \in [Links \X (0..MaxActs) -> 0..MaxDelayed]
      /\ y2 \in [Links \X (0..MaxActs) -> 0..MaxDelayed]
      /\ delayed[<<l, i>>] \in Nat
  <2>1. delayed \in [Links \X (0..MaxActs) -> 0..MaxDelayed]
    BY DEF TypeInv
  <2>2. [delayed EXCEPT ![<<l, i>>] = @ - 1] \in [Links \X (0..MaxActs) -> 0..MaxDelayed]
    BY <1>1, <1>2, LinkStepTypes
  <2>3. delayed[<<l, i>>] \in Nat
    BY <1>1, CountTypes
  <2>4. QED
    BY <1>2, <2>1, <2>2, <2>3
<1>5. OneMore(y2, delayed, l, i)
  BY <1>3, <1>4 DEF OneMore
<1>6. /\ \A k \in Links : k # l => Waiting(delayed, k) = Waiting(y2, k)
      /\ Cardinality(Waiting(delayed, l)) = Cardinality(Waiting(y2, l)) + 1
      /\ \A k \in Links : delayed[<<k, 0>>] = y2[<<k, 0>>]
  BY <1>5, TimerTokens
<1>7. f \in Frames
  BY <1>1, ActionsType
<1>8. stack \in Seq(Frames) /\ stack \o <<f>> = t
  BY <1>2, <1>7
<1>9. /\ \A k : k # l => Called(t, k) = Called(stack, k)
      /\ Cardinality(Called(t, l)) = Cardinality(Called(stack, l)) + 1
  <2>1. /\ \A k : k # l => Called(stack \o <<f>>, k) = Called(stack, k)
        /\ Cardinality(Called(stack \o <<f>>, l)) = Cardinality(Called(stack, l)) + i - i + 1
    BY <1>1, <1>8, PushRunTokens
  <2>2. Cardinality(Called(stack, l)) \in Nat
    BY <1>8, TokensFinite
  <2> HIDE DEF f, t
  <2>3. \A u \in Nat : u + i - i + 1 = u + 1
    BY <1>1
  <2>4. QED
    BY <1>8, <2>1, <2>2, <2>3
<1>10. \A k \in Links : ToDo(t, y2, k) = ToDo(stack, delayed, k)
  <2>1. Cardinality(Called(stack, l)) \in Nat /\ Cardinality(Waiting(y2, l)) \in Nat
    BY <1>8, TokensFinite
  <2> HIDE DEF f, t
  <2>2. ToDo(t, y2, l) = ToDo(stack, delayed, l)
    BY <1>6, <1>9, <2>1 DEF ToDo
  <2>3. ASSUME NEW k \in Links, k # l PROVE ToDo(t, y2, k) = ToDo(stack, delayed, k)
    BY <1>6, <1>9, <2>3 DEF ToDo
  <2>4. QED
    BY <2>2, <2>3
<1>11. ToDoCounted(t, links, p, compound, y2)
  <2> HIDE DEF f, t
  <2>1. \A k \in Links : Begins(p, y2, k) = Begins(p, delayed, k)
    BY <1>6 DEF Begins
  <2>2. QED
    BY <1>10, <2>1 DEF ToDoCounted
<1>12. DelaysAreDue(links, delayed) /\ PromptPending(stack, links, p, delayed)
  BY DEF LinksInv
<1>13. /\ i <= Len(links[l].acts) /\ links[l].acts[i].delay /\ ~Prompt(links, l)
  <2>1. i <= Len(links[l].acts) /\ links[l].acts[i].delay
    BY <1>2, <1>12 DEF DelaysAreDue
  <2>2. i \in DOMAIN links[l].acts
    <3>1. DOMAIN links[l].acts = 1..Len(links[l].acts) /\ Len(links[l].acts) \in Nat
      BY LinkTypes
    <3>2. QED
      BY <1>1, <2>1, <3>1
  <2>3. QED
    BY <2>1, <2>2 DEF Prompt
<1>14. DelaysAreDue(links, y2)
  <2>1. \A k \in Links : \A j \in 1..MaxActs : j \in 0..MaxActs
    BY <1>1
  <2>2. \A k \in Links : \A j \in 1..MaxActs : k # l \/ j # i => y2[<<k, j>>] = delayed[<<k, j>>]
    BY <1>3, <2>1
  <2>3. QED
    BY <1>6, <1>12, <1>13, <2>2 DEF DelaysAreDue
<1>15. DOMAIN t = {1} /\ t[1] = f
  BY <1>7, OneFrame
<1>16. f.call = "actions" /\ f.who = l /\ f.at = i /\ f.upto = i /\ f.expired
  BY DEF Actions
<1> HIDE DEF f, t
<1>17. DueAreDue(t, links) /\ RunsOnce(t)
  BY <1>15, <1>16 DEF DueAreDue, RunsOnce
<1>18. RunsRight(t, links)
  BY <1>1, <1>13, <1>15, <1>16 DEF RunsRight
<1>19. PromptPending(t, links, p, y2)
  <2>1. \A k : k # l => ~IsRun(t, k) /\ ~IsRun(stack, k)
    BY <1>2, <1>15, <1>16 DEF IsRun, Runs
  <2>2. QED
    BY <1>6, <1>12, <1>13, <2>1 DEF PromptPending
<1>20. PromptCounts(t, links, compound)
  BY <1>13, <1>15, <1>16 DEF PromptCounts
<1>21. LinksInv(t, links, p, compound, y2)
  BY <1>14, <1>17, <1>18, <1>19, <1>20 DEF LinksInv
<1>22. QED
  BY <1>2, <1>11, <1>21 DEF y2, t

LEMMA DelayLinkActionLinks ==
  ASSUME TypeInv, DelayLinkAction,
         LinksInv(stack, links, composite.pending, compound, delayed),
         ToDoCounted(stack, links, composite.pending, compound, delayed)
  PROVE  /\ LinksInv(stack', links', composite'.pending, compound', delayed')
         /\ ToDoCounted(stack', links', composite'.pending, compound', delayed')
<1> DEFINE l == Top.who
           i == Top.at
           y2 == delayed'
           t == Returned
           p == composite.pending
<1>1. /\ InCall("actions") /\ stack' = t /\ links' = links /\ composite' = composite /\ compound' = compound
      /\ links[l].acts[i].delay /\ delayed[<<l, i>>] < MaxDelayed
      /\ y2 = [delayed EXCEPT ![<<l, i>>] = delayed[<<l, i>>] + 1]
  BY DEF DelayLinkAction
<1>2. RunsRight(stack, links) /\ DelaysAreDue(links, delayed)
  BY DEF LinksInv
<1>3. l \in Links /\ i \in 1..Len(links[l].acts) /\ Len(links[l].acts) \in 1..MaxActs /\ MaxActs \in Nat
  <2>1. l \in Links /\ i \in 1..Top.upto /\ Top.upto \in 1..Len(links[l].acts)
    BY <1>1, <1>2, ActionsTop
  <2>2. Len(links[l].acts) \in 1..MaxActs /\ MaxActs \in Nat
    BY <2>1, LinkTypes
  <2> HIDE DEF l, i
  <2>3. QED
    BY <2>1, <2>2
<1> HIDE DEF l, i, y2, t
<1>4. i \in 1..MaxActs /\ i \in 0..MaxActs /\ i # 0 /\ 0 \in 0..MaxActs
  BY <1>3
<1>5. /\ y2[<<l, i>>] = delayed[<<l, i>>] + 1
      /\ \A k \in Links, j \in 0..MaxActs : k # l \/ j # i => y2[<<k, j>>] = delayed[<<k, j>>]
  <2>1. DelayedBut(y2, l, i, delayed[<<l, i>>] + 1)
    BY <1>1 DEF DelayedBut
  <2>2. l \in Links /\ i \in 0..MaxActs
    BY <1>3, <1>4
  <2>3. QED
    BY <2>1, <2>2, DelayedAt
<1>6. OneMore(delayed, y2, l, i)
  <2>1. delayed \in [Links \X (0..MaxActs) -> 0..MaxDelayed]
    BY DEF TypeInv
  <2>2. [delayed EXCEPT ![<<l, i>>] = @ + 1] \in [Links \X (0..MaxActs) -> 0..MaxDelayed]
    BY <1>1, <1>3, <1>4, LinkStepTypes
  <2>3. QED
    BY <1>1, <1>5, <2>1, <2>2 DEF OneMore
<1>7. /\ \A k \in Links : k # l => Waiting(y2, k) = Waiting(delayed, k)
      /\ Cardinality(Waiting(y2, l)) = Cardinality(Waiting(delayed, l)) + 1
      /\ \A k \in Links : y2[<<k, 0>>] = delayed[<<k, 0>>]
  BY <1>3, <1>4, <1>6, TimerTokens
<1>8. /\ \A k : k # l => Called(t, k) = Called(stack, k)
      /\ Cardinality(Called(t, l)) = Cardinality(Called(stack, l)) - 1
  BY <1>1, <1>2, ReturnedTokens DEF l, t
<1>9. \A k \in Links : ToDo(t, y2, k) = ToDo(stack, delayed, k)
  <2>1. Cardinality(Called(stack, l)) \in Nat /\ Cardinality(Waiting(delayed, l)) \in Nat
    BY TokensFinite DEF TypeInv
  <2>2. ToDo(t, y2, l) = ToDo(stack, delayed, l)
    BY <1>7, <1>8, <2>1 DEF ToDo
  <2>3. ASSUME NEW k \in Links, k # l PROVE ToDo(t, y2, k) = ToDo(stack, delayed, k)
    BY <1>7, <1>8, <2>3 DEF ToDo
  <2>4. QED
    BY <2>2, <2>3
<1>10. ToDoCounted(t, links, p, compound, y2)
  <2>1. \A k \in Links : Begins(p, y2, k) = Begins(p, delayed, k)
    BY <1>7 DEF Begins
  <2>2. QED
    BY <1>9, <2>1 DEF ToDoCounted
<1>11. DelaysAreDue(links, y2)
  <2>1. \A k \in Links : \A j \in 1..MaxActs : j \in 0..MaxActs
    BY <1>3
  <2>2. \A k \in Links : \A j \in 1..MaxActs : k # l \/ j # i => y2[<<k, j>>] = delayed[<<k, j>>]
    BY <1>5, <2>1
  <2>3. i <= Len(links[l].acts) /\ links[l].acts[i].delay
    BY <1>1, <1>3
  <2>4. QED
    BY <1>2, <1>7, <2>2, <2>3 DEF DelaysAreDue
<1>12. ~Prompt(links, l)
  <2>1. i \in DOMAIN links[l].acts
    BY <1>3, LinkTypes
  <2>2. QED
    BY <1>1, <2>1 DEF Prompt
<1>13. LinksInv(t, links, p, compound, y2)
  <2>1. p[l] \in Nat /\ delayed[<<l, 0>>] \in Nat /\ compound[l].pendingActions \in Int
    BY <1>3, CountTypes
  <2>2. \A k \in Links : k # Top.who => y2[<<k, 0>>] = delayed[<<k, 0>>]
    BY <1>7
  <2>3. ~Prompt(links, Top.who) /\ p[Top.who] \in Nat /\ delayed[<<Top.who, 0>>] \in Nat
        /\ compound[Top.who].pendingActions \in Int
    BY <1>12, <2>1 DEF l
  <2>4. QED
    BY <1>1, <1>11, <2>2, <2>3, ReturnedRuns DEF t
<1>14. QED
  BY <1>1, <1>10, <1>13 DEF y2, t

LEMMA ActionProcessedLinks ==
  ASSUME TypeInv, WholeCovers(composite), ActionProcessed,
         LinksInv(stack, links, composite.pending, compound, delayed),
         ToDoCounted(stack, links, composite.pending, compound, delayed)
  PROVE  /\ LinksInv(stack', links', composite'.pending, compound', delayed')
         /\ ToDoCounted(stack', links', composite'.pending, compound', delayed')
         /\ composite.pending[Top.who] > 0
         /\ \A k \in Links : k # Top.who => compound'[k] = compound[k]
<1> DEFINE l == Top.who
           t == Returned
           p == composite.pending
           p2 == composite'.pending
           n == Len(links[l].acts)
           a == compound[l].pendingActions
           b == Begins(p, delayed, l)
           w == ToDo(stack, delayed, l)
           start == links[l].acts[Top.at].what = "start"
<1>1. InCall("actions") /\ stack' = t /\ links' = links /\ delayed' = delayed
  BY DEF ActionProcessed
<1>2. RunsRight(stack, links) /\ DelaysAreDue(links, delayed) /\ PromptCounts(stack, links, compound)
  BY DEF LinksInv
<1>3. /\ l \in Links /\ Top.at \in 1..Top.upto /\ Top.upto \in 1..n /\ n \in Nat
      /\ Top.call = "actions" /\ ~Free
  BY <1>1, <1>2, ActionsTop DEF InCall
<1>4. /\ p[l] \in Nat /\ delayed[<<l, 0>>] \in Nat /\ b \in Int /\ a \in Int /\ w \in Nat
      /\ n \in Nat \ {0}
  BY <1>3, CountTypes
<1>5. Counted(b, w, n, a)
  BY <1>3 DEF ToDoCounted
<1>6. /\ \A k : k # l => Called(t, k) = Called(stack, k)
      /\ Cardinality(Called(t, l)) = Cardinality(Called(stack, l)) - 1
      /\ Cardinality(Called(stack, l)) \in Nat \ {0}
  BY <1>1, <1>2, ReturnedTokens
<1>7. /\ ToDo(t, delayed, l) = w - 1 /\ w > 0
      /\ \A k \in Links : k # l => ToDo(t, delayed, k) = ToDo(stack, delayed, k)
  <2>1. Cardinality(Waiting(delayed, l)) \in Nat
    BY TokensFinite DEF TypeInv
  <2> HIDE DEF t, l
  <2>2. QED
    BY <1>6, <2>1 DEF ToDo
<1>8. /\ b >= 1
      /\ n = 1 => Counted(b - 1, w - 1, n, a)
      /\ n > 1 /\ a = 1 => Counted(b - 1, w - 1, n, a - 1)
      /\ n > 1 /\ a # 1 => Counted(b, w - 1, n, a - 1)
  <2> HIDE DEF b, w, n, a
  <2>1. QED
    BY <1>4, <1>5, <1>7, CountedSteps
<1>9. p[l] > 0
  BY <1>4, <1>8 DEF Begins
<1>10. /\ p2[l] = p[l] - (IF n = 1 \/ a = 1 THEN 1 ELSE 0)
       /\ \A k \in Links : k # l => p2[k] = p[k] /\ compound'[k] = compound[k]
       /\ n = 1 => compound'[l].pendingActions = a
       /\ n # 1 => compound'[l].pendingActions = a - 1
  <2> DEFINE d == [pendingActions |-> a - 1, hasStart |-> compound[l].hasStart \/ start]
  <2>1. /\ n = 1 => compound' = compound
                    /\ composite' = LinkEvaluationFinished(composite, l, start)
        /\ n # 1 => compound' = [compound EXCEPT ![l] = d]
        /\ n # 1 /\ a # 1 => composite' = composite
        /\ n # 1 /\ a = 1
               => composite' = LinkEvaluationFinished(composite, l, d.hasStart)
    BY <1>2, ProcessedEffect
  <2>2. composite \in CompositeType /\ l \in Links /\ start \in BOOLEAN /\ d.hasStart \in BOOLEAN
        /\ compound \in [Links -> [pendingActions : Int, hasStart : BOOLEAN]]
    BY <1>3 DEF TypeInv
  <2>3. d.pendingActions = a - 1
    OBVIOUS
  <2> HIDE DEF d, start, n, a, l
  <2>4. \A st \in BOOLEAN : LET e == LinkEvaluationFinished(composite, l, st) IN
          /\ \A k \in Links : k # l => e.pending[k] = p[k]
          /\ e.pending[l] = p[l] - 1
    BY <1>9, <2>2, FinishedEffect
  <2>5. CASE n = 1
    BY <1>4, <2>1, <2>2, <2>4, <2>5 DEF a
  <2>6. CASE n # 1 /\ a = 1
    BY <1>4, <2>1, <2>2, <2>3, <2>4, <2>6
  <2>7. CASE n # 1 /\ a # 1
    BY <1>4, <2>1, <2>2, <2>3, <2>7
  <2>8. QED
    BY <2>5, <2>6, <2>7
<1> HIDE DEF t, p2
<1>11. ToDoCounted(t, links, p2, compound', delayed)
  <2>1. Begins(p2, delayed, l) = IF n = 1 \/ a = 1 THEN b - 1 ELSE b
    BY <1>4, <1>10 DEF Begins
  <2>2. Counted(Begins(p2, delayed, l), ToDo(t, delayed, l), n, compound'[l].pendingActions)
    <3> HIDE DEF b, w, n, a, l
    <3>1. n = 1 \/ n > 1
      BY <1>4
    <3>2. CASE n = 1
      BY <1>7, <1>8, <1>10, <2>1, <3>2
    <3>3. CASE n > 1 /\ a = 1
      BY <1>4, <1>7, <1>8, <1>10, <2>1, <3>3
    <3>4. CASE n > 1 /\ a # 1
      BY <1>4, <1>7, <1>8, <1>10, <2>1, <3>4
    <3>5. QED
      BY <3>1, <3>2, <3>3, <3>4
  <2>3. \A k \in Links : k # l => /\ p2[k] = p[k] /\ compound'[k] = compound[k]
                                  /\ delayed[<<k, 0>>] = delayed[<<k, 0>>]
                                  /\ ToDo(t, delayed, k) = ToDo(stack, delayed, k)
    BY <1>7, <1>10
  <2>4. QED
    BY <2>2, <2>3, CountedBut
<1>12. ASSUME Prompt(links, l)
       PROVE  /\ p2[l] = p[l] - (IF Top.at = Top.upto THEN 1 ELSE 0)
              /\ n > 1 => compound'[l].pendingActions = a - 1
  <2>1. Len(stack) \in DOMAIN stack /\ Top = stack[Len(stack)]
    BY <1>3, BelowTop DEF TypeInv
  <2>2. n > 1 => a = Top.upto - Top.at + 1
    BY <1>2, <1>3, <1>12, <2>1 DEF PromptCounts
  <2>3. CASE n = 1
    BY <1>3, <1>4, <1>10, <2>3
  <2>4. CASE n # 1
    <3> HIDE DEF n, a, l
    <3>1. n > 1
      BY <1>4, <2>4
    <3>2. a = 1 <=> Top.at = Top.upto
      BY <1>3, <1>4, <2>2, <3>1
    <3>3. QED
      BY <1>4, <1>10, <2>4, <3>1, <3>2
  <2>5. QED
    BY <2>3, <2>4
<1>13. LinksInv(t, links, p2, compound', delayed)
  <2>1. \A k \in Links : k # Top.who =>
           p2[k] = p[k] /\ compound'[k] = compound[k] /\ delayed[<<k, 0>>] = delayed[<<k, 0>>]
    BY <1>10
  <2>2. Prompt(links, Top.who) =>
           /\ delayed[<<Top.who, 0>>] = delayed[<<Top.who, 0>>]
           /\ p2[Top.who] = p[Top.who] - (IF Top.at = Top.upto THEN 1 ELSE 0)
           /\ Len(links[Top.who].acts) > 1
                 => compound'[Top.who].pendingActions = compound[Top.who].pendingActions - 1
    BY <1>12
  <2>3. delayed[<<Top.who, 0>>] \in Nat /\ p[Top.who] \in Nat /\ compound[Top.who].pendingActions \in Int
    BY <1>4
  <2>4. QED
    BY <1>1, <1>2, <2>1, <2>2, <2>3, ReturnedRuns DEF t
<1>14. QED
  BY <1>1, <1>9, <1>10, <1>11, <1>13 DEF p2, t

LEMMA LinksStep ==
  ASSUME TypeInv, ObjectsInv(stack, child, composite), [Next]_vars,
         LinksInv(stack, links, composite.pending, compound, delayed),
         ToDoCounted(stack, links, composite.pending, compound, delayed)
  PROVE  /\ LinksInv(stack', links', composite'.pending, compound', delayed')
         /\ ToDoCounted(stack', links', composite'.pending, compound', delayed')
<1> DEFINE quiet == \/ \E act \in Acts : Outside(act)
                    \/ \E m \in Media : NaturalEnd(m)
                    \/ AfterDispatch \/ TellComposite \/ RunLinkAction \/ RunCompose
                    \/ UNCHANGED vars
<1>1. DueAreDue(stack, links) /\ RunsRight(stack, links) /\ WholeCovers(composite)
  BY DEF LinksInv, ObjectsInv
<1>2. TypeInv'
  BY <1>1, TypeStep
<1>3. CASE quiet
  <2>1. /\ KeepsRuns(stack, stack') /\ DueAreDue(stack', links)
        /\ UNCHANGED <<links, compound, delayed>> /\ composite'.pending = composite.pending
    BY <1>1, <1>3, QuietRuns
  <2>2. QED
    BY <1>2, <2>1, QuietLinks
<1>4. CASE TellLink
  BY <1>4, TellLinkLinks
<1>5. ASSUME NEW l \in Links, NEW i \in 0..MaxActs, DelayExpires(l, i)
      PROVE  /\ LinksInv(stack', links', composite'.pending, compound', delayed')
             /\ ToDoCounted(stack', links', composite'.pending, compound', delayed')
  <2>1. i = 0 \/ i \in 1..MaxActs
    BY CompositionAssumption
  <2>2. QED
    BY <1>5, <2>1, ConditionExpiresLinks, ActionExpiresLinks
<1>6. CASE DelayLinkAction
  BY <1>6, DelayLinkActionLinks
<1>7. CASE ActionProcessed
  BY <1>1, <1>7, ActionProcessedLinks
<1>8. QED
  BY <1>3, <1>4, <1>5, <1>6, <1>7 DEF Next

-----------------------------------------------------------------------------
(* The invariant of the actions that start an object. *)

\* Every action that has started an object is still below the start that is told.
StartsTold(s, ls) == \A k \in DOMAIN s : HasStarted(s, k, ls) =>
    k + 1 \in DOMAIN s /\ s[k + 1].call = "dispatch" /\ s[k + 1].what = "start"

LEMMA AllStartsTold ==
  ASSUME NEW s, NEW ls, StartsTold(s, ls)
  PROVE  StartsAbove(s, ls) /\ \A c, f : TopStarted(s, ls, c, f)
BY DEF StartsTold, StartsAbove, TopStarted

LEMMA PushNotStarted ==
  ASSUME NEW s \in Seq(Frames), NEW f \in Frames, StartsTold(s, links),
         f.call = "actions" => ~f.run
  PROVE  StartsTold(s \o <<f>>, links) /\ HeldBy(s, s \o <<f>>)
<1> DEFINE t == s \o <<f>>
           n == Len(s)
<1>1. /\ n \in Nat /\ DOMAIN s = 1..n /\ DOMAIN t = 1..(n + 1) /\ t[n + 1] = f
      /\ \A k \in 1..n : t[k] = s[k]
  BY PushOne, LenProperties
<1> HIDE DEF t, n
<1>2. /\ DOMAIN s \subseteq DOMAIN t /\ \A k \in DOMAIN s : t[k] = s[k]
      /\ \A k \in DOMAIN t : k \in DOMAIN s \/ t[k] = f
  BY <1>1
<1>3. \A k \in DOMAIN t : HasStarted(t, k, links) => k \in DOMAIN s /\ HasStarted(s, k, links)
  BY <1>2 DEF HasStarted
<1>4. StartsTold(t, links)
  BY <1>2, <1>3 DEF StartsTold
<1>5. HeldBy(s, t)
  BY <1>2 DEF HeldBy
<1>6. QED
  BY <1>4, <1>5 DEF t

\* What is left when the frame on the top returns or is replaced, if no start is told by it.
LEMMA RestStarts ==
  ASSUME stack \in Seq(Frames), ~Free, StartsAbove(stack, links), Top.call # "dispatch"
  PROVE  /\ StartsTold(Below, links)
         /\ \A f \in Frames : (f.call = "actions" => ~f.run)
               => StartsTold(Append(Below, f), links)
<1> DEFINE n == Len(stack)
<1>1. /\ n \in Nat \ {0} /\ DOMAIN stack = 1..n /\ Top = stack[n] /\ DOMAIN Below = 1..(n - 1)
      /\ \A k \in 1..(n - 1) : Below[k] = stack[k]
      /\ Below \in Seq(Frames)
  BY BelowTop
<1> HIDE DEF n
<1>2. StartsTold(Below, links)
  <2> SUFFICES ASSUME NEW k \in DOMAIN Below, HasStarted(Below, k, links)
               PROVE  k + 1 \in DOMAIN Below /\ Below[k + 1].call = "dispatch" /\ Below[k + 1].what = "start"
    BY DEF StartsTold
  <2>1. k \in DOMAIN stack /\ k + 1 \in DOMAIN stack /\ HasStarted(stack, k, links)
    BY <1>1 DEF HasStarted
  <2>2. stack[k + 1].call = "dispatch" /\ stack[k + 1].what = "start"
    BY <2>1 DEF StartsAbove
  <2>3. k + 1 # n
    BY <1>1, <2>2
  <2>4. QED
    BY <1>1, <2>1, <2>2, <2>3
<1>3. \A f : Append(Below, f) = Below \o <<f>>
  BY <1>1
<1>4. QED
  BY <1>1, <1>2, <1>3, PushNotStarted

LEMMA RunMediaStarts ==
  ASSUME TypeInv, ObjectsInv(stack, child, composite), NEW act \in Acts, NEW m \in Media,
         NEW rest \in Seq(Frames), StartsTold(rest, links), RunMedia(act, m, rest),
         StartsAbove(stack, links), TopStarted(stack, links, composite, failed)
  PROVE  StartsAbove(stack', links) /\ TopStarted(stack', links, composite, failed')
<1>1. Effect(act, m, rest)
  BY RunMediaEffect
<1>2. CASE stack' = rest
  BY <1>2, AllStartsTold
<1>3. CASE stack' = stack /\ failed' = failed
  BY <1>3
<1>4. CASE stack' = rest \o <<Dispatch(m, act)>>
  <2>1. StartsTold(rest \o <<Dispatch(m, act)>>, links)
    BY DispatchType, PushNotStarted
  <2>2. QED
    BY <1>4, <2>1, AllStartsTold
<1>5. CASE act # "start" /\ stack' = rest \o (<<After(act, m)>> \o <<Dispatch(m, act)>>)
  <2> DEFINE g == After(act, m)
             f == Dispatch(m, act)
  <2>1. g \in Frames /\ g.call = "after"
    BY <1>5, AfterType DEF After
  <2>2. f \in Frames /\ f.call = "dispatch"
    BY DispatchType
  <2> HIDE DEF f, g
  <2>3. rest \o (<<g>> \o <<f>>) = (rest \o <<g>>) \o <<f>>
    <3>1. <<g>> \in Seq(Frames) /\ <<f>> \in Seq(Frames)
      BY <2>1, <2>2
    <3>2. QED
      BY <3>1, ConcatAssociative
  <2>4. rest \o <<g>> \in Seq(Frames) /\ StartsTold(rest \o <<g>>, links)
    BY <2>1, PushOne, PushNotStarted
  <2>5. StartsTold((rest \o <<g>>) \o <<f>>, links)
    BY <2>2, <2>4, PushNotStarted
  <2>6. StartsTold(stack', links)
    BY <1>5, <2>3, <2>5 DEF f, g
  <2>7. QED
    BY <2>6, AllStartsTold
<1>6. QED
  BY <1>1, <1>2, <1>3, <1>4, <1>5 DEF Effect

\* An object that there is nothing to start any more has been started, or is about to be.
LEMMA PreparedIsActive ==
  ASSUME TypeInv, ObjectsInv(stack, child, composite), NEW m \in Media, NoEffect("start", m)
  PROVE  StartTold(stack) \/ ~NoneActive(composite)
<1>1. child[m].st # "SLEEPING" /\ child[m].st \in MediaStates
  BY DEF NoEffect, HasPrepared, Asleep, TypeInv, ChildType
<1>2. CASE ~Told(stack, m)
  BY <1>1, <1>2 DEF ObjectsInv, UntoldAgree, MediaStates, NoneActive
<1>3. CASE Told(stack, m)
  <2>1. PICK k \in DOMAIN stack : stack[k].call = "dispatch" /\ stack[k].who = m
    BY <1>3 DEF Told, IsDispatch
  <2>2. /\ stack[k].prev \in From[stack[k].what]
        /\ child[m].st = To[stack[k].what]
        /\ m \in composite.running <=> stack[k].prev = "OCCURRING"
        /\ m \in composite.paused <=> stack[k].prev = "PAUSED"
    BY <2>1 DEF ObjectsInv, TellsRight
  <2>3. stack[k].what \in Acts
    BY <2>1, FrameOf, FrameTypes DEF TypeInv, DispatchFrames
  <2>4. CASE stack[k].what = "start"
    BY <2>1, <2>4 DEF StartTold
  <2>5. CASE stack[k].what # "start"
    BY <2>2, <2>3, <2>5 DEF Acts, From, NoneActive
  <2>6. QED
    BY <2>4, <2>5
<1>4. QED
  BY <1>2, <1>3

LEMMA StartToldKept ==
  ASSUME NEW s, NEW t, HeldBy(s, t), StartTold(s)
  PROVE  StartTold(t)
BY DEF HeldBy, StartTold

LEMMA RunLinkActionStarts ==
  ASSUME TypeInv, ObjectsInv(stack, child, composite), RunsRight(stack, links), RunLinkAction,
         StartsAbove(stack, links), TopStarted(stack, links, composite, failed)
  PROVE  StartsAbove(stack', links) /\ TopStarted(stack', links, composite, failed')
<1> DEFINE l == Top.who
           act == links[l].acts[Top.at].what
           m == links[l].acts[Top.at].who
           f == [Top EXCEPT !.run = TRUE]
           rest == Append(Below, f)
           n == Len(stack)
<1>1. InCall("actions") /\ RunMedia(act, m, rest) /\ ~Free /\ Top.call = "actions"
  BY DEF RunLinkAction, InCall
<1>2. act \in Acts /\ m \in Media /\ rest \in Seq(Frames) /\ f \in ActionsFrames /\ f \in Frames
      /\ Top \in ActionsFrames
  BY <1>1, ActionsTop DEF Frames
<1>3. f.call = "actions" /\ f.who = l /\ f.at = Top.at
  BY <1>2 DEF ActionsFrames
<1> HIDE DEF f
<1>4. /\ n \in Nat \ {0} /\ DOMAIN rest = 1..n /\ rest[n] = f /\ Len(rest) = n
      /\ DOMAIN Below = 1..(n - 1)
      /\ \A k \in 1..(n - 1) : rest[k] = Below[k]
  <2>1. /\ n \in Nat \ {0} /\ DOMAIN Below = 1..(n - 1)
        /\ \A k \in 1..(n - 1) : Below[k] = stack[k]
    BY <1>1, BelowTop DEF TypeInv
  <2>2. /\ DOMAIN rest = 1..n /\ rest[n] = f /\ Len(rest) = n
        /\ \A k \in 1..(n - 1) : rest[k] = stack[k]
    BY <1>1, <1>2, AppendBelow DEF TypeInv
  <2> HIDE DEF rest, n
  <2>3. QED
    BY <2>1, <2>2
<1>5. StartsTold(Below, links)
  BY <1>1, RestStarts DEF TypeInv
<1>6. HeldBy(stack, rest)
  BY <1>1, RestHeld DEF f
<1>7. Effect(act, m, rest)
  BY <1>1, <1>2, RunMediaEffect
<1>8. HasStarted(rest, n, links) <=> (act = "start" /\ f.run)
  BY <1>3, <1>4 DEF HasStarted, Starts
<1> HIDE DEF rest, n, l, act, m
<1>9. \A k \in DOMAIN rest : k # n /\ HasStarted(rest, k, links) =>
          k + 1 \in DOMAIN rest /\ k + 1 # n /\ rest[k + 1].call = "dispatch" /\ rest[k + 1].what = "start"
  <2> SUFFICES ASSUME NEW k \in DOMAIN rest, k # n, HasStarted(rest, k, links)
               PROVE  k + 1 \in DOMAIN rest /\ k + 1 # n /\ rest[k + 1].call = "dispatch" /\ rest[k + 1].what = "start"
    OBVIOUS
  <2>1. k \in DOMAIN Below /\ HasStarted(Below, k, links)
    BY <1>4 DEF HasStarted
  <2>2. k + 1 \in DOMAIN Below /\ Below[k + 1].call = "dispatch" /\ Below[k + 1].what = "start"
    BY <1>5, <2>1 DEF StartsTold
  <2>3. QED
    BY <1>4, <2>2
<1>10. CASE act # "start"
  <2>1. StartsTold(rest, links)
    BY <1>8, <1>9, <1>10 DEF StartsTold
  <2>2. QED
    BY <1>1, <1>2, <2>1, RunMediaStarts
<1>11. CASE act = "start"
  <2>1. n + 1 \notin DOMAIN rest
    BY <1>4
  <2>2. StartsAbove(rest, links)
    BY <1>9, <2>1 DEF StartsAbove
  <2>3. CASE stack' = rest /\ NoEffect(act, m)
    <3>1. StartTold(stack) \/ ~NoneActive(composite)
      BY <1>2, <1>11, <2>3, PreparedIsActive
    <3>2. StartTold(rest) \/ ~NoneActive(composite)
      BY <1>6, <3>1, StartToldKept
    <3>3. QED
      BY <2>2, <2>3, <3>2 DEF TopStarted
  <2>4. CASE stack' = stack /\ failed' = failed
    BY <2>4
  <2>5. CASE stack' = rest /\ failed' = TRUE
    BY <2>2, <2>5 DEF TopStarted
  <2>6. CASE stack' = rest \o <<Dispatch(m, act)>>
    <3> DEFINE g == Dispatch(m, act)
               t == rest \o <<g>>
    <3>1. g \in Frames /\ g.call = "dispatch" /\ g.what = "start"
      BY <1>2, <1>11, DispatchType
    <3> HIDE DEF g
    <3>2. DOMAIN t = 1..(n + 1) /\ t[n + 1] = g /\ \A k \in 1..n : t[k] = rest[k]
      BY <1>2, <1>4, <3>1, PushOne
    <3> HIDE DEF t
    <3>3. StartsTold(t, links)
      <4> SUFFICES ASSUME NEW k \in DOMAIN t, HasStarted(t, k, links)
                   PROVE  k + 1 \in DOMAIN t /\ t[k + 1].call = "dispatch" /\ t[k + 1].what = "start"
        BY DEF StartsTold
      <4>1. k # n + 1
        BY <3>1, <3>2 DEF HasStarted
      <4>2. k \in DOMAIN rest /\ HasStarted(rest, k, links)
        BY <1>4, <3>2, <4>1 DEF HasStarted
      <4>3. CASE k = n
        BY <1>4, <3>1, <3>2, <4>3
      <4>4. CASE k # n
        BY <1>4, <1>9, <3>2, <4>2, <4>4
      <4>5. QED
        BY <4>3, <4>4
    <3>4. QED
      BY <2>6, <3>3, AllStartsTold DEF t, g
  <2>7. QED
    BY <1>7, <1>11, <2>3, <2>4, <2>5, <2>6 DEF Effect
<1>12. QED
  BY <1>10, <1>11

LEMMA EmptyStarts == StartsTold(<<>>, links)
BY DEF StartsTold, HasStarted

LEMMA TellCompositeStarts ==
  ASSUME TypeInv, ObjectsInv(stack, child, composite), StartsAbove(stack, links), TellComposite
  PROVE  StartsAbove(stack', links) /\ TopStarted(stack', links, composite', failed')
<1> DEFINE n == Len(stack)
<1>1. InCall("dispatch") /\ ~Free /\ Top.call = "dispatch" /\ stack' = Below
  BY DEF TellComposite, InCall
<1>2. /\ n \in Nat \ {0} /\ DOMAIN stack = 1..n /\ Top = stack[n] /\ DOMAIN Below = 1..(n - 1)
      /\ \A k \in 1..(n - 1) : Below[k] = stack[k]
  BY <1>1, BelowTop DEF TypeInv
<1>3. /\ Top.who \in Media
      /\ composite'.running = Moved(composite.running, Top.who, Settled[Top.what] = "OCCURRING")
  BY TellCompositeEffect
<1> HIDE DEF n
<1>4. \A k \in DOMAIN Below : HasStarted(Below, k, links) =>
         k + 1 \in DOMAIN stack /\ stack[k + 1].call = "dispatch" /\ stack[k + 1].what = "start"
  BY <1>2 DEF StartsAbove, HasStarted
<1>5. StartsAbove(Below, links)
  BY <1>2, <1>4 DEF StartsAbove
<1>6. TopStarted(Below, links, composite', failed')
  <2> SUFFICES ASSUME NEW k \in DOMAIN Below, HasStarted(Below, k, links), k + 1 \notin DOMAIN Below
               PROVE  ~NoneActive(composite')
    BY DEF TopStarted
  <2>1. k + 1 = n
    BY <1>2
  <2>2. Top.what = "start"
    BY <1>2, <1>4, <2>1
  <2>3. Top.who \in composite'.running
    BY <1>3, <2>2 DEF Settled, Moved
  <2>4. QED
    BY <2>3 DEF NoneActive
<1>7. QED
  BY <1>1, <1>5, <1>6

LEMMA TellLinkStarts ==
  ASSUME TypeInv, StartsAbove(stack, links), TellLink
  PROVE  StartsTold(stack', links)
<1>1. InCall("dispatch") /\ ~Free /\ Top.call = "dispatch"
  BY DEF TellLink, InCall
<1>2. PICK l \in Top.due :
        LET rest == Append(Below, [Top EXCEPT !.due = @ \ {l}]) IN
        \/ stack' = rest
        \/ stack' = rest \o <<Actions(l, 1, Len(links[l].acts), FALSE)>>
  BY DEF TellLink, Push
<1> DEFINE f == [Top EXCEPT !.due = @ \ {l}]
           s == Append(Below, f)
           g == Actions(l, 1, Len(links[l].acts), FALSE)
           n == Len(stack)
<1>3. f \in DispatchFrames /\ f \in Frames /\ s \in Seq(Frames) /\ g \in Frames /\ Top \in DispatchFrames
  BY <1>1, TellLinkTypes DEF Frames
<1>4. f.call = "dispatch" /\ f.what = Top.what
  BY <1>3 DEF DispatchFrames
<1> HIDE DEF f
<1>5. /\ n \in Nat \ {0} /\ DOMAIN stack = 1..n /\ Top = stack[n]
      /\ DOMAIN s = 1..n /\ s[n] = f /\ \A k \in 1..(n - 1) : s[k] = stack[k]
  BY <1>1, <1>3, BelowTop, AppendBelow DEF TypeInv
<1>6. g.call = "actions" => ~g.run
  BY DEF Actions
<1> HIDE DEF s, n, g
<1>7. StartsTold(s, links)
  <2> SUFFICES ASSUME NEW k \in DOMAIN s, HasStarted(s, k, links)
               PROVE  k + 1 \in DOMAIN s /\ s[k + 1].call = "dispatch" /\ s[k + 1].what = "start"
    BY DEF StartsTold
  <2>1. k # n
    BY <1>4, <1>5 DEF HasStarted
  <2>2. k \in DOMAIN stack /\ k + 1 \in DOMAIN stack /\ HasStarted(stack, k, links)
    BY <1>5, <2>1 DEF HasStarted
  <2>3. stack[k + 1].call = "dispatch" /\ stack[k + 1].what = "start"
    BY <2>2 DEF StartsAbove
  <2>4. CASE k + 1 = n
    BY <1>4, <1>5, <2>3, <2>4
  <2>5. CASE k + 1 # n
    BY <1>5, <2>2, <2>3, <2>5
  <2>6. QED
    BY <2>4, <2>5
<1>8. StartsTold(s \o <<g>>, links)
  BY <1>3, <1>6, <1>7, PushNotStarted
<1>9. QED
  BY <1>2, <1>7, <1>8 DEF s, f, g

LEMMA ReturnedStarts ==
  ASSUME TypeInv, RunsRight(stack, links), InCall("actions"), StartsAbove(stack, links)
  PROVE  StartsTold(Returned, links)
<1> DEFINE f == [Top EXCEPT !.at = @ + 1, !.run = FALSE]
<1>1. ~Free /\ Top \in ActionsFrames /\ Top.call = "actions"
      /\ (Top.at # Top.upto => f \in ActionsFrames) /\ stack \in Seq(Frames)
  BY ActionsTop DEF InCall, TypeInv
<1>2. ~f.run
  BY <1>1 DEF ActionsFrames
<1>3. Returned = IF Top.at = Top.upto THEN Below ELSE Append(Below, f)
  BY DEF Returned
<1>4. Top.at # Top.upto => f \in Frames
  BY <1>1 DEF Frames
<1> HIDE DEF f
<1>5. StartsTold(Below, links) /\ (f \in Frames => StartsTold(Append(Below, f), links))
  BY <1>1, <1>2, RestStarts
<1>6. QED
  BY <1>3, <1>4, <1>5

LEMMA RunComposeStarts ==
  ASSUME TypeInv, ObjectsInv(stack, child, composite), RunCompose,
         StartsAbove(stack, links), TopStarted(stack, links, composite, failed)
  PROVE  StartsAbove(stack', links) /\ TopStarted(stack', links, composite, failed')
<1> DEFINE f == [Top EXCEPT !.todo = Tail(@)]
           rest == IF Len(Top.todo) = 1 THEN Below ELSE Append(Below, f)
<1>1. ~Free /\ Top.call = "compose" /\ RunMedia(Top.what, Head(Top.todo), rest)
  BY DEF RunCompose, InCall
<1>2. /\ Top.what \in Acts /\ Head(Top.todo) \in Media /\ rest \in Seq(Frames)
      /\ Len(Top.todo) # 1 => f \in ComposeFrames
  BY <1>1, ComposeTop
<1>3. Len(Top.todo) # 1 => f \in Frames /\ f.call # "actions"
  BY <1>2 DEF Frames, ComposeFrames
<1>4. StartsTold(rest, links)
  <2>1. StartsTold(Below, links) /\ (f \in Frames /\ f.call # "actions" => StartsTold(Append(Below, f), links))
    BY <1>1, RestStarts DEF TypeInv
  <2> HIDE DEF f
  <2>2. QED
    BY <1>3, <2>1
<1> HIDE DEF rest
<1>5. QED
  BY <1>1, <1>2, <1>4, RunMediaStarts

LEMMA StartsStep ==
  ASSUME TypeInv, ObjectsInv(stack, child, composite), RunsRight(stack, links), [Next]_vars,
         StartsInv(stack, links, composite, compound, failed)
  PROVE  StartsInv(stack', links', composite', compound', failed')
<1>1. StartsAbove(stack, links) /\ TopStarted(stack, links, composite, failed) /\ HasStartTrue(links, compound)
  BY DEF StartsInv
<1>2. links' = links
  BY DEF Next, Outside, NaturalEnd, DelayExpires, AfterDispatch, TellLink, TellComposite,
         DelayLinkAction, RunLinkAction, ActionProcessed, RunCompose, vars
<1>3. StartsAbove(stack', links) /\ TopStarted(stack', links, composite', failed')
  <2>1. CASE UNCHANGED vars
    <3>1. stack' = stack /\ composite' = composite /\ failed' = failed
      BY <2>1 DEF vars
    <3>2. QED
      BY <1>1, <3>1
  <2>2. ASSUME NEW act \in Acts, Outside(act) PROVE StartsTold(stack', links)
    <3> DEFINE todo == IF act = "start" THEN Ports ELSE Order
    <3>1. stack' = <<Compose(act, todo)>>
      BY <2>2 DEF Outside
    <3>2. todo \in Seq(Media) \ {<<>>}
      BY CompositionAssumption
    <3> HIDE DEF todo
    <3>3. Compose(act, todo) \in Frames /\ Compose(act, todo).call = "compose"
      BY <2>2, <3>2 DEF Compose, Frames, ComposeFrames
    <3>4. <<>> \in Seq(Frames) /\ <<>> \o <<Compose(act, todo)>> = stack'
      BY <3>1, <3>3
    <3>5. QED
      BY <3>3, <3>4, EmptyStarts, PushNotStarted
  <2>3. ASSUME NEW m \in Media, NaturalEnd(m)
        PROVE  StartsAbove(stack', links) /\ TopStarted(stack', links, composite', failed')
    <3>1. RunMedia("stop", m, <<>>) /\ composite' = composite
      BY <2>3 DEF NaturalEnd
    <3>2. "stop" \in Acts /\ <<>> \in Seq(Frames)
      BY DEF Acts
    <3>3. QED
      BY <1>1, <3>1, <3>2, EmptyStarts, RunMediaStarts
  <2>4. ASSUME NEW l \in Links, NEW i \in 0..MaxActs, DelayExpires(l, i) PROVE StartsTold(stack', links)
    <3>1. \E a \in 1..MaxActs : \E b \in 1..MaxActs : \E x \in BOOLEAN : stack' = <<Actions(l, a, b, x)>>
      <4>1. Len(links[l].acts) \in 1..MaxActs /\ 1 \in 1..MaxActs /\ MaxActs \in Nat
        BY CountTypes
      <4>2. CASE i = 0
        <5>1. stack' = <<Actions(l, 1, Len(links[l].acts), FALSE)>> /\ FALSE \in BOOLEAN
          BY <2>4, <4>2 DEF DelayExpires
        <5>2. QED
          BY <4>1, <5>1
      <4>3. CASE i # 0
        <5>1. stack' = <<Actions(l, i, i, TRUE)>> /\ TRUE \in BOOLEAN
          BY <2>4, <4>3 DEF DelayExpires
        <5>2. i \in 1..MaxActs
          BY <4>1, <4>3
        <5>3. QED
          BY <5>1, <5>2
      <4>4. QED
        BY <4>2, <4>3
    <3>2. PICK a \in 1..MaxActs, b \in 1..MaxActs, x \in BOOLEAN : stack' = <<Actions(l, a, b, x)>>
      BY <3>1
    <3> DEFINE g == Actions(l, a, b, x)
    <3>3. g \in Frames /\ ~g.run
      BY ActionsType DEF Actions
    <3> HIDE DEF g
    <3>4. <<>> \in Seq(Frames) /\ <<>> \o <<g>> = <<g>>
      BY <3>3
    <3>5. StartsTold(<<>> \o <<g>>, links)
      BY <3>3, <3>4, EmptyStarts, PushNotStarted
    <3>6. QED
      BY <3>2, <3>4, <3>5 DEF g
  <2>5. CASE AfterDispatch
    <3>1. ~Free /\ Top.call = "after" /\ stack' = Below
      BY <2>5 DEF AfterDispatch, InCall
    <3>2. QED
      BY <1>1, <3>1, RestStarts, AllStartsTold DEF TypeInv
  <2>6. CASE TellLink
    BY <1>1, <2>6, TellLinkStarts, AllStartsTold
  <2>7. CASE TellComposite
    BY <1>1, <2>7, TellCompositeStarts
  <2>8. CASE DelayLinkAction \/ ActionProcessed
    <3>1. InCall("actions") /\ stack' = Returned
      BY <2>8 DEF DelayLinkAction, ActionProcessed
    <3>2. QED
      BY <1>1, <3>1, ReturnedStarts, AllStartsTold
  <2>9. CASE RunLinkAction
    <3>1. composite' = composite
      BY <2>9 DEF RunLinkAction
    <3>2. QED
      BY <1>1, <2>9, <3>1, RunLinkActionStarts
  <2>10. CASE RunCompose
    <3>1. composite' = composite
      BY <2>10 DEF RunCompose
    <3>2. QED
      BY <1>1, <2>10, <3>1, RunComposeStarts
  <2>11. QED
    BY <2>1, <2>2, <2>3, <2>4, <2>5, <2>6, <2>7, <2>8, <2>9, <2>10, AllStartsTold DEF Next
<1>4. HasStartTrue(links, compound')
  <2>1. compound \in [Links -> [pendingActions : Int, hasStart : BOOLEAN]]
    BY DEF TypeInv
  <2>2. CASE ActionProcessed
    <3> DEFINE l == Top.who
               start == links[l].acts[Top.at].what = "start"
               d == [pendingActions |-> compound[l].pendingActions - 1,
                     hasStart |-> compound[l].hasStart \/ start]
    <3>1. l \in Links /\ (compound' = compound \/ compound' = [compound EXCEPT ![l] = d])
      BY <2>2, ProcessedEffect DEF ObjectsInv
    <3>2. Top.at \in DOMAIN links[l].acts
      <4>1. InCall("actions")
        BY <2>2 DEF ActionProcessed
      <4>2. Top.at \in 1..Top.upto /\ Top.upto \in 1..Len(links[l].acts) /\ Len(links[l].acts) \in Nat
        BY <4>1, ActionsTop
      <4>3. DOMAIN links[l].acts = 1..Len(links[l].acts)
        BY <3>1, LinkTypes
      <4> HIDE DEF l
      <4>4. QED
        BY <4>2, <4>3
    <3>3. d.hasStart => \E i \in DOMAIN links[l].acts : Starts(links, l, i)
      BY <1>1, <3>1, <3>2 DEF HasStartTrue, Starts
    <3> HIDE DEF d, l
    <3>4. QED
      BY <1>1, <2>1, <3>1, <3>3 DEF HasStartTrue
  <2>3. CASE \E l \in Links : compound' = [compound EXCEPT ![l] = Begun(l)]
    <3>1. \A l \in Links : ~Begun(l).hasStart
      BY DEF Begun
    <3>2. QED
      BY <1>1, <2>1, <2>3, <3>1 DEF HasStartTrue
  <2>4. CASE compound' = compound
    BY <1>1, <2>4 DEF HasStartTrue
  <2>5. CASE TellLink
    <3>1. \A l \in Top.due : l \in Links
      BY <2>5, TellLinkTypes DEF TellLink
    <3>2. compound' = compound \/ \E l \in Links : compound' = [compound EXCEPT ![l] = Begun(l)]
      BY <2>5, <3>1 DEF TellLink
    <3>3. QED
      BY <2>3, <2>4, <3>2
  <2>6. QED
    BY <2>2, <2>3, <2>4, <2>5 DEF Next, Outside, NaturalEnd, DelayExpires, AfterDispatch, TellComposite,
         DelayLinkAction, RunLinkAction, RunCompose, vars
<1>5. QED
  BY <1>2, <1>3, <1>4 DEF StartsInv

-----------------------------------------------------------------------------
(* A composition with nothing left ends, unless a start is being told. *)

LEMMA RunMediaHeld ==
  ASSUME TypeInv, ObjectsInv(stack, child, composite), NEW act \in Acts, NEW m \in Media,
         NEW rest \in Seq(Frames), HeldBy(stack, rest), RunMedia(act, m, rest)
  PROVE  HeldBy(stack, stack') /\ (~failed' => ~failed)
<1>1. Effect(act, m, rest)
  BY RunMediaEffect
<1>0. ~failed' => ~failed
  BY <1>1 DEF Effect
<1>2. ASSUME NEW s \in Seq(Frames), NEW f \in Frames PROVE HeldBy(s, s \o <<f>>)
  <2>1. /\ DOMAIN s = 1..Len(s) /\ DOMAIN (s \o <<f>>) = 1..(Len(s) + 1) /\ Len(s) \in Nat
        /\ \A k \in 1..Len(s) : (s \o <<f>>)[k] = s[k]
    BY PushOne, LenProperties
  <2> DEFINE t == s \o <<f>>
  <2> HIDE DEF t
  <2>2. DOMAIN s \subseteq DOMAIN t /\ \A k \in DOMAIN s : t[k] = s[k]
    BY <2>1 DEF t
  <2>3. HeldBy(s, t)
    BY <2>2 DEF HeldBy
  <2>4. QED
    BY <2>3 DEF t
<1> DEFINE f == Dispatch(m, act)
           g == After(act, m)
<1>3. f \in Frames
  BY DispatchType
<1>4. CASE stack' = rest
  BY <1>0, <1>4
<1>5. CASE stack' = stack
  BY <1>0, <1>5 DEF HeldBy
<1>6. CASE stack' = rest \o <<f>>
  <2> HIDE DEF f
  <2>1. HeldBy(rest, rest \o <<f>>)
    BY <1>2, <1>3
  <2>2. QED
    BY <1>0, <1>6, <2>1, HeldByTwo
<1>7. CASE act # "start" /\ stack' = rest \o (<<g>> \o <<f>>)
  <2>1. g \in Frames
    BY <1>7, AfterType
  <2> HIDE DEF f, g
  <2>2. rest \o (<<g>> \o <<f>>) = (rest \o <<g>>) \o <<f>>
    <3>1. <<g>> \in Seq(Frames) /\ <<f>> \in Seq(Frames)
      BY <1>3, <2>1
    <3>2. QED
      BY <3>1, ConcatAssociative
  <2>3. rest \o <<g>> \in Seq(Frames) /\ HeldBy(rest, rest \o <<g>>)
    BY <1>2, <2>1, PushOne
  <2>4. HeldBy(rest \o <<g>>, (rest \o <<g>>) \o <<f>>)
    BY <1>2, <1>3, <2>3
  <2>5. HeldBy(stack, rest \o <<g>>)
    BY <2>3, HeldByTwo
  <2>6. HeldBy(stack, (rest \o <<g>>) \o <<f>>)
    BY <2>4, <2>5, HeldByTwo
  <2>7. QED
    BY <1>0, <1>7, <2>2, <2>6
<1>8. QED
  BY <1>1, <1>4, <1>5, <1>6, <1>7 DEF Effect

\* The run whose action comes to its end without leaving another one: if that or an
\* earlier one of its actions started an object, a start is told, or an object is active.
LEMMA LastStarted ==
  ASSUME TypeInv, LinksInv(stack, links, composite.pending, compound, delayed), ActionProcessed,
         StartsInv(stack, links, composite, compound, failed), StartsLast, ~DelayedActions, ~failed,
         \/ links[Top.who].acts[Top.at].what = "start"
         \/ /\ compound[Top.who].hasStart /\ compound[Top.who].pendingActions = 1
            /\ Len(links[Top.who].acts) # 1
  PROVE  StartTold(stack) \/ ~NoneActive(composite)
<1> DEFINE n == Len(stack)
           l == Top.who
<1>1. InCall("actions") /\ ~Free /\ Top.run /\ Top.call = "actions"
  BY DEF ActionProcessed, InCall
<1>2. RunsRight(stack, links) /\ PromptCounts(stack, links, compound)
  BY DEF LinksInv
<1>3. /\ Top \in ActionsFrames /\ l \in Links /\ Top.at \in 1..Top.upto
      /\ Top.upto \in 1..Len(links[l].acts) /\ Len(links[l].acts) \in Nat
  BY <1>1, <1>2, ActionsTop
<1>4. n \in Nat \ {0} /\ DOMAIN stack = 1..n /\ Top = stack[n] /\ n \in DOMAIN stack
  BY <1>1, BelowTop DEF TypeInv
<1> HIDE DEF n
<1>5. links[l].acts[Top.at].what = "start"
  <2> SUFFICES ASSUME compound[l].hasStart, compound[l].pendingActions = 1, Len(links[l].acts) # 1
               PROVE  links[l].acts[Top.at].what = "start"
    OBVIOUS
  <2>1. \E i \in DOMAIN links[l].acts : links[l].acts[i].what = "start"
    BY <1>3 DEF StartsInv, HasStartTrue, Starts
  <2>2. links[l].acts[Len(links[l].acts)].what = "start"
    BY <1>3, <2>1 DEF StartsLast
  <2>3. Prompt(links, l)
    BY <1>3 DEF Prompt, DelayedActions
  <2>4. ~stack[n].expired
    BY <1>1, <1>2, <1>3, <1>4, <2>3, PromptRuns DEF TypeInv, Runs
  <2>5. Top.upto = Len(links[l].acts)
    BY <1>1, <1>2, <1>4, <2>4 DEF RunsRight
  <2>6. Len(links[l].acts) > 1
    <3>1. \A a \in Nat : \A u \in 1..a : a # 1 => a > 1
      OBVIOUS
    <3>2. QED
      BY <1>3, <3>1
  <2>7. compound[l].pendingActions = Top.upto - Top.at + 1
    BY <1>1, <1>2, <1>4, <2>3, <2>6 DEF PromptCounts
  <2>8. Top.at = Top.upto
    <3> HIDE DEF l
    <3>1. QED
      BY <1>3, <2>7
  <2>9. QED
    BY <2>2, <2>5, <2>8
<1>6. HasStarted(stack, n, links)
  BY <1>1, <1>4, <1>5 DEF HasStarted, Starts
<1>7. n + 1 \notin DOMAIN stack
  BY <1>4
<1>8. QED
  BY <1>4, <1>6, <1>7 DEF StartsInv, TopStarted

LEMMA ActionProcessedEnds ==
  ASSUME TypeInv, ObjectsInv(stack, child, composite), ActionProcessed,
         LinksInv(stack, links, composite.pending, compound, delayed),
         ToDoCounted(stack, links, composite.pending, compound, delayed),
         StartsInv(stack, links, composite, compound, failed), StartsLast, ~DelayedActions, ~failed,
         EndsInTime(stack, composite)
  PROVE  EndsInTime(stack', composite')
<1> DEFINE l == Top.who
           start == links[l].acts[Top.at].what = "start"
           d == [pendingActions |-> compound[l].pendingActions - 1,
                 hasStart |-> compound[l].hasStart \/ start]
           one == Len(links[l].acts) = 1
<1>1. InCall("actions") /\ ~Free /\ Top.call = "actions" /\ stack' = Returned
  BY DEF ActionProcessed, InCall
<1>2. RunsRight(stack, links) /\ WholeCovers(composite)
  BY DEF LinksInv, ObjectsInv
<1>3. HeldBy(stack, stack')
  BY <1>1, <1>2, RestHeld
<1>4. SUFFICES ASSUME composite'.whole # "SLEEPING", NothingLeft(composite'), ~StartTold(stack)
               PROVE  FALSE
  BY <1>3, StartToldKept DEF EndsInTime
<1>5. /\ l \in Links
      /\ one => composite' = LinkEvaluationFinished(composite, l, start)
      /\ ~one /\ compound[l].pendingActions # 1 => composite' = composite
      /\ ~one /\ compound[l].pendingActions = 1
               => composite' = LinkEvaluationFinished(composite, l, d.hasStart)
      /\ composite'.running = composite.running /\ composite'.paused = composite.paused
  BY <1>2, ProcessedEffect
<1>6. composite.pending[l] > 0
  BY <1>2, ActionProcessedLinks
<1>7. NoneActive(composite)
  BY <1>4, <1>5 DEF NothingLeft, NoneActive
<1>8. ~start /\ ~(~one /\ compound[l].pendingActions = 1 /\ compound[l].hasStart)
  BY <1>4, <1>7, LastStarted
<1>9. composite # composite'
  BY <1>4 DEF EndsInTime
<1>10. composite \in CompositeType /\ start \in BOOLEAN /\ d.hasStart \in BOOLEAN
       /\ (~one /\ compound[l].pendingActions = 1 => ~d.hasStart)
  BY <1>5, <1>8 DEF TypeInv
<1> HIDE DEF d, start, one, l
<1>11. \E st \in BOOLEAN : composite' = LinkEvaluationFinished(composite, l, st) /\ ~st
  BY <1>5, <1>8, <1>9, <1>10
<1>12. \A st \in BOOLEAN : LET e == LinkEvaluationFinished(composite, l, st) IN
          NothingLeft(e) /\ ~st => e.whole = "SLEEPING"
  BY <1>2, <1>5, <1>6, <1>10, FinishedEffect
<1>13. QED
  BY <1>4, <1>11, <1>12

LEMMA EndsStep ==
  ASSUME TypeInv, ObjectsInv(stack, child, composite), [Next]_vars,
         LinksInv(stack, links, composite.pending, compound, delayed),
         ToDoCounted(stack, links, composite.pending, compound, delayed),
         StartsInv(stack, links, composite, compound, failed), StartsLast, ~DelayedActions, ~failed',
         ~failed => EndsInTime(stack, composite)
  PROVE  EndsInTime(stack', composite')
<1>1. RunsRight(stack, links)
  BY DEF LinksInv
<1>2. ASSUME ~failed, HeldBy(stack, stack'), composite' = composite PROVE EndsInTime(stack', composite')
  BY <1>2, StartToldKept DEF EndsInTime
<1>3. CASE UNCHANGED vars
  <2>1. stack' = stack /\ failed' = failed /\ composite' = composite
    BY <1>3 DEF vars
  <2>2. QED
    BY <2>1
<1>4. CASE stack = <<>> /\ composite' = composite /\ failed' = failed
  BY <1>4 DEF EndsInTime, StartTold
<1>5. ASSUME NEW m \in Media, NaturalEnd(m) PROVE EndsInTime(stack', composite')
  <2>1. RunMedia("stop", m, <<>>) /\ composite' = composite /\ stack = <<>>
    BY <1>5 DEF NaturalEnd, Free
  <2>2. "stop" \in Acts /\ <<>> \in Seq(Frames) /\ HeldBy(stack, <<>>)
    BY <2>1 DEF Acts, HeldBy
  <2>3. QED
    BY <1>2, <2>1, <2>2, RunMediaHeld
<1>6. CASE AfterDispatch
  <2>1. ~Free /\ Top.call = "after" /\ stack' = Below /\ composite' = composite /\ failed' = failed
    BY <1>6 DEF AfterDispatch, InCall
  <2>2. /\ Len(stack) \in Nat \ {0} /\ DOMAIN stack = 1..Len(stack) /\ Top = stack[Len(stack)]
        /\ DOMAIN Below = 1..(Len(stack) - 1) /\ \A k \in 1..(Len(stack) - 1) : Below[k] = stack[k]
    BY <2>1, BelowTop DEF TypeInv
  <2>3. StartTold(stack) => StartTold(Below)
    <3> DEFINE n == Len(stack)
    <3> HIDE DEF n
    <3>1. /\ n \in Nat \ {0} /\ DOMAIN stack = 1..n /\ stack[n].call = "after"
          /\ DOMAIN Below = 1..(n - 1) /\ \A k \in 1..(n - 1) : Below[k] = stack[k]
      BY <2>1, <2>2 DEF n
    <3>2. \A k \in DOMAIN stack : stack[k].call = "dispatch" => k \in DOMAIN Below /\ Below[k] = stack[k]
      BY <3>1
    <3>3. QED
      BY <3>2 DEF StartTold
  <2>4. QED
    BY <2>1, <2>3 DEF EndsInTime
<1>7. CASE TellLink
  <2>1. PICK l \in Top.due : composite' = LinkEvaluationStarted(composite, l)
    BY <1>7 DEF TellLink
  <2>2. l \in Links
    BY <1>7, <2>1, TellLinkTypes DEF TellLink
  <2>3. composite'.pending[l] # 0
    <3>1. composite.pending \in [Links -> Nat] /\ composite \in CompositeType
      BY DEF TypeInv, CompositeType
    <3>2. composite'.pending = [composite.pending EXCEPT ![l] = @ + 1]
      BY <2>1, <3>1 DEF LinkEvaluationStarted, CompositeType
    <3>3. QED
      BY <2>2, <3>1, <3>2
  <2>4. QED
    BY <2>2, <2>3 DEF EndsInTime, NothingLeft, NonePending
<1>8. CASE TellComposite
  <2>1. NothingLeft(composite') => composite'.whole = "SLEEPING"
    BY <1>8, TellCompositeEffect
  <2>2. QED
    BY <2>1 DEF EndsInTime
<1>9. CASE DelayLinkAction
  <2>1. InCall("actions") /\ ~Free /\ Top.call = "actions" /\ stack' = Returned
        /\ composite' = composite /\ failed' = failed
    BY <1>9 DEF DelayLinkAction, InCall
  <2>2. HeldBy(stack, stack')
    BY <1>1, <2>1, RestHeld
  <2>3. QED
    BY <1>2, <2>1, <2>2
<1>10. CASE ActionProcessed
  <2>1. ~failed
    BY <1>10 DEF ActionProcessed
  <2>2. QED
    BY <1>10, <2>1, ActionProcessedEnds
<1>11. CASE RunLinkAction
  <2> DEFINE act == links[Top.who].acts[Top.at].what
             m == links[Top.who].acts[Top.at].who
             rest == Append(Below, [Top EXCEPT !.run = TRUE])
  <2>1. InCall("actions") /\ ~Free /\ Top.call = "actions" /\ composite' = composite
        /\ RunMedia(act, m, rest)
    BY <1>11 DEF RunLinkAction, InCall
  <2>2. HeldBy(stack, rest)
    BY <1>1, <2>1, RestHeld
  <2>3. act \in Acts /\ m \in Media /\ rest \in Seq(Frames)
    BY <1>1, <2>1, ActionsTop
  <2> HIDE DEF act, m, rest
  <2>4. HeldBy(stack, stack') /\ ~failed
    BY <2>1, <2>2, <2>3, RunMediaHeld
  <2>5. QED
    BY <1>2, <2>1, <2>4
<1>12. CASE RunCompose
  <2> DEFINE rest == IF Len(Top.todo) = 1 THEN Below ELSE Append(Below, [Top EXCEPT !.todo = Tail(@)])
  <2>1. ~Free /\ Top.call = "compose" /\ composite' = composite
        /\ RunMedia(Top.what, Head(Top.todo), rest)
    BY <1>12 DEF RunCompose, InCall
  <2>2. HeldBy(stack, rest)
    BY <1>1, <2>1, RestHeld
  <2>3. Top.what \in Acts /\ Head(Top.todo) \in Media /\ rest \in Seq(Frames)
    BY <2>1, ComposeTop
  <2> HIDE DEF rest
  <2>4. HeldBy(stack, stack') /\ ~failed
    BY <2>1, <2>2, <2>3, RunMediaHeld
  <2>5. QED
    BY <1>2, <2>1, <2>4
<1>13. QED
  BY <1>3, <1>4, <1>5, <1>6, <1>7, <1>8, <1>9, <1>10, <1>11, <1>12 DEF Next, Outside, DelayExpires, Free

LEMMA InitIInv == Init => IInv
<1> SUFFICES ASSUME Init PROVE IInv
  OBVIOUS
<1>1. TypeInv
  BY InitTypes
<1>2. /\ stack = <<>> /\ DOMAIN stack = {}
      /\ composite = [whole |-> "SLEEPING", running |-> {}, paused |-> {},
                      pending |-> [l \in Links |-> 0], last |-> "stop"]
      /\ \A m \in Media : child[m] = Unplayed
      /\ \A l \in Links : compound[l] = [pendingActions |-> 0, hasStart |-> FALSE]
      /\ \A l \in Links : \A i \in 0..MaxActs : delayed[<<l, i>>] = 0
  BY DEF Init
<1>3. ObjectsInv(stack, child, composite)
  BY <1>2 DEF ObjectsInv, TellsRight, TellsOnce, AwaitsRight, UntoldAgree, PausesCount, WholeCovers,
              Told, Awaited, Unplayed, NoneActive
<1>4. /\ DueAreDue(stack, links) /\ RunsRight(stack, links) /\ RunsOnce(stack)
      /\ PromptCounts(stack, links, compound)
  BY <1>2 DEF DueAreDue, RunsRight, RunsOnce, PromptCounts
<1>5. MaxActs \in Nat /\ 0 \in 0..MaxActs /\ \A i \in 1..MaxActs : i \in 0..MaxActs
  BY CompositionAssumption
<1>6. DelaysAreDue(links, delayed) /\ PromptPending(stack, links, composite.pending, delayed)
  <2>1. DelaysAreDue(links, delayed)
    BY <1>2, <1>5 DEF DelaysAreDue
  <2>2. \A l : ~IsRun(stack, l)
    BY <1>2 DEF IsRun
  <2>3. PromptPending(stack, links, composite.pending, delayed)
    BY <1>2, <1>5, <2>2 DEF PromptPending
  <2>4. QED
    BY <2>1, <2>3
<1>7. ToDoCounted(stack, links, composite.pending, compound, delayed)
  <2> SUFFICES ASSUME NEW l \in Links
               PROVE  Counted(Begins(composite.pending, delayed, l), ToDo(stack, delayed, l),
                              Len(links[l].acts), compound[l].pendingActions)
    BY DEF ToDoCounted
  <2>1. Called(stack, l) = {} /\ Waiting(delayed, l) = {}
    <3>1. Called(stack, l) = {}
      BY <1>2 DEF Called
    <3>2. \A i \in 1..MaxActs : delayed[<<l, i>>] = 0
      BY <1>2, <1>5
    <3>3. Waiting(delayed, l) = {}
      BY <1>5, <3>2, CompositionAssumption DEF Waiting
    <3>4. QED
      BY <3>1, <3>3
  <2>2. ToDo(stack, delayed, l) = 0
    BY <2>1, FS_EmptySet DEF ToDo
  <2>3. Begins(composite.pending, delayed, l) = 0
    BY <1>2, <1>5 DEF Begins
  <2>4. QED
    BY <2>2, <2>3 DEF Counted
<1>8. StartsInv(stack, links, composite, compound, failed)
  BY <1>2 DEF StartsInv, StartsAbove, TopStarted, HasStartTrue
<1>9. EndsInTime(stack, composite)
  BY <1>2 DEF EndsInTime
<1>10. QED
  BY <1>1, <1>3, <1>4, <1>6, <1>7, <1>8, <1>9 DEF IInv, LinksInv

LEMMA StepIInv == IInv /\ [Next]_vars => IInv'
<1> SUFFICES ASSUME IInv, [Next]_vars PROVE IInv'
  OBVIOUS
<1>1. /\ TypeInv /\ ObjectsInv(stack, child, composite)
      /\ LinksInv(stack, links, composite.pending, compound, delayed)
      /\ ToDoCounted(stack, links, composite.pending, compound, delayed)
      /\ StartsInv(stack, links, composite, compound, failed)
      /\ RunsRight(stack, links)
  BY DEF IInv, LinksInv
<1>2. TypeInv'
  BY <1>1, TypeStep
<1>3. ObjectsInv(stack', child', composite')
  BY <1>1, ObjectsStep
<1>4. /\ LinksInv(stack', links', composite'.pending, compound', delayed')
      /\ ToDoCounted(stack', links', composite'.pending, compound', delayed')
  BY <1>1, LinksStep
<1>5. StartsInv(stack', links', composite', compound', failed')
  BY <1>1, StartsStep
<1>6. links' = links
  BY DEF Next, Outside, NaturalEnd, DelayExpires, AfterDispatch, TellLink, TellComposite,
         DelayLinkAction, RunLinkAction, ActionProcessed, RunCompose, vars
<1>7. (~failed /\ ~DelayedActions /\ StartsLast => EndsInTime(stack, composite))'
  <2>1. (DelayedActions' <=> DelayedActions) /\ (StartsLast' <=> StartsLast)
    BY <1>6 DEF DelayedActions, StartsLast
  <2>2. ASSUME ~failed', ~DelayedActions, StartsLast PROVE EndsInTime(stack', composite')
    <3>1. ~failed => EndsInTime(stack, composite)
      BY <2>2 DEF IInv
    <3>2. QED
      BY <1>1, <2>2, <3>1, EndsStep
  <2>3. QED
    BY <2>1, <2>2
<1>8. QED
  BY <1>2, <1>3, <1>4, <1>5, <1>7 DEF IInv

-----------------------------------------------------------------------------
(* The theorems. *)

LEMMA Invariant == Spec => []IInv
<1>1. Init => IInv
  BY InitIInv
<1>2. IInv /\ [Next]_vars => IInv'
  BY StepIInv
<1>3. QED
  BY <1>1, <1>2, PTL DEF Spec

\* Type correctness: the event of the composition never is in a state its machine does
\* not have, a count of pending links is never negative, and what the links and the
\* composition push on the stack is a call that the code has.
THEOREM CompositionIsTyped == Spec => []TypeInv
<1>1. IInv => TypeInv
  BY DEF IInv
<1>2. QED
  BY <1>1, Invariant, PTL

\* Between two trees of calls runningEvents and pausedEvents are the objects that occur
\* and those that are paused, in every document and in whatever order the links and the
\* compositions heard of the transitions.
THEOREM CompositionKnowsItsObjects == Spec => []ChildrenAgree
<1>1. IInv => ChildrenAgree
  <2> SUFFICES ASSUME IInv, Free
               PROVE  /\ composite.running = {m \in Media : child[m].st = "OCCURRING"}
                      /\ composite.paused  = {m \in Media : child[m].st = "PAUSED"}
    BY DEF ChildrenAgree
  <2>1. \A m : ~Told(stack, m)
    BY DEF Free, Told
  <2>2. \A m \in Media : /\ m \in composite.running <=> child[m].st = "OCCURRING"
                         /\ m \in composite.paused <=> child[m].st = "PAUSED"
    BY <2>1 DEF IInv, ObjectsInv, UntoldAgree
  <2>3. composite.running \subseteq Media /\ composite.paused \subseteq Media
    BY DEF IInv, TypeInv, CompositeType
  <2>4. QED
    BY <2>2, <2>3
<1>2. QED
  BY <1>1, Invariant, PTL

\* pendingLinks has exactly the runs of a link that are under way or that its delay will
\* begin, if its actions have no delays of their own: no run is forgotten, and none is
\* kept that is over.
THEOREM PendingCountsTheRuns == Spec => []PendingAgrees
<1>1. IInv => PendingAgrees
  <2> SUFFICES ASSUME IInv, NEW l \in Links, Prompt(links, l)
               PROVE  composite.pending[l] = RunsOf(l)
    BY DEF PendingAgrees, Prompt
  <2> DEFINE R == {k \in DOMAIN stack : stack[k].call = "actions" /\ stack[k].who = l}
  <2>1. TypeInv /\ RunsRight(stack, links) /\ RunsOnce(stack) /\ stack \in Seq(Frames)
    BY DEF IInv, LinksInv, TypeInv
  <2>2. composite.pending[l] = delayed[<<l, 0>>] + (IF IsRun(stack, l) THEN 1 ELSE 0)
    BY DEF IInv, LinksInv, PromptPending
  <2>3. \A j, k \in R : j = k
    <3>1. \A k \in DOMAIN stack : Runs(stack, k, l) => ~stack[k].expired
      BY <2>1, PromptRuns
    <3>2. QED
      BY <2>1, <3>1 DEF Runs, RunsOnce
  <2>4. Cardinality(R) = IF IsRun(stack, l) THEN 1 ELSE 0
    <3>1. CASE IsRun(stack, l)
      <4>1. PICK k \in DOMAIN stack : Runs(stack, k, l)
        BY <3>1 DEF IsRun
      <4>2. R = {k}
        BY <2>3, <4>1 DEF Runs
      <4> HIDE DEF R
      <4>3. QED
        BY <3>1, <4>2, FS_Singleton
    <3>2. CASE ~IsRun(stack, l)
      <4>1. R = {}
        BY <3>2 DEF IsRun, Runs
      <4> HIDE DEF R
      <4>2. QED
        BY <3>2, <4>1, FS_EmptySet
    <3>3. QED
      BY <3>1, <3>2
  <2>5. QED
    BY <2>2, <2>4 DEF RunsOf
<1>2. QED
  BY <1>1, Invariant, PTL

\* A composition is not over while one of its objects occurs or is paused; and when none
\* does and no delay runs it is over, unless an object could not be played, or a link
\* starts an object before its last action, or delays one of its actions.
THEOREM CompositionEndsWithItsObjects == Spec => []EndsWithItsObjects
<1>1. IInv => EndsWithItsObjects
  <2> SUFFICES ASSUME IInv, Free
               PROVE  /\ composite.whole = "SLEEPING" => \A m \in Media : Asleep(m)
                      /\ (/\ ~failed /\ StartsLast /\ ~DelayedActions
                          /\ NoneActive(composite) /\ \A t \in DOMAIN delayed : delayed[t] = 0)
                            => composite.whole = "SLEEPING"
    BY DEF EndsWithItsObjects
  <2>1. TypeInv /\ stack = <<>>
    BY DEF IInv, Free
  <2>2. ASSUME composite.whole = "SLEEPING", NEW m \in Media PROVE Asleep(m)
    <3>1. m \notin composite.running /\ m \notin composite.paused
      BY <2>2 DEF IInv, ObjectsInv, WholeCovers, NoneActive
    <3>2. ~Told(stack, m)
      BY <2>1 DEF Told
    <3>3. child[m].st \in MediaStates /\ child[m].st \notin {"OCCURRING", "PAUSED", "ABORTED"}
      BY <2>1, <3>1, <3>2 DEF IInv, ObjectsInv, UntoldAgree, TypeInv, ChildType
    <3>4. QED
      BY <3>3 DEF MediaStates, Asleep
  <2>3. ASSUME ~failed, StartsLast, ~DelayedActions, NoneActive(composite),
               \A t \in DOMAIN delayed : delayed[t] = 0
        PROVE  composite.whole = "SLEEPING"
    <3>1. \A l \in Links : Prompt(links, l)
      BY <2>3 DEF DelayedActions, Prompt
    <3>2. \A l \in Links : delayed[<<l, 0>>] = 0
      <4>1. DOMAIN delayed = Links \X (0..MaxActs) /\ 0 \in 0..MaxActs
        BY <2>1, CompositionAssumption DEF TypeInv
      <4>2. QED
        BY <2>3, <4>1
    <3>3. \A l : ~IsRun(stack, l)
      BY <2>1 DEF IsRun
    <3>4. NothingLeft(composite)
      <4>1. ASSUME NEW l \in Links PROVE composite.pending[l] = 0
        <5>1. composite.pending[l] = delayed[<<l, 0>>] + (IF IsRun(stack, l) THEN 1 ELSE 0)
          BY <3>1, <4>1 DEF IInv, LinksInv, PromptPending
        <5>2. composite.pending[l] = 0 + (IF FALSE THEN 1 ELSE 0)
          BY <3>2, <3>3, <5>1
        <5>3. QED
          BY <5>2
      <4>2. \A l \in Links : composite.pending[l] = 0
        BY <4>1
      <4>3. QED
        BY <2>3, <4>2 DEF NothingLeft, NonePending
    <3>5. EndsInTime(stack, composite) /\ ~StartTold(stack)
      BY <2>1, <2>3 DEF IInv, StartTold
    <3>6. QED
      BY <3>4, <3>5 DEF EndsInTime
  <2>4. QED
    BY <2>2, <2>3
<1>2. QED
  BY <1>1, Invariant, PTL

Timers == [Links \X (0..MaxActs) -> 0..MaxDelayed]

LEMMA NothingWaits ==
  ASSUME NEW s \in Seq(Frames), NEW ls, NEW p, NEW q, NEW y \in Timers,
         ToDoCounted(s, ls, p, q, y), \A l \in Links : p[l] = 0
  PROVE  \A t \in Links \X (0..MaxActs) : y[t] = 0
<1>1. MaxActs \in Nat /\ MaxDelayed \in Nat /\ 0 \in 0..MaxActs
  BY CompositionAssumption
<1> SUFFICES ASSUME NEW l \in Links, NEW i \in 0..MaxActs PROVE y[<<l, i>>] = 0
  OBVIOUS
<1>2. Counted(Begins(p, y, l), ToDo(s, y, l), Len(ls[l].acts), q[l].pendingActions)
  BY DEF ToDoCounted
<1>3. y[<<l, 0>>] \in Nat /\ y[<<l, i>>] \in 0..MaxDelayed
  BY <1>1 DEF Timers
<1>4. Begins(p, y, l) = 0 - y[<<l, 0>>]
  BY DEF Begins
<1>5. y[<<l, 0>>] = 0 /\ Begins(p, y, l) = 0
  BY <1>2, <1>3, <1>4 DEF Counted
<1>6. ToDo(s, y, l) = 0
  BY <1>2, <1>5 DEF Counted
<1>7. IsFiniteSet(Waiting(y, l)) /\ Cardinality(Waiting(y, l)) = 0
  <2>1. /\ IsFiniteSet(Waiting(y, l)) /\ Cardinality(Waiting(y, l)) \in Nat
        /\ Cardinality(Called(s, l)) \in Nat
    BY TokensFinite
  <2>2. QED
    BY <1>6, <2>1 DEF ToDo
<1>8. Waiting(y, l) = {}
  BY <1>7, FS_EmptySet
<1>9. CASE i = 0
  BY <1>5, <1>9
<1>10. CASE i # 0
  <2> SUFFICES ASSUME y[<<l, i>>] > 0 PROVE FALSE
    BY <1>1, <1>3
  <2>1. i \in 1..MaxActs /\ 1 \in 1..MaxDelayed /\ 1 <= y[<<l, i>>]
    BY <1>1, <1>3, <1>10
  <2>2. <<i, 1>> \in Waiting(y, l)
    BY <2>1 DEF Waiting
  <2>3. QED
    BY <1>8, <2>2
<1>11. QED
  BY <1>9, <1>10

\* The composition ends only when nothing is left in it: when its event comes to sleep no
\* link and no action of a link waits for its delay, so that no delay of a run that began
\* while it occurred starts it again.
THEOREM CompositionEndsOnce == Spec => EndsOnce
<1>1. IInv /\ IInv' /\ [Next]_vars
        => [(composite.whole # "SLEEPING" /\ composite'.whole = "SLEEPING")
              => \A t \in DOMAIN delayed : delayed'[t] = 0]_vars
  <2> SUFFICES ASSUME IInv, IInv', [Next]_vars, composite.whole # "SLEEPING", composite'.whole = "SLEEPING"
               PROVE  \A t \in DOMAIN delayed : delayed'[t] = 0
    OBVIOUS
  <2>1. TypeInv /\ ObjectsInv(stack, child, composite) /\ RunsRight(stack, links) /\ WholeCovers(composite)
    BY DEF IInv, LinksInv, ObjectsInv
  <2>2. NothingLeft(composite')
    <3>1. CASE TellComposite
      BY <2>1, <3>1, TellCompositeEffect
    <3>2. CASE ActionProcessed
      BY <2>1, <3>2, ProcessedEffect
    <3>3. CASE TellLink
      <4>1. PICK l \in Top.due : composite' = LinkEvaluationStarted(composite, l)
        BY <3>3 DEF TellLink
      <4>2. composite'.whole = composite.whole
        BY <2>1, <4>1 DEF LinkEvaluationStarted, TypeInv, CompositeType
      <4>3. QED
        BY <4>2
    <3>4. CASE composite' = composite
      BY <3>4
    <3>5. QED
      BY <3>1, <3>2, <3>3, <3>4 DEF Next, Outside, NaturalEnd, DelayExpires, AfterDispatch,
         DelayLinkAction, RunLinkAction, RunCompose, vars
  <2>3. /\ stack' \in Seq(Frames) /\ delayed' \in [Links \X (0..MaxActs) -> 0..MaxDelayed]
        /\ ToDoCounted(stack', links', composite'.pending, compound', delayed')
        /\ DOMAIN delayed = Links \X (0..MaxActs)
    BY <2>1 DEF IInv, TypeInv
  <2>4. \A l \in Links : composite'.pending[l] = 0
    BY <2>2 DEF NothingLeft, NonePending
  <2>5. \A t \in Links \X (0..MaxActs) : delayed'[t] = 0
    <3> DEFINE s2 == stack'
               y2 == delayed'
               p2 == composite'.pending
               q2 == compound'
               ls2 == links'
    <3>1. /\ s2 \in Seq(Frames) /\ y2 \in Timers
          /\ ToDoCounted(s2, ls2, p2, q2, y2) /\ \A l \in Links : p2[l] = 0
      BY <2>3, <2>4 DEF Timers
    <3> HIDE DEF s2, y2, p2, q2, ls2
    <3>2. \A t \in Links \X (0..MaxActs) : y2[t] = 0
      BY <3>1, NothingWaits
    <3>3. QED
      BY <3>2 DEF y2
  <2>6. QED
    BY <2>3, <2>5
<1>2. QED
  BY <1>1, Invariant, PTL DEF Spec, EndsOnce
-----------------------------------------------------------------------------
(* The switch.                                                             *)

(***************************************************************************)
(* The events that are made with the document were there when the          *)
(* selection was made, and map to what they can map to in it.              *)
(***************************************************************************)
Resolves ==
    \A e \in Events \ Late :
        /\ e \in made
        /\ selected # None /\ selected \in Interfaces[e] => mapped[e] = selected

SwitchInv == TypeOK /\ OnlySelectedPlays /\ MappedIsSelected /\ Resolves /\ EventsAgree

-----------------------------------------------------------------------------

\* There is a last one among the rules that are true.
LEMMA Greatest ==
    ASSUME NEW n \in Nat, NEW T \in SUBSET (1..n), T # {}
    PROVE  \E i \in T : \A j \in T : j <= i
<1> DEFINE D == {k \in Nat : \E i \in T : k = n - i}
           R == {ss \in Nat \X Nat : ss[1] < ss[2]}
<1>1. D \subseteq Nat /\ D # {}
  <2>1. PICK i \in T : TRUE
    OBVIOUS
  <2>2. n - i \in Nat
    OBVIOUS
  <2> QED
    BY <2>2
<1>2. IsWellFoundedOn(R, Nat)
  BY NatLessThanWellFounded DEF OpToRel
<1>3. \E x \in D : \A y \in D : ~(<<y, x>> \in R)
  <2> HIDE DEF D, R
  <2> QED
    BY <1>1, <1>2, WFMin
<1>4. PICK x \in D : \A y \in D : ~(<<y, x>> \in R)
  BY <1>3
<1>5. PICK i \in T : x = n - i
  OBVIOUS
<1>6. ASSUME NEW j \in T PROVE j <= i
  <2>1. n - j \in D /\ n - j \in Nat /\ x \in Nat
    OBVIOUS
  <2>2. ~(n - j < x)
    BY <1>4, <2>1
  <2> QED
    BY <1>5, <2>1, <2>2
<1> QED
  BY <1>6

LEMMA AdaptSwitchType == AdaptSwitch \in Components \cup {None}
<1> DEFINE true == {i \in DOMAIN Rules : Evaluate(Rules[i].rule)}
<1>1. CASE true = {}
  BY <1>1, SwitchAssumption DEF AdaptSwitch
<1>2. CASE true # {}
  <2>1. \E i \in true : \A j \in true : j <= i
    <3>1. true \in SUBSET (1..Len(Rules)) /\ Len(Rules) \in Nat
      BY SwitchAssumption
    <3> HIDE DEF true
    <3> QED
      BY <1>2, <3>1, Greatest
  <2>2. (CHOOSE i \in true : \A j \in true : j <= i) \in DOMAIN Rules
    <3>1. (CHOOSE i \in true : \A j \in true : j <= i) \in true
      <4> HIDE DEF true
      <4> QED
        BY <2>1
    <3> QED
      BY <3>1
  <2> QED
    BY <1>2, <2>2, SwitchAssumption DEF AdaptSwitch
<1> QED
  BY <1>1, <1>2

LEMMA OutcomesType ==
    ASSUME NEW action \in SwitchActions, NEW s \in States, NEW t \in Outcomes(action, s)
    PROVE  /\ t \in States
           /\ action = "stop" => t = "sleeping"
           /\ action # "start" /\ s = "sleeping" => t = "sleeping"
BY DEF Outcomes, States, SwitchActions

LEMMA SwitchInitInv == SwitchInit => SwitchInv
BY SwitchAssumption
DEF SwitchInit, SwitchInv, TypeOK, OnlySelectedPlays, MappedIsSelected, Resolves, EventsAgree, Unmapped, States

LEMMA MakeEventInv == ASSUME SwitchInv, NEW e \in Events, MakeEvent(e) PROVE SwitchInv'
BY DEF MakeEvent, SwitchInv, TypeOK, OnlySelectedPlays, MappedIsSelected, Resolves, EventsAgree

LEMMA SetPropertyInv ==
    ASSUME SwitchInv, NEW a \in Attributes, NEW v \in Values, SetProperty(a, v) PROVE SwitchInv'
BY DEF SetProperty, SwitchInv, TypeOK, OnlySelectedPlays, MappedIsSelected, Resolves, EventsAgree

\* The mapping that an action goes by leads to the component n only, and leaves no
\* event out that was made with the document.
LEMMA MappingLeads ==
    ASSUME SwitchInv, NEW e \in Events, e \in made, NEW n \in Components, n = Selection
    PROVE  LET m == Mapping(e, n) IN
           /\ m \in [Events -> Components \cup {None}]
           /\ \A x \in Events : m[x] # None => m[x] = n
           /\ \A x \in Events : mapped[x] # None => m[x] = mapped[x]
           /\ \A x \in Events \ Late : n \in Interfaces[x] => m[x] = n
           /\ selected # None => \A x \in Events \ Late : m[x] = mapped[x]
<1> DEFINE resolved == IF selected = None THEN Resolved(n) ELSE mapped
<1> USE SwitchAssumption
<1>1. selected # None => n = selected
  BY DEF Selection
<1>2. /\ resolved \in [Events -> Components \cup {None}]
      /\ \A x \in Events : resolved[x] # None => resolved[x] = n
      /\ \A x \in Events : mapped[x] # None => resolved[x] = mapped[x]
      /\ \A x \in Events \ Late : n \in Interfaces[x] => resolved[x] = n
  <2>1. CASE selected = None
    BY <2>1 DEF SwitchInv, TypeOK, MappedIsSelected, Resolves, Resolved
  <2>2. CASE selected # None
    BY <1>1, <2>2 DEF SwitchInv, TypeOK, MappedIsSelected, Resolves
  <2> QED
    BY <2>1, <2>2
<1>3. Mapping(e, n) = IF resolved[e] = None /\ n \in Interfaces[e]
                      THEN [resolved EXCEPT ![e] = n] ELSE resolved
  BY DEF Mapping
<1>4. selected # None => \A x \in Events \ Late : Mapping(e, n)[x] = mapped[x]
  BY <1>1, <1>2, <1>3 DEF SwitchInv, Resolves, TypeOK
<1> HIDE DEF resolved
<1> QED
  BY <1>2, <1>3, <1>4

\* What Tell() does to the events of the switch, m being the mapping it goes by: those
\* that agreed do so with the component they come to map to.
LEMMA TellAgrees ==
    ASSUME SwitchInv, NEW m \in [Events -> Components \cup {None}], NEW n, Tell(m),
           component' \in [Components -> States],
           \A x \in Events : m[x] # None => m[x] = n,
           \A x \in Events : mapped[x] # None => m[x] = mapped[x],
           selected # None => \A x \in Events \ Late : m[x] = mapped[x]
    PROVE  /\ states' \in [Events -> States] /\ cut' \subseteq Events
           /\ \A x \in Events \ (Late \cup cut') :
                 states'[x] = IF m[x] = None THEN "sleeping" ELSE component'[m[x]]
<1> DEFINE told == {x \in Events : m[x] # None /\ component'[m[x]] # component[m[x]]}
<1>1. /\ states' = [x \in Events |-> IF x \in told THEN component'[m[x]] ELSE states[x]]
      /\ cut' = (cut \cup Rejoined(m)) \ told
  BY DEF Tell
<1>2. states' \in [Events -> States] /\ cut' \subseteq Events
  BY <1>1 DEF SwitchInv, TypeOK, Rejoined
<1>3. ASSUME NEW x \in Events \ (Late \cup cut')
      PROVE  states'[x] = IF m[x] = None THEN "sleeping" ELSE component'[m[x]]
  <2>1. CASE x \in told
    BY <1>1, <2>1
  <2>2. CASE x \notin told
    <3>1. x \notin cut /\ x \notin Rejoined(m) /\ states'[x] = states[x]
      BY <1>1, <1>3, <2>2
    <3>2. states[x] = IF mapped[x] = None THEN "sleeping" ELSE component[mapped[x]]
      BY <3>1, <1>3 DEF SwitchInv, EventsAgree
    <3>3. CASE m[x] = None
      BY <3>1, <3>2, <3>3
    <3>4. CASE m[x] # None
      <4>1. m[x] = n /\ n \in Components /\ component'[n] = component[n]
        BY <2>2, <3>4
      <4>2. CASE mapped[x] # None
        BY <3>1, <3>2, <4>1, <4>2
      <4>3. CASE mapped[x] = None
        <5>1. n \notin left
          BY <3>1, <4>1, <4>3 DEF Rejoined
        <5>2. component[n] = "sleeping" \/ n = selected
          BY <4>1, <5>1 DEF SwitchInv, OnlySelectedPlays
        <5> QED
          BY <1>3, <3>1, <3>2, <3>4, <4>1, <4>3, <5>2
      <4> QED
        BY <4>2, <4>3
    <3> QED
      BY <3>3, <3>4
  <2> QED
    BY <2>1, <2>2
<1> QED
  BY <1>2, <1>3

LEMMA RunActionOverSwitchInv ==
    ASSUME SwitchInv, NEW e \in Events, NEW action \in SwitchActions, RunActionOverSwitch(e, action)
    PROVE  SwitchInv'
<1> DEFINE n == Selection
           m == Mapping(e, n)
<1> USE SwitchAssumption
<1>1. e \in made /\ n # None /\ UNCHANGED <<settings, made>>
  BY DEF RunActionOverSwitch
<1>2. n \in Components /\ (selected # None => n = selected)
  BY <1>1, AdaptSwitchType DEF Selection, SwitchInv, TypeOK
<1>3. /\ m \in [Events -> Components \cup {None}]
      /\ \A x \in Events : m[x] # None => m[x] = n
      /\ \A x \in Events : mapped[x] # None => m[x] = mapped[x]
      /\ \A x \in Events \ Late : n \in Interfaces[x] => m[x] = n
      /\ selected # None => \A x \in Events \ Late : m[x] = mapped[x]
  BY <1>1, <1>2, MappingLeads
<1>4. /\ \/ m[e] # None /\ Run(m[e], action, m)
         \/ /\ m[e] = None /\ UNCHANGED <<component, states>>
            /\ cut' = cut \cup Rejoined(m) \cup IF action = "stop" THEN Deaf(m) ELSE {}
      /\ IF action = "stop" THEN ForgetSelection ELSE Keep(n, m)
  BY DEF RunActionOverSwitch
<1> HIDE DEF n, m
<1>5. /\ component' \in [Components -> States]
      /\ \A o \in Components \ {n} : component'[o] = component[o]
      /\ action = "stop" => component'[n] = "sleeping" \/ component'[n] = component[n]
  <2>1. CASE m[e] # None
    <3>1. PICK s \in Outcomes(action, component[n]) : component' = [component EXCEPT ![n] = s]
      BY <1>3, <1>4, <2>1 DEF Run
    <3>2. component[n] \in States
      BY <1>2 DEF SwitchInv, TypeOK
    <3> QED
      BY <1>2, <3>1, <3>2, OutcomesType DEF SwitchInv, TypeOK
  <2>2. CASE m[e] = None
    BY <1>4, <2>2 DEF SwitchInv, TypeOK
  <2> QED
    BY <2>1, <2>2
<1>6. /\ states' \in [Events -> States] /\ cut' \subseteq Events
      /\ \A x \in Events \ (Late \cup cut') :
            states'[x] = IF m[x] = None THEN "sleeping" ELSE component'[m[x]]
  <2>1. CASE m[e] # None
    BY <1>3, <1>4, <1>5, <2>1, TellAgrees DEF Run
  <2>2. CASE m[e] = None
    <3>1. /\ UNCHANGED <<component, states>>
          /\ cut \subseteq cut' /\ Rejoined(m) \subseteq cut' /\ cut' \subseteq Events
      BY <1>4, <2>2 DEF SwitchInv, TypeOK, Rejoined, Deaf
    <3>2. ASSUME NEW x \in Events \ (Late \cup cut')
          PROVE  states'[x] = IF m[x] = None THEN "sleeping" ELSE component'[m[x]]
      <4>1. states[x] = IF mapped[x] = None THEN "sleeping" ELSE component[mapped[x]]
        BY <3>1, <3>2 DEF SwitchInv, EventsAgree
      <4>2. CASE m[x] = None \/ mapped[x] # None
        BY <1>3, <3>1, <4>1, <4>2
      <4>3. CASE m[x] # None /\ mapped[x] = None
        <5>1. m[x] = n /\ n \notin left /\ selected = None
          BY <1>3, <3>1, <3>2, <4>3 DEF Rejoined
        <5>2. component[n] = "sleeping"
          BY <1>2, <5>1 DEF SwitchInv, OnlySelectedPlays
        <5> QED
          BY <3>1, <4>1, <4>3, <5>1, <5>2
      <4> QED
        BY <4>2, <4>3
    <3> QED
      BY <3>1, <3>2 DEF SwitchInv, TypeOK
  <2> QED
    BY <2>1, <2>2
<1>7. CASE action = "stop"
  <2>1. /\ selected' = None /\ mapped' = Unmapped
        /\ left' = {o \in left \cup ({selected} \ {None}) : component'[o] # "sleeping"}
    BY <1>4, <1>7 DEF ForgetSelection
  <2>2. TypeOK'
    BY <1>1, <1>5, <1>6, <2>1 DEF SwitchInv, TypeOK, Unmapped
  <2>3. OnlySelectedPlays'
    <3> SUFFICES ASSUME NEW o \in Components, component'[o] # "sleeping" PROVE o \in left'
      BY DEF OnlySelectedPlays
    <3>1. component[o] # "sleeping"
      BY <1>5, <1>7
    <3> QED
      BY <2>1, <3>1 DEF SwitchInv, OnlySelectedPlays
  <2>4. MappedIsSelected' /\ Resolves'
    BY <1>1, <2>1 DEF MappedIsSelected, Resolves, Unmapped, SwitchInv
  <2>5. EventsAgree'
    <3> SUFFICES ASSUME NEW x \in Events \ (Late \cup cut') PROVE states'[x] = "sleeping"
      BY <2>1 DEF EventsAgree, Unmapped
    <3>1. CASE m[x] = None
      BY <1>6, <3>1
    <3>2. CASE m[x] # None /\ m[e] # None
      <4>1. component'[n] = "sleeping"
        <5>1. PICK s \in Outcomes(action, component[n]) : component' = [component EXCEPT ![n] = s]
          BY <1>3, <1>4, <3>2 DEF Run
        <5>2. s = "sleeping"
          BY <1>2, <1>7, <5>1, OutcomesType DEF SwitchInv, TypeOK
        <5> QED
          BY <1>2, <5>1, <5>2 DEF SwitchInv, TypeOK
      <4> QED
        BY <1>3, <1>6, <3>2, <4>1
    <3>3. CASE m[x] # None /\ m[e] = None
      BY <1>4, <1>6, <1>7, <3>3 DEF Deaf
    <3> QED
      BY <3>1, <3>2, <3>3
  <2> QED
    BY <2>2, <2>3, <2>4, <2>5 DEF SwitchInv
<1>8. CASE action # "stop"
  <2>1. /\ selected' = n /\ mapped' = m
        /\ left' = {o \in left : component'[o] # "sleeping"} \ {n}
    BY <1>4, <1>8 DEF Keep
  <2>2. TypeOK'
    BY <1>1, <1>2, <1>3, <1>5, <1>6, <2>1 DEF SwitchInv, TypeOK
  <2>3. OnlySelectedPlays'
    <3> SUFFICES ASSUME NEW o \in Components, o # n, component'[o] # "sleeping" PROVE o \in left'
      BY <2>1 DEF OnlySelectedPlays
    <3>1. component[o] # "sleeping" /\ o # selected
      BY <1>2, <1>5
    <3> QED
      BY <2>1, <3>1 DEF SwitchInv, OnlySelectedPlays
  <2>4. MappedIsSelected' /\ Resolves'
    BY <1>1, <1>3, <2>1 DEF MappedIsSelected, Resolves, SwitchInv
  <2>5. EventsAgree'
    BY <1>6, <2>1 DEF EventsAgree
  <2> QED
    BY <2>2, <2>3, <2>4, <2>5 DEF SwitchInv
<1> QED
  BY <1>7, <1>8

LEMMA RunActionOverCompositionInv ==
    ASSUME SwitchInv, NEW action \in SwitchActions, RunActionOverComposition(action) PROVE SwitchInv'
<1> USE SwitchAssumption
<1>1. /\ action # "start" /\ UNCHANGED <<settings, made>>
      /\ component' \in [Components -> States]
      /\ \A o \in Components : component'[o] \in Outcomes(action, component[o])
  BY DEF RunActionOverComposition
<1>2. \A o \in Components :
          /\ action = "stop" => component'[o] = "sleeping"
          /\ component[o] = "sleeping" => component'[o] = "sleeping"
  BY <1>1, OutcomesType DEF SwitchInv, TypeOK
<1>3. CASE action = "stop"
  <2>1. /\ selected' = None /\ mapped' = Unmapped /\ UNCHANGED states
        /\ left' = {o \in left \cup ({selected} \ {None}) : component'[o] # "sleeping"}
        /\ cut' = cut \cup Deaf(mapped)
    BY <1>3 DEF RunActionOverComposition, ForgetSelection
  <2>2. TypeOK'
    BY <1>1, <2>1 DEF SwitchInv, TypeOK, Unmapped, Deaf
  <2>3. OnlySelectedPlays' /\ MappedIsSelected' /\ Resolves'
    BY <1>1, <1>2, <1>3, <2>1 DEF OnlySelectedPlays, MappedIsSelected, Resolves, Unmapped, SwitchInv
  <2>4. EventsAgree'
    BY <2>1 DEF EventsAgree, Unmapped, Deaf, SwitchInv
  <2> QED
    BY <2>2, <2>3, <2>4 DEF SwitchInv
<1>4. CASE action # "stop"
  <2>1. /\ selected' = selected /\ mapped' = mapped /\ Tell(mapped)
        /\ left' = {o \in left : component'[o] # "sleeping"} \ {selected}
    BY <1>4 DEF RunActionOverComposition, Keep
  <2>2. /\ states' \in [Events -> States] /\ cut' \subseteq Events
        /\ \A x \in Events \ (Late \cup cut') :
              states'[x] = IF mapped[x] = None THEN "sleeping" ELSE component'[mapped[x]]
    <3>1. mapped \in [Events -> Components \cup {None}]
          /\ \A x \in Events : mapped[x] # None => mapped[x] = selected
      BY DEF SwitchInv, TypeOK, MappedIsSelected
    <3> QED
      BY <1>1, <2>1, <3>1, TellAgrees
  <2>3. TypeOK'
    BY <1>1, <2>1, <2>2 DEF SwitchInv, TypeOK
  <2>4. OnlySelectedPlays' /\ MappedIsSelected' /\ Resolves'
    BY <1>1, <1>2, <2>1 DEF OnlySelectedPlays, MappedIsSelected, Resolves, SwitchInv
  <2>5. EventsAgree'
    BY <2>1, <2>2 DEF EventsAgree
  <2> QED
    BY <2>3, <2>4, <2>5 DEF SwitchInv
<1> QED
  BY <1>3, <1>4

LEMMA EndInv == ASSUME SwitchInv, NEW n \in Components, End(n) PROVE SwitchInv'
<1> USE SwitchAssumption
<1>1. PICK s \in Outcomes("stop", component[n]) : component' = [component EXCEPT ![n] = s]
  BY DEF End, Run
<1>2. /\ selected' = selected /\ mapped' = mapped /\ Tell(mapped) /\ UNCHANGED <<settings, made>>
      /\ left' = {o \in left : component'[o] # "sleeping"} \ {selected}
  BY DEF End, Run, Keep
<1>3. /\ component' \in [Components -> States]
      /\ \A o \in Components : component'[o] # "sleeping" => component[o] = component'[o]
  BY <1>1, OutcomesType DEF SwitchInv, TypeOK, States, SwitchActions
<1>4. /\ states' \in [Events -> States] /\ cut' \subseteq Events
      /\ \A x \in Events \ (Late \cup cut') :
            states'[x] = IF mapped[x] = None THEN "sleeping" ELSE component'[mapped[x]]
  <2>1. mapped \in [Events -> Components \cup {None}]
        /\ \A x \in Events : mapped[x] # None => mapped[x] = selected
    BY DEF SwitchInv, TypeOK, MappedIsSelected
  <2> QED
    BY <1>2, <1>3, <2>1, TellAgrees
<1>5. TypeOK'
  BY <1>2, <1>3, <1>4 DEF SwitchInv, TypeOK
<1>6. OnlySelectedPlays' /\ MappedIsSelected' /\ Resolves'
  BY <1>2, <1>3 DEF OnlySelectedPlays, MappedIsSelected, Resolves, SwitchInv
<1>7. EventsAgree'
  BY <1>2, <1>4 DEF EventsAgree
<1> QED
  BY <1>5, <1>6, <1>7 DEF SwitchInv

LEMMA SwitchStepInv == SwitchInv /\ [SwitchNext]_switchVars => SwitchInv'
<1> SUFFICES ASSUME SwitchInv, [SwitchNext]_switchVars PROVE SwitchInv'
  OBVIOUS
<1>1. CASE UNCHANGED switchVars
  BY <1>1 DEF switchVars, SwitchInv, TypeOK, OnlySelectedPlays, MappedIsSelected, Resolves, EventsAgree
<1>2. CASE SwitchNext
  BY <1>2, MakeEventInv, RunActionOverSwitchInv, RunActionOverCompositionInv, EndInv, SetPropertyInv
  DEF SwitchNext
<1> QED
  BY <1>1, <1>2

LEMMA SwitchInvariant == SwitchSpec => []SwitchInv
BY SwitchInitInv, SwitchStepInv, PTL DEF SwitchSpec

-----------------------------------------------------------------------------

(* The variables keep their types: what the rules select is a component of *)
(* the switch, the default one or none.                                    *)
THEOREM SwitchIsTyped == SwitchSpec => []TypeOK
<1>1. SwitchInv => TypeOK
  BY DEF SwitchInv
<1> QED
  BY <1>1, SwitchInvariant, PTL

(* No component plays next to the one that is selected, however the rules  *)
(* change, but one that was left behind by a stop that could not reach it. *)
THEOREM AlternativesExclude == SwitchSpec => []OnlySelectedPlays
<1>1. SwitchInv => OnlySelectedPlays
  BY DEF SwitchInv
<1> QED
  BY <1>1, SwitchInvariant, PTL

(* The events of the switch map to what is selected, or to nothing.        *)
THEOREM MappingFollowsSelection == SwitchSpec => []MappedIsSelected
<1>1. SwitchInv => MappedIsSelected
  BY DEF SwitchInv
<1> QED
  BY <1>1, SwitchInvariant, PTL

(* The events of the switch are in the states of what they map to, but for *)
(* those that were made late or have missed a transition.                  *)
THEOREM SwitchEventsAgree == SwitchSpec => []EventsAgree
<1>1. SwitchInv => EventsAgree
  BY DEF SwitchInv
<1> QED
  BY <1>1, SwitchInvariant, PTL
=============================================================================
