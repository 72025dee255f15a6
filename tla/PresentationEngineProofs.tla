----------------------- MODULE PresentationEngineProofs -----------------------
(***************************************************************************)
(* What PresentationEngine promises of its formatters, for any number of   *)
(* documents and of keys.                                                  *)
(***************************************************************************)
EXTENDS PresentationEngine, TLAPS, SequenceTheorems

(***************************************************************************)
(* Until the loop has ended the client and the main thread agree on who    *)
(* has the formatter, whatever keys come: the task that stops a document is *)
(* the last in the queue, since the client that enqueued it waits, and the  *)
(* others are for the formatter that is current.                           *)
(***************************************************************************)
Handed(q) == \A i \in DOMAIN q :
    /\ q[i].do = "stop" => i = Len(q) /\ client = "waiting" /\ ~stopped
    /\ q[i].do = "play" => q[i].of = formatter /\ formatter # None

Current ==
    /\ formatter # None => formatter = made /\ phase[formatter] # "deleted" /\ settings
    /\ \A f \in 1..made : phase[f] = "deleted" \/ f = formatter
    /\ client \in {"asking", "parsing", "posting"} => formatter # None
    /\ client = "starting" => formatter = None
    /\ client = "waiting" => (stopped <=> formatter = None)
    /\ stopped => client = "waiting"
    /\ Handed(queue)

(***************************************************************************)
(* A key or an end that comes in time finds a document that nobody is      *)
(* about to replace.                                                       *)
(***************************************************************************)
InTime ==
    /\ ~failed
    /\ mode \in {"leaving", "ended"} => client \in {"idle", "gone"}
    /\ mode = "leaving" => formatter # None
    /\ mode = "ended" => \A f \in 1..made : phase[f] = "deleted"
    /\ mode # "ended" /\ client = "gone" => formatter # None
    /\ mode # "ended" => \A i \in DOMAIN queue : queue[i].do = "exit" => client = "gone"

Bounded ==
    /\ client \in {"asking", "waiting", "starting"} => made < MaxStarts
    /\ \A f \in Formatters : f > made => phase[f] = "none"
    /\ formatter # None => formatter <= made

Inv ==
    /\ TypeOK /\ Bounded
    /\ mode # "ended" => Current
    /\ ~rushed => InTime

-----------------------------------------------------------------------------

LEMMA AppendAt ==
    ASSUME NEW S, NEW s \in Seq(S), NEW e \in S
    PROVE  /\ Len(Append(s, e)) = Len(s) + 1
           /\ \A i \in DOMAIN Append(s, e) :
                 \/ i \in DOMAIN s /\ Append(s, e)[i] = s[i]
                 \/ i = Len(s) + 1 /\ Append(s, e)[i] = e
<1>1. DOMAIN s = 1..Len(s) /\ Len(s) \in Nat
  BY LenProperties
<1>2. Append(s, e) \in Seq(S) /\ Len(Append(s, e)) = Len(s) + 1
  BY AppendProperties
<1>3. DOMAIN Append(s, e) = 1..(Len(s) + 1)
  BY <1>1, <1>2, LenProperties
<1> QED
  BY <1>1, <1>2, <1>3, AppendProperties

LEMMA TailAt ==
    ASSUME NEW S, NEW s \in Seq(S), s # <<>>
    PROVE  /\ Tail(s) \in Seq(S) /\ Len(Tail(s)) = Len(s) - 1
           /\ Head(s) = s[1] /\ 1 \in DOMAIN s /\ Head(s) \in S
           /\ \A i \in DOMAIN Tail(s) : i + 1 \in DOMAIN s /\ Tail(s)[i] = s[i + 1]
OBVIOUS

LEMMA InitInv == Init => Inv
<1> SUFFICES ASSUME Init PROVE Inv
  OBVIOUS
<1> USE EngineAssumption DEF Init
<1>1. TypeOK
  <2>1. queue \in Seq(Task)
    BY EmptySeq
  <2>2. 0 \in 0..MaxStarts /\ 0 \in 0..MaxKeys
    OBVIOUS
  <2> QED
    BY <2>1, <2>2 DEF TypeOK
<1>2. Bounded
  BY DEF Bounded, Formatters
<1>3. Current
  BY DEF Current, Handed
<1>4. InTime
  BY DEF InTime
<1> QED
  BY <1>1, <1>2, <1>3, <1>4 DEF Inv

\* Every variable but those of an action is as it was: the parts of the invariant that
\* only speak of the others go on.
LEMMA StartDocumentInv == Inv /\ StartDocument => Inv'
<1> SUFFICES ASSUME Inv, StartDocument PROVE Inv'
  OBVIOUS
<1> USE EngineAssumption DEF Inv, StartDocument, documentVars
<1>1. TypeOK'
  BY DEF TypeOK
<1>2. Bounded'
  BY DEF Bounded
<1>3. mode # "ended" => Current'
  BY DEF Current, Handed, TypeOK
<1>4. ~rushed' => InTime'
  BY DEF InTime, TypeOK
<1> QED
  BY <1>1, <1>2, <1>3, <1>4

LEMMA AskToStopInv == Inv /\ AskToStop => Inv'
<1> SUFFICES ASSUME Inv, AskToStop PROVE Inv'
  OBVIOUS
<1> USE EngineAssumption DEF Inv, AskToStop, Enqueue, documentVars
<1> DEFINE task == [do |-> "stop", of |-> None]
<1>1. queue \in Seq(Task) /\ task \in Task
  BY DEF TypeOK, Task
<1>2. TypeOK'
  BY <1>1, AppendProperties DEF TypeOK
<1>3. Bounded'
  BY DEF Bounded
<1>4. ASSUME mode # "ended" PROVE Current'
  <2>1. Current /\ client # "waiting" /\ ~stopped
    BY <1>4 DEF Current
  <2>2. Handed(queue)'
    <3> SUFFICES ASSUME NEW i \in DOMAIN queue'
                 PROVE  /\ queue'[i].do = "stop" => i = Len(queue') /\ client' = "waiting" /\ ~stopped'
                        /\ queue'[i].do = "play" => queue'[i].of = formatter' /\ formatter' # None
      BY DEF Handed
    <3>1. CASE i \in DOMAIN queue /\ queue'[i] = queue[i]
      BY <2>1, <3>1 DEF Current, Handed
    <3>2. CASE i = Len(queue) + 1 /\ queue'[i] = task
      BY <1>1, <2>1, <3>2, AppendAt
    <3> QED
      BY <1>1, <3>1, <3>2, AppendAt
  <2> QED
    BY <2>1, <2>2 DEF Current
<1>5. ~rushed' => InTime'
  BY DEF InTime, TypeOK
<1> QED
  BY <1>2, <1>3, <1>4, <1>5

LEMMA AwaitInv == Inv /\ Await => Inv'
<1> SUFFICES ASSUME Inv, Await PROVE Inv'
  OBVIOUS
<1> USE EngineAssumption DEF Inv, Await
<1>1. TypeOK'
  BY DEF TypeOK
<1>2. Bounded'
  BY DEF Bounded
<1>3. mode # "ended" => Current'
  BY DEF Current, Handed, TypeOK
<1>4. ~rushed' => InTime'
  BY DEF InTime, TypeOK
<1> QED
  BY <1>1, <1>2, <1>3, <1>4

LEMMA InitFormatterInv == Inv /\ InitFormatter => Inv'
<1> SUFFICES ASSUME Inv, InitFormatter PROVE Inv'
  OBVIOUS
<1> USE EngineAssumption DEF Inv, InitFormatter
<1>1. made' = made + 1 /\ made \in Nat /\ made' \in Formatters /\ formatter' = made'
  BY DEF TypeOK, Bounded, Formatters
<1>2. /\ phase'[made'] = "new"
      /\ \A f \in Formatters : f # made' => phase'[f] = phase[f]
  BY <1>1 DEF TypeOK
<1>3. TypeOK'
  BY <1>1 DEF TypeOK, Formatters
<1>4. Bounded'
  BY <1>1, <1>2 DEF Bounded, Formatters
<1>5. mode # "ended" => Current'
  BY <1>1, <1>2 DEF Current, Handed, Formatters, TypeOK
<1>6. ~rushed' => InTime'
  BY <1>1 DEF InTime, TypeOK
<1> QED
  BY <1>3, <1>4, <1>5, <1>6

LEMMA ParseInv == Inv /\ Parse => Inv'
<1> SUFFICES ASSUME Inv, Parse PROVE Inv'
  OBVIOUS
<1> USE EngineAssumption DEF Inv, Parse
<1>1. CASE formatter = None
  <2>1. mode = "ended" /\ rushed
    BY <1>1 DEF Current, InTime, TypeOK
  <2> QED
    BY <1>1, <2>1 DEF TypeOK, Bounded
<1>2. CASE formatter # None
  <2>1. formatter \in Formatters /\ formatter \in Nat
    BY <1>2 DEF TypeOK, Formatters
  <2>2. /\ phase'[formatter] \in {"ready", "refused"}
        /\ \A f \in Formatters : f # formatter => phase'[f] = phase[f]
    BY <1>2, <2>1 DEF TypeOK
  <2>3. TypeOK'
    BY <1>2, <2>1 DEF TypeOK
  <2>4. made \in Nat /\ formatter <= made
    BY <1>2 DEF Bounded, TypeOK
  <2>5. Bounded'
    BY <1>2, <2>1, <2>2, <2>4 DEF Bounded, Formatters
  <2>6. mode # "ended" => Current'
    BY <1>2, <2>1, <2>2, <2>4 DEF Current, Handed, Formatters, TypeOK
  <2>7. ~rushed' => InTime'
    BY <1>2, <2>1 DEF InTime, TypeOK
  <2> QED
    BY <2>3, <2>5, <2>6, <2>7
<1> QED
  BY <1>1, <1>2

LEMMA PostPlayInv == Inv /\ PostPlay => Inv'
<1> SUFFICES ASSUME Inv, PostPlay PROVE Inv'
  OBVIOUS
<1> USE EngineAssumption DEF Inv, PostPlay, Enqueue, documentVars
<1> DEFINE task == [do |-> "play", of |-> formatter]
<1>1. queue \in Seq(Task) /\ task \in Task
  BY DEF TypeOK, Task
<1>2. TypeOK'
  BY <1>1, AppendProperties DEF TypeOK
<1>3. Bounded'
  BY DEF Bounded
<1>4. ASSUME mode # "ended" PROVE Current'
  <2>1. Current /\ client # "waiting" /\ ~stopped /\ formatter # None
    BY <1>4 DEF Current
  <2>2. Handed(queue)'
    <3> SUFFICES ASSUME NEW i \in DOMAIN queue'
                 PROVE  /\ queue'[i].do = "stop" => i = Len(queue') /\ client' = "waiting" /\ ~stopped'
                        /\ queue'[i].do = "play" => queue'[i].of = formatter' /\ formatter' # None
      BY DEF Handed
    <3>1. CASE i \in DOMAIN queue /\ queue'[i] = queue[i]
      BY <2>1, <3>1 DEF Current, Handed
    <3>2. CASE queue'[i] = task
      BY <2>1, <3>2
    <3> QED
      BY <1>1, <3>1, <3>2, AppendAt
  <2> QED
    BY <2>1, <2>2 DEF Current
<1>5. ~rushed' => InTime'
  BY DEF InTime, TypeOK
<1> QED
  BY <1>2, <1>3, <1>4, <1>5

LEMMA ExitInv == Inv /\ Exit => Inv'
<1> SUFFICES ASSUME Inv, Exit PROVE Inv'
  OBVIOUS
<1> USE EngineAssumption DEF Inv, Exit, Enqueue, documentVars
<1> DEFINE task == [do |-> "exit", of |-> None]
<1>1. queue \in Seq(Task) /\ task \in Task
  BY DEF TypeOK, Task
<1>2. TypeOK'
  BY <1>1, AppendProperties DEF TypeOK
<1>3. Bounded'
  BY DEF Bounded
<1>4. ASSUME mode # "ended" PROVE Current'
  <2>1. Current /\ client # "waiting" /\ ~stopped
    BY <1>4 DEF Current
  <2>2. Handed(queue)'
    <3> SUFFICES ASSUME NEW i \in DOMAIN queue'
                 PROVE  /\ queue'[i].do = "stop" => i = Len(queue') /\ client' = "waiting" /\ ~stopped'
                        /\ queue'[i].do = "play" => queue'[i].of = formatter' /\ formatter' # None
      BY DEF Handed
    <3>1. CASE i \in DOMAIN queue /\ queue'[i] = queue[i]
      BY <2>1, <3>1 DEF Current, Handed
    <3>2. CASE queue'[i] = task
      BY <2>1, <3>2
    <3> QED
      BY <1>1, <3>1, <3>2, AppendAt
  <2> QED
    BY <2>1, <2>2 DEF Current
<1>5. ~rushed' => InTime'
  BY DEF InTime, TypeOK, Settled
<1> QED
  BY <1>2, <1>3, <1>4, <1>5

LEMMA RunInv == Inv /\ Run => Inv'
<1> SUFFICES ASSUME Inv, Run PROVE Inv'
  OBVIOUS
<1> USE EngineAssumption DEF Inv, Run, documentVars
<1>1. TypeOK'
  BY DEF TypeOK
<1>2. Bounded'
  BY DEF Bounded
<1>3. Current'
  BY DEF Current, Handed
<1>4. ~rushed' => InTime'
  BY DEF InTime
<1> QED
  BY <1>1, <1>2, <1>3, <1>4

\* What the end of a document, by the client or by run(), makes of the phases.
LEMMA DeletedAt ==
    ASSUME TypeOK, formatter # None
    PROVE  /\ formatter \in Formatters
           /\ DeleteDocument \in [Formatters ->
                {"none", "new", "refused", "ready", "playing", "paused", "over", "deleted"}]
           /\ DeleteDocument[formatter] = "deleted"
           /\ \A f \in Formatters : f # formatter => DeleteDocument[f] = phase[f]
BY DEF TypeOK, DeleteDocument

LEMMA RunTaskInv == Inv /\ RunTask => Inv'
<1> SUFFICES ASSUME Inv, RunTask PROVE Inv'
  OBVIOUS
<1> USE EngineAssumption DEF Inv
<1>1. /\ queue \in Seq(Task) /\ queue # <<>> /\ queue' = Tail(queue) /\ ~failed
      /\ mode \in {"running", "leaving"} /\ Current
      /\ UNCHANGED <<client, made, keys, rushed>>
  BY DEF RunTask, TypeOK
<1>2. /\ queue' \in Seq(Task) /\ Len(queue') = Len(queue) - 1 /\ Len(queue) \in Nat
      /\ Head(queue) = queue[1] /\ 1 \in DOMAIN queue /\ Head(queue) \in Task
      /\ \A i \in DOMAIN queue' : i \in Nat /\ i + 1 \in DOMAIN queue /\ queue'[i] = queue[i + 1]
  BY <1>1, TailAt
<1>3. CASE Head(queue).do = "stop"
  <2>1. Len(queue) = 1 /\ client = "waiting" /\ ~stopped /\ formatter # None
    BY <1>1, <1>2, <1>3 DEF Current, Handed
  <2>2. rushed \/ mode = "running"
    BY <1>1, <2>1 DEF InTime
  <2>3. /\ phase' = DeleteDocument /\ formatter' = None /\ ~settings' /\ settings' \in BOOLEAN /\ stopped'
        /\ stopped' \in BOOLEAN /\ UNCHANGED <<paused, failed, mode>>
    BY <1>3, <2>1 DEF RunTask, StopDocument
  <2>4. DOMAIN queue' = {}
    BY <1>1, <1>2, <2>1
  <2>5. TypeOK'
    BY <1>1, <1>2, <2>1, <2>3, DeletedAt DEF TypeOK
  <2>6. Bounded'
    BY <1>1, <2>1, <2>3, DeletedAt DEF Bounded, TypeOK, Formatters
  <2>7. Current'
    BY <1>1, <2>1, <2>3, <2>4, DeletedAt DEF Current, Handed, TypeOK, Formatters
  <2>8. ~rushed' => InTime'
    BY <1>1, <2>1, <2>2, <2>3, <2>4 DEF InTime
  <2> QED
    BY <2>5, <2>6, <2>7, <2>8
<1>4. CASE Head(queue).do = "play"
  <2>1. Head(queue).of = formatter /\ formatter # None /\ phase[formatter] # "deleted"
    BY <1>1, <1>2, <1>4 DEF Current, Handed
  <2>2. /\ \E entered \in BOOLEAN : phase' = PlayDocument(formatter, entered)
        /\ UNCHANGED <<formatter, settings, stopped, paused, failed, mode>>
    BY <1>4, <2>1 DEF RunTask, Play
  <2>3. formatter \in Formatters
    BY <2>1 DEF TypeOK
  <2>4. /\ phase'[formatter] \in {"playing", "refused"}
        /\ \A f \in Formatters : f # formatter => phase'[f] = phase[f]
    BY <2>2, <2>3 DEF TypeOK, PlayDocument
  <2>5. TypeOK'
    BY <1>1, <1>2, <2>2, <2>3 DEF TypeOK, PlayDocument
  <2>6. Bounded'
    BY <1>1, <2>1, <2>2, <2>3, <2>4 DEF Bounded, TypeOK, Formatters
  <2>7. Handed(queue)'
    BY <1>1, <1>2, <2>2 DEF Current, Handed
  <2>8. Current'
    BY <1>1, <2>1, <2>2, <2>3, <2>4, <2>7 DEF Current, TypeOK, Formatters
  <2>9. ~rushed' => InTime'
    BY <1>1, <1>2, <2>2 DEF InTime
  <2> QED
    BY <2>5, <2>6, <2>8, <2>9
<1>5. CASE Head(queue).do = "exit"
  <2>1. mode' = "leaving" /\ UNCHANGED failed /\ UNCHANGED documentVars
    BY <1>5 DEF RunTask
  <2> USE DEF documentVars
  <2>2. TypeOK'
    BY <1>1, <1>2, <2>1 DEF TypeOK
  <2>3. Bounded'
    BY <1>1, <2>1 DEF Bounded
  <2>4. Handed(queue)'
    BY <1>1, <1>2, <2>1 DEF Current, Handed
  <2>5. Current'
    BY <1>1, <2>1, <2>4 DEF Current
  <2>6. ~rushed' => InTime'
    BY <1>1, <1>2, <1>5, <2>1 DEF InTime
  <2> QED
    BY <2>2, <2>3, <2>5, <2>6
<1> QED
  BY <1>2, <1>3, <1>4, <1>5 DEF Task

LEMMA LeaveInv == Inv /\ Leave => Inv'
<1> SUFFICES ASSUME Inv, Leave PROVE Inv'
  OBVIOUS
<1> USE EngineAssumption DEF Inv
<1>1. /\ mode = "leaving" /\ mode' = "ended" /\ ~failed /\ Current
      /\ UNCHANGED <<queue, client, made, keys, rushed>>
  BY DEF Leave
<1>2. CASE formatter = None
  <2>1. rushed /\ failed' /\ failed' \in BOOLEAN /\ UNCHANGED documentVars
    BY <1>1, <1>2 DEF Leave, StopDocument, InTime
  <2> QED
    BY <1>1, <2>1 DEF TypeOK, Bounded, documentVars
<1>3. CASE formatter # None
  <2>1. /\ phase' = DeleteDocument /\ formatter' = None /\ settings' \in BOOLEAN
        /\ stopped' \in BOOLEAN /\ UNCHANGED <<paused, failed>>
    BY <1>3 DEF Leave, StopDocument
  <2>2. TypeOK'
    BY <1>1, <1>3, <2>1, DeletedAt DEF TypeOK
  <2>3. Bounded'
    BY <1>1, <1>3, <2>1, DeletedAt DEF Bounded, TypeOK, Formatters
  <2>4. ~rushed' => InTime'
    BY <1>1, <1>3, <2>1, DeletedAt DEF InTime, Current, TypeOK, Formatters
  <2> QED
    BY <1>1, <2>2, <2>3, <2>4
<1> QED
  BY <1>2, <1>3

LEMMA ExitKeyInv == Inv /\ ExitKey => Inv'
<1> SUFFICES ASSUME Inv, ExitKey PROVE Inv'
  OBVIOUS
<1> USE EngineAssumption DEF Inv, ExitKey, Pressed, documentVars
<1>1. TypeOK'
  BY DEF TypeOK
<1>2. Bounded'
  BY DEF Bounded
<1>3. Current'
  BY DEF Current, Handed
<1>4. ~rushed' => InTime'
  BY DEF InTime, Settled
<1> QED
  BY <1>1, <1>2, <1>3, <1>4

LEMMA PauseKeyInv == Inv /\ PauseKey => Inv'
<1> SUFFICES ASSUME Inv, PauseKey PROVE Inv'
  OBVIOUS
<1> USE EngineAssumption DEF Inv
<1>1. /\ mode = "running" /\ keys < MaxKeys /\ keys' = keys + 1 /\ ~failed /\ Current
      /\ rushed' = (rushed \/ ~Settled)
      /\ UNCHANGED <<queue, client, made, mode, formatter, settings, stopped>>
  BY DEF PauseKey, Pressed
<1>2. CASE formatter = None
  <2>1. rushed' /\ rushed' \in BOOLEAN /\ failed' \in BOOLEAN /\ UNCHANGED <<phase, paused>>
    BY <1>1, <1>2 DEF PauseKey, Settled
  <2>2. TypeOK'
    BY <1>1, <2>1 DEF TypeOK
  <2> QED
    BY <1>1, <2>1, <2>2 DEF Bounded, Current, Handed
<1>3. CASE formatter # None
  <2>1. /\ phase' = IF paused THEN PauseDocument ELSE ResumeDocument
        /\ paused' = ~paused /\ UNCHANGED failed
    BY <1>3 DEF PauseKey
  <2>2. formatter \in Formatters
    BY <1>3 DEF TypeOK
  <2>3. /\ paused => phase'[formatter] = IF phase[formatter] = "playing" THEN "paused" ELSE phase[formatter]
        /\ ~paused => phase'[formatter] = IF phase[formatter] = "paused" THEN "playing" ELSE phase[formatter]
        /\ \A f \in Formatters : f # formatter => phase'[f] = phase[f]
    BY <2>1, <2>2 DEF TypeOK, PauseDocument, ResumeDocument
  <2>4. /\ TypeOK'
    BY <1>1, <2>1, <2>2 DEF TypeOK, PauseDocument, ResumeDocument
  <2>5. formatter <= made /\ formatter \in Nat /\ made \in Nat
    BY <1>3, <2>2 DEF Bounded, TypeOK, Formatters
  <2>6. Bounded'
    BY <1>1, <2>3, <2>5 DEF Bounded, Formatters
  <2>7. Current'
    BY <1>1, <2>2, <2>3, <2>5 DEF Current, Handed, Formatters, TypeOK
  <2>8. ~rushed' => InTime'
    BY <1>1, <2>1 DEF InTime
  <2> QED
    BY <2>4, <2>6, <2>7, <2>8
<1> QED
  BY <1>2, <1>3

LEMMA CompleteInv == Inv /\ Complete => Inv'
<1> SUFFICES ASSUME Inv, Complete PROVE Inv'
  OBVIOUS
<1> USE EngineAssumption DEF Inv, Complete
<1>1. formatter \in Formatters /\ formatter <= made /\ formatter \in Nat /\ made \in Nat
  BY DEF TypeOK, Bounded, Formatters
<1>2. /\ phase'[formatter] = "over"
      /\ \A f \in Formatters : f # formatter => phase'[f] = phase[f]
  BY <1>1 DEF TypeOK
<1>3. TypeOK'
  BY <1>1 DEF TypeOK
<1>4. Bounded'
  BY <1>1, <1>2 DEF Bounded, Formatters
<1>5. Current'
  BY <1>1, <1>2 DEF Current, Handed, Formatters, TypeOK
<1>6. ~rushed' => InTime'
  BY DEF InTime
<1> QED
  BY <1>3, <1>4, <1>5, <1>6

LEMMA StepInv == Inv /\ [Next]_vars => Inv'
<1> SUFFICES ASSUME Inv, [Next]_vars PROVE Inv'
  OBVIOUS
<1>1. CASE UNCHANGED vars
  BY <1>1 DEF vars, Inv, TypeOK, Bounded, Current, Handed, InTime
<1>2. CASE Next
  BY <1>2, StartDocumentInv, AskToStopInv, AwaitInv, InitFormatterInv, ParseInv, PostPlayInv, ExitInv,
     RunInv, RunTaskInv, LeaveInv, ExitKeyInv, PauseKeyInv, CompleteInv DEF Next, InStart
<1> QED
  BY <1>1, <1>2

LEMMA InvHolds == Spec => []Inv
BY InitInv, StepInv, PTL DEF Spec

-----------------------------------------------------------------------------

(* The variables keep their types: the queue holds tasks for formatters    *)
(* that exist, and no more formatters are made than documents started.     *)
THEOREM TypeCorrect == Spec => []TypeOK
<1>1. Inv => TypeOK
  BY DEF Inv
<1> QED
  BY <1>1, InvHolds, PTL

(* Nobody uses a formatter that is deleted or not made yet, as long as     *)
(* keys and ends come while a document is there and none is being started. *)
THEOREM NobodyUsesADeletedFormatter == Spec => []NothingFails
<1>1. Inv => NothingFails
  BY DEF Inv, InTime, NothingFails
<1> QED
  BY <1>1, InvHolds, PTL

(* The formatter and the settings that the engine notes are those of the   *)
(* documents.                                                              *)
THEOREM NotesAgree == Spec => []EngineAgrees
<1>1. Inv => EngineAgrees
  <2> SUFFICES ASSUME Inv PROVE EngineAgrees
    OBVIOUS
  <2>1. ASSUME ~rushed, NEW f \in 1..made
        PROVE  /\ phase[f] = "deleted" \/ f = formatter
               /\ phase[f] \in {"new", "ready", "playing", "paused"} => settings
    <3>1. CASE mode = "ended"
      BY <2>1, <3>1 DEF Inv, InTime
    <3>2. CASE mode # "ended"
      BY <2>1, <3>2, EngineAssumption DEF Inv, Current, TypeOK, Formatters
    <3> QED
      BY <3>1, <3>2
  <2> QED
    BY <2>1 DEF EngineAgrees
<1> QED
  BY <1>1, InvHolds, PTL

(* The note that a document was stopped is there for the client that waits *)
(* for it, and for nobody else.                                            *)
THEOREM StopsAreAwaited == Spec => []StopIsForTheWaiter
<1>1. Inv => StopIsForTheWaiter
  BY DEF Inv, Current, StopIsForTheWaiter
<1> QED
  BY <1>1, InvHolds, PTL
=============================================================================
