------------------------- MODULE PresentationEngine -------------------------
(***************************************************************************)
(* The documents that are played, one after the other: the presentation    *)
(* engine manager, the formatter it makes for each document, and the life  *)
(* of the document in the scheduler.                                       *)
(*                                                                         *)
(* A client (the program itself, or the thread that drives it) starts      *)
(* documents.  The main thread runs the loop: the tasks that were enqueued, *)
(* in order, and the keys of the viewer at any time.  Only one condition   *)
(* variable stands between the two: a client that finds a document waits   *)
(* until the main thread has stopped it, and _formatter has no lock.       *)
(***************************************************************************)
EXTENDS Naturals, Sequences, FiniteSets

CONSTANTS
    None,      \* no formatter
    MaxStarts, \* bound: documents that are started
    MaxKeys    \* bound: keys that are pressed

ASSUME EngineAssumption == MaxStarts \in Nat /\ MaxKeys \in Nat /\ None \notin Nat

\* The formatters, in the order in which they are made.
Formatters == 1..MaxStarts

VARIABLES
    mode,      \* "before" run(), "running", "leaving" after exitLoop(), "ended"
    queue,     \* the tasks of the loop
    client,    \* where in startDocument() the client is
    formatter, \* _formatter
    phase,     \* what has become of the document of each formatter
    settings,  \* settings::init() was called last, not settings::fin()
    stopped,   \* _stopped
    paused,    \* _paused
    made,      \* how many formatters were made
    keys,      \* how many keys were pressed
    rushed,    \* history: a key, or the end, came while there was no document to take it
    failed     \* a formatter that is not there was used

vars == <<mode, queue, client, formatter, phase, settings, stopped, paused, made, keys, rushed, failed>>

documentVars == <<formatter, phase, settings, stopped, paused>>

Task == [do : {"play"}, of : Formatters \cup {None}] \cup [do : {"stop", "exit"}, of : {None}]

Enqueue(do, f) == queue' = Append(queue, [do |-> do, of |-> f])

\* A document is there, and no other is being started.
Settled == formatter # None /\ client \in {"idle", "gone"}

-----------------------------------------------------------------------------
(* The client: startDocument()                                             *)

\* The document that is played is to be stopped first, by the main thread.
StartDocument ==
    /\ client = "idle" /\ made < MaxStarts
    /\ client' = IF formatter # None THEN "asking" ELSE "starting"
    /\ rushed' = (rushed \/ mode \in {"leaving", "ended"})
    /\ UNCHANGED <<mode, queue, made, keys, failed>> /\ UNCHANGED documentVars

AskToStop ==
    /\ client = "asking"
    /\ Enqueue("stop", None)
    /\ client' = "waiting"
    /\ UNCHANGED <<mode, made, keys, rushed, failed>> /\ UNCHANGED documentVars

\* A mutant: the client does not wait.
AwaitNothing ==
    /\ client = "waiting"
    /\ client' = "starting" /\ stopped' = FALSE
    /\ UNCHANGED <<mode, queue, formatter, phase, settings, paused, made, keys, rushed, failed>>

\* A mutant: _stopped is not reset.
AwaitForGood ==
    /\ client = "waiting" /\ stopped
    /\ client' = "starting"
    /\ UNCHANGED <<mode, queue, formatter, phase, settings, stopped, paused, made, keys, rushed, failed>>

Await ==
    /\ client = "waiting" /\ stopped
    /\ client' = "starting" /\ stopped' = FALSE
    /\ UNCHANGED <<mode, queue, formatter, phase, settings, paused, made, keys, rushed, failed>>

\* settings::init() and initFormatter().
InitFormatter ==
    /\ client = "starting"
    /\ made' = made + 1
    /\ formatter' = made' /\ phase' = [phase EXCEPT ![made'] = "new"]
    /\ settings' = TRUE
    /\ client' = "parsing"
    /\ UNCHANGED <<mode, queue, stopped, paused, keys, rushed, failed>>

\* FormatterMediator::parseDocument() takes its time.
Parse ==
    /\ client = "parsing"
    /\ IF formatter = None
       THEN failed' = TRUE /\ UNCHANGED <<client, phase>>
       ELSE /\ \E parsed \in BOOLEAN :
                  /\ phase' = [phase EXCEPT ![formatter] = IF parsed THEN "ready" ELSE "refused"]
                  /\ client' = IF parsed THEN "posting" ELSE "idle"
            /\ UNCHANGED failed
    /\ UNCHANGED <<mode, queue, formatter, settings, stopped, paused, made, keys, rushed>>

PostPlay ==
    /\ client = "posting"
    /\ Enqueue("play", formatter)
    /\ client' = "idle"
    /\ UNCHANGED <<mode, made, keys, rushed, failed>> /\ UNCHANGED documentVars

\* The client has done what it came for: System::exit() from its thread.
Exit ==
    /\ client = "idle"
    /\ Enqueue("exit", None)
    /\ client' = "gone"
    /\ rushed' = (rushed \/ ~Settled)
    /\ UNCHANGED <<mode, made, keys, failed>> /\ UNCHANGED documentVars

-----------------------------------------------------------------------------
(* The main thread                                                         *)

\* The scheduler pauses and resumes a document only when it was started.
PauseDocument == [phase EXCEPT ![formatter] = IF @ = "playing" THEN "paused" ELSE @]
ResumeDocument == [phase EXCEPT ![formatter] = IF @ = "paused" THEN "playing" ELSE @]

\* FormatterMediator::stop() and its end: the event of the document is stopped without
\* the scheduler hearing of it, and everything of the document is deleted.
DeleteDocument == [phase EXCEPT ![formatter] = "deleted"]

\* compileDocument() may find nothing to enter the document by; else it is started.
PlayDocument(f, entered) == [phase EXCEPT ![f] = IF entered THEN "playing" ELSE "refused"]

Run ==
    /\ mode = "before"
    /\ mode' = "running"
    /\ UNCHANGED <<queue, client, made, keys, rushed, failed>> /\ UNCHANGED documentVars

\* A mutant: the client that waits is not told.
StopDocumentSilently ==
    IF formatter = None
    THEN failed' = TRUE /\ UNCHANGED documentVars
    ELSE /\ phase' = DeleteDocument
         /\ formatter' = None
         /\ settings' = FALSE
         /\ UNCHANGED <<stopped, paused, failed>>

\* stopDocument(): the document, the formatter and the settings go.
StopDocument ==
    IF formatter = None
    THEN failed' = TRUE /\ UNCHANGED documentVars
    ELSE /\ phase' = DeleteDocument
         /\ formatter' = None
         /\ settings' = FALSE
         /\ stopped' = TRUE
         /\ UNCHANGED <<paused, failed>>

\* FormatterMediator::play(), enqueued with the formatter it is for.
Play(f) ==
    IF f = None \/ phase[f] = "deleted"
    THEN failed' = TRUE /\ UNCHANGED documentVars
    ELSE /\ \E entered \in BOOLEAN : phase' = PlayDocument(f, entered)
         /\ UNCHANGED <<formatter, settings, stopped, paused, failed>>

RunTask ==
    /\ mode \in {"running", "leaving"} /\ queue # <<>> /\ ~failed
    /\ queue' = Tail(queue)
    /\ CASE Head(queue).do = "stop" -> StopDocument /\ UNCHANGED mode
         [] Head(queue).do = "play" -> Play(Head(queue).of) /\ UNCHANGED mode
         [] Head(queue).do = "exit" -> mode' = "leaving" /\ UNCHANGED failed /\ UNCHANGED documentVars
    /\ UNCHANGED <<client, made, keys, rushed>>

\* The loop has ended; run() stops the document.
Leave ==
    /\ mode = "leaving" /\ ~failed
    /\ StopDocument
    /\ mode' = "ended"
    /\ UNCHANGED <<queue, client, made, keys, rushed>>

Pressed ==
    /\ mode = "running" /\ ~failed /\ keys < MaxKeys
    /\ keys' = keys + 1
    /\ rushed' = (rushed \/ ~Settled)
    /\ UNCHANGED <<queue, client, made>>

\* System::exit(), which posts the end of the loop to the loop: it is taken here to come
\* before the tasks in the queue, which are run all the same while the loop leaves.
ExitKey ==
    /\ Pressed
    /\ mode' = "leaving"
    /\ UNCHANGED failed /\ UNCHANGED documentVars

\* The first key finds _paused unset and resumes.  Nothing resets the flag: a document
\* starts with what the keys pressed in the one before have made of it.
PauseKey ==
    /\ Pressed
    /\ IF formatter = None
       THEN failed' = TRUE /\ UNCHANGED <<phase, paused>>
       ELSE /\ phase' = IF paused THEN PauseDocument ELSE ResumeDocument
            /\ paused' = ~paused
            /\ UNCHANGED failed
    /\ UNCHANGED <<mode, formatter, settings, stopped>>

\* The body of the document comes to its end: presentationCompleted().  The scheduler
\* hears of it only from a body that has a main event, a media object: EventManager calls
\* nobody for a composition, and such a document goes on until it is stopped.
Complete ==
    /\ mode \in {"running", "leaving"} /\ ~failed
    /\ formatter # None /\ phase[formatter] = "playing"
    /\ phase' = [phase EXCEPT ![formatter] = "over"]
    /\ UNCHANGED <<mode, queue, client, formatter, settings, stopped, paused, made, keys, rushed, failed>>

Init ==
    /\ mode = "before" /\ queue = <<>> /\ client = "idle"
    /\ formatter = None /\ phase = [f \in Formatters |-> "none"]
    /\ settings = FALSE /\ stopped = FALSE /\ paused = FALSE
    /\ made = 0 /\ keys = 0 /\ rushed = FALSE /\ failed = FALSE

InStart == AskToStop \/ Await \/ InitFormatter \/ Parse \/ PostPlay

Next == StartDocument \/ InStart \/ Exit \/ Run \/ RunTask \/ Leave \/ ExitKey \/ PauseKey \/ Complete

\* run() is called, its loop takes what is enqueued and ends when it was told to, and
\* the client goes on in startDocument() when it can.
Spec ==
    /\ Init /\ [][Next]_vars
    /\ WF_vars(Run) /\ WF_vars(RunTask) /\ WF_vars(Leave) /\ WF_vars(InStart)

-----------------------------------------------------------------------------

TypeOK ==
    /\ mode \in {"before", "running", "leaving", "ended"}
    /\ queue \in Seq(Task)
    /\ client \in {"idle", "asking", "waiting", "starting", "parsing", "posting", "gone"}
    /\ formatter \in Formatters \cup {None}
    /\ phase \in [Formatters -> {"none", "new", "refused", "ready", "playing", "paused", "over", "deleted"}]
    /\ settings \in BOOLEAN /\ stopped \in BOOLEAN /\ paused \in BOOLEAN
    /\ made \in 0..MaxStarts /\ keys \in 0..MaxKeys
    /\ rushed \in BOOLEAN /\ failed \in BOOLEAN

\* Though nothing guards _formatter: as long as no key and no end come while there is no
\* document, or while one is being started, nobody uses a formatter that is deleted or
\* not made yet, neither the client, nor a task that was enqueued for it, nor run().
NothingFails == failed => rushed

\* What the engine notes agrees with the documents.  No formatter is left behind with
\* its document still playing: those that were made are deleted, but for the one that is
\* current; its document finds its variables, which the end of the one before removed.
EngineAgrees ==
    ~rushed => \A f \in 1..made :
        /\ phase[f] = "deleted" \/ f = formatter
        /\ phase[f] \in {"new", "ready", "playing", "paused"} => settings

\* What the main thread notes when it stops a document is for the client that waits
\* for it, and is not left for a later one, which would not wait.
StopIsForTheWaiter == ~rushed /\ stopped => client = "waiting" \/ mode = "ended"

\* A client that waits for the document before its own does not wait for ever, even
\* when the loop ends at that moment and does not take its task.
StartsReturn == (client = "waiting" /\ mode # "ended") ~> (client # "waiting" \/ failed)

=============================================================================
