------------------------------ MODULE Mailbox ------------------------------
(***************************************************************************)
(* What those who post a task to the main loop are promised: every task is *)
(* begun once, by one thread.  Tasks that are begun while nothing else runs *)
(* are begun in the order in which they were posted; one that is begun in  *)
(* the middle of others was posted after them.  Dispatcher implements it.  *)
(***************************************************************************)
EXTENDS Naturals

VARIABLES
    posted, \* how many tasks were posted: they are 1 .. posted
    begun,  \* the tasks that were begun
    running \* what runs: tasks, and 0 for anything else

mailVars == <<posted, begun, running>>

MailInit == posted = 0 /\ begun = {} /\ running = {}

Post == posted' = posted + 1 /\ UNCHANGED <<begun, running>>

Unbegun == (1 .. posted) \ begun

Begin(i) ==
    /\ i \in Unbegun
    /\ running = {} => \A j \in Unbegun : i <= j
    /\ \A k \in running : k < i
    /\ begun' = begun \cup {i}
    /\ running' = running \cup {i}
    /\ UNCHANGED posted

Other == running = {} /\ running' = {0} /\ UNCHANGED <<posted, begun>>

\* What was begun last ends first, and that is what was posted last.
Finish(i) ==
    /\ i \in running /\ \A k \in running : k <= i
    /\ running' = running \ {i}
    /\ UNCHANGED <<posted, begun>>

\* The last thing that something which is not a task does is to post one.
FinishPosting ==
    /\ running = {0} /\ running' = {}
    /\ posted' = posted + 1 /\ UNCHANGED begun

MailNext ==
    \/ Post
    \/ \E i \in Unbegun : Begin(i)
    \/ Other
    \/ \E i \in running : Finish(i)
    \/ FinishPosting

MailSpec == MailInit /\ [][MailNext]_mailVars
=============================================================================
