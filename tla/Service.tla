------------------------------ MODULE Service ------------------------------
(***************************************************************************)
(* What run_server promises its clients, whatever their requests are and   *)
(* however they send them: they are attended to one after the other, in    *)
(* the order in which they came, each of them once; and as long as clients *)
(* either send on or stop, every one of them is done with in the end.      *)
(***************************************************************************)
EXTENDS Sequences

CONSTANT Client

VARIABLES
    queue,  \* the clients that have come and are not done with
    done    \* those that are

Init ==
    /\ queue = <<>>
    /\ done = {}

Come(c) ==
    /\ c \notin done
    /\ \A n \in DOMAIN queue : queue[n] # c
    /\ queue' = Append(queue, c)
    /\ UNCHANGED done

\* The first in the queue is done with, answered or not.
Leave ==
    /\ queue # <<>>
    /\ done' = done \cup {Head(queue)}
    /\ queue' = Tail(queue)

\* The server ends.
Cease ==
    /\ queue # <<>>
    /\ done' = done \cup {queue[n] : n \in DOMAIN queue}
    /\ queue' = <<>>

Next == Leave \/ Cease \/ \E c \in Client : Come(c)

vars == <<queue, done>>

Safety == Init /\ [][Next]_vars

Spec == Safety /\ WF_vars(Leave)
=============================================================================
