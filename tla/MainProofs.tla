----------------------------- MODULE MainProofs -----------------------------
(***************************************************************************)
(* For any number of processes, clients, requests and flags: the server's  *)
(* queue is Service.tla's, its answers are right, the files of several     *)
(* runs are in order, and flags mean what the HTTP interface's fields do.  *)
(* The first rests on what the two halves of the queue hold, the second on *)
(* what read_request has in hand when it returns, the third on the age of  *)
(* each file, and the last on an induction over the flags.                 *)
(***************************************************************************)
EXTENDS MainProperties, SequenceTheorems, WellFoundedInduction, TLAPS

-----------------------------------------------------------------------------
(* The queue. *)

InBacklog(c) == \E n \in 1 .. Len(backlog) : backlog[n] = c

\* A client is open as long as it waits or is handled, in one place at a time.
QueueInv ==
    /\ backlog \in Seq(Client)
    /\ handled = {} \/ \E c \in Client : handled = {c}
    /\ DOMAIN phase = Client
    /\ \A m, n \in 1 .. Len(backlog) : backlog[m] = backlog[n] => m = n
    /\ \A n \in 1 .. Len(backlog) : backlog[n] \notin handled
    /\ \A c \in Client : phase[c] \in {"none", "open", "closed"}
    /\ \A c \in Client : phase[c] = "open" <=> c \in handled \/ InBacklog(c)

Closed == {c \in Client : phase[c] = "closed"}

(* The queue of Service.tla is who is handled and then the backlog.        *)
LEMMA WaitingIs ==
    ASSUME QueueInv
    PROVE  /\ Waiting \in Seq(Client)
           /\ handled = {} => Waiting = backlog
           /\ \A c \in handled : /\ Waiting = <<c>> \o backlog
                                 /\ Waiting # <<>>
                                 /\ Head(Waiting) = c
                                 /\ Tail(Waiting) = backlog
           /\ {Waiting[n] : n \in DOMAIN Waiting} = {c \in Client : phase[c] = "open"}
<1>1. CASE handled = {}
  <2>1. Waiting = backlog
    BY <1>1 DEF Waiting
  <2>2. DOMAIN backlog = 1 .. Len(backlog) /\ \A n \in 1 .. Len(backlog) : backlog[n] \in Client
    BY DEF QueueInv
  <2>3. {backlog[n] : n \in DOMAIN backlog} = {c \in Client : phase[c] = "open"}
    BY <1>1, <2>2 DEF QueueInv, InBacklog
  <2> QED
    BY <1>1, <2>1, <2>3 DEF QueueInv
<1>2. CASE \E c \in Client : handled = {c}
  <2>1. PICK c \in Client : handled = {c}
    BY <1>2
  <2>2. (CHOOSE x \in handled : TRUE) = c
    BY <2>1
  <2>3. Waiting = <<c>> \o backlog
    BY <2>1, <2>2 DEF Waiting
  <2>4. backlog \in Seq(Client)
    BY DEF QueueInv
  <2>5. /\ Waiting \in Seq(Client) /\ Len(Waiting) = 1 + Len(backlog)
        /\ Waiting[1] = c
        /\ \A n \in 1 .. Len(backlog) : Waiting[n + 1] = backlog[n]
    BY <2>1, <2>3, <2>4
  <2>6. Waiting # <<>> /\ Head(Waiting) = c /\ Tail(Waiting) = backlog
    BY <2>3, <2>4, <2>5
  <2>7. ASSUME NEW x \in Client
        PROVE  phase[x] = "open" <=> \E n \in DOMAIN Waiting : Waiting[n] = x
    <3>1. Len(backlog) \in Nat /\ DOMAIN Waiting = 1 .. Len(backlog) + 1
      BY <2>4, <2>5
    <3>2. (\E n \in DOMAIN Waiting : Waiting[n] = x) <=> x = c \/ InBacklog(x)
      <4>1. ASSUME InBacklog(x) PROVE \E n \in DOMAIN Waiting : Waiting[n] = x
        <5>1. PICK n \in 1 .. Len(backlog) : backlog[n] = x
          BY <4>1 DEF InBacklog
        <5>2. n + 1 \in DOMAIN Waiting /\ Waiting[n + 1] = x
          BY <2>5, <3>1, <5>1
        <5> QED
          BY <5>2
      <4>2. ASSUME NEW n \in DOMAIN Waiting, Waiting[n] = x, x # c PROVE InBacklog(x)
        <5>1. n - 1 \in 1 .. Len(backlog) /\ Waiting[(n - 1) + 1] = x
          BY <2>5, <3>1, <4>2
        <5>2. backlog[n - 1] = x
          BY <2>5, <5>1
        <5> QED
          BY <5>1, <5>2 DEF InBacklog
      <4>3. 1 \in DOMAIN Waiting
        BY <3>1
      <4> QED
        BY <2>5, <4>1, <4>2, <4>3
    <3> QED
      BY <2>1, <3>2 DEF QueueInv
  <2>8. \A n \in DOMAIN Waiting : Waiting[n] \in Client
    BY <2>5
  <2>9. {Waiting[n] : n \in DOMAIN Waiting} = {x \in Client : phase[x] = "open"}
    BY <2>7, <2>8
  <2> QED
    BY <2>1, <2>3, <2>5, <2>6, <2>9
<1> QED
  BY <1>1, <1>2 DEF QueueInv

(* The head of the backlog leaves it.                                      *)
LEMMA HeadLeaves ==
    ASSUME QueueInv, backlog # <<>>
    PROVE  /\ Head(backlog) \in Client /\ InBacklog(Head(backlog))
           /\ Tail(backlog) \in Seq(Client)
           /\ Len(Tail(backlog)) = Len(backlog) - 1 /\ Len(backlog) \in Nat \ {0}
           /\ \A n \in 1 .. Len(backlog) - 1 : Tail(backlog)[n] = backlog[n + 1]
           /\ Head(backlog) = backlog[1]
BY DEF QueueInv, InBacklog

(* What a step may do to the queue: a client comes, the next one is        *)
(* handled, one is done with, or all are.                                  *)
NewClient(c) ==
    /\ phase[c] = "none" /\ c \in Client
    /\ phase' = [phase EXCEPT ![c] = "open"]
    /\ backlog' = Append(backlog, c)
    /\ UNCHANGED handled

NextClient ==
    /\ handled = {} /\ backlog # <<>>
    /\ handled' = {Head(backlog)}
    /\ backlog' = Tail(backlog)
    /\ UNCHANGED phase

LostClient ==
    /\ handled = {} /\ backlog # <<>>
    /\ phase' = [phase EXCEPT ![Head(backlog)] = "closed"]
    /\ backlog' = Tail(backlog)
    /\ UNCHANGED handled

DoneClient(c) ==
    /\ handled = {c}
    /\ handled' = {}
    /\ phase' = [phase EXCEPT ![c] = "closed"]
    /\ UNCHANGED backlog

AllClients ==
    /\ backlog' = <<>>
    /\ handled' = {}
    /\ phase' = [c \in Client |-> IF phase[c] = "open" THEN "closed" ELSE phase[c]]

QueueStep ==
    \/ \E c \in Client : NewClient(c) \/ DoneClient(c)
    \/ NextClient \/ LostClient \/ AllClients
    \/ UNCHANGED <<phase, backlog, handled>>

LEMMA QueueSteps ==
    ASSUME QueueInv, [Next]_vars
    PROVE  QueueStep
<1>1. CASE CliNext /\ UNCHANGED server_vars
  BY <1>1 DEF server_vars, QueueStep
<1>2. ASSUME NEW p \in Proc, Bind(p) PROVE QueueStep
  BY <1>2 DEF Bind, QueueStep
<1>3. ASSUME NEW p \in Proc, EndProcess(p) PROVE QueueStep
  BY <1>3 DEF EndProcess, Stop, server_vars, QueueStep, AllClients
<1>4. CASE ServerStep
  <2>1. CASE Accept
    BY <2>1 DEF Accept, QueueStep, NextClient
  <2>2. CASE AcceptError
    BY <2>2 DEF AcceptError, QueueStep, LostClient
  <2>3. ASSUME NEW c \in handled, Read(c) \/ ReadEnd(c) \/ FailRead(c) \/ Respond(c)
        PROVE  QueueStep
    <3>1. c \in Client
      BY <2>3 DEF QueueInv
    <3> QED
      BY <2>3, <3>1 DEF Read, ReadEnd, FailRead, Respond, Close, QueueStep, DoneClient
  <2>4. ASSUME NEW p \in Proc, NEW c \in handled, PanicOf(p, c) PROVE QueueStep
    BY <2>4 DEF PanicOf, Panic, Stop, QueueStep, AllClients
  <2> QED
    BY <1>4, <2>1, <2>2, <2>3, <2>4 DEF ServerStep, Handle
<1>5. ASSUME NEW c \in Client, Connect(c) \/ ClientStep(c) PROVE QueueStep
  BY <1>5 DEF Connect, ClientStep, Send, End, QueueStep, NewClient
<1>6. CASE UNCHANGED vars
  BY <1>6 DEF vars, server_vars, QueueStep
<1> QED
  BY <1>1, <1>2, <1>3, <1>4, <1>5, <1>6 DEF Next

LEMMA QueueInvKept ==
    ASSUME QueueInv, QueueStep
    PROVE  QueueInv'
<1>0. Len(backlog) \in Nat /\ DOMAIN phase = Client
  BY DEF QueueInv
<1>1. ASSUME NEW c \in Client, NewClient(c) PROVE QueueInv'
  <2>1. /\ backlog' \in Seq(Client) /\ Len(backlog') = Len(backlog) + 1
        /\ \A n \in 1 .. Len(backlog) : backlog'[n] = backlog[n]
        /\ backlog'[Len(backlog) + 1] = c
    BY <1>1 DEF QueueInv, NewClient
  <2>2. c \notin handled /\ ~InBacklog(c)
    BY <1>1 DEF QueueInv, NewClient
  <2>3. \A x \in Client : InBacklog(x)' <=> x = c \/ InBacklog(x)
    BY <1>0, <2>1 DEF InBacklog
  <2>4. \A n \in 1 .. Len(backlog') :
            (n \in 1 .. Len(backlog) /\ backlog'[n] = backlog[n])
            \/ (n = Len(backlog) + 1 /\ backlog'[n] = c)
    BY <1>0, <2>1
  <2>5. \A m, n \in 1 .. Len(backlog') : backlog'[m] = backlog'[n] => m = n
    BY <2>2, <2>4 DEF QueueInv, InBacklog
  <2>6. \A n \in 1 .. Len(backlog') : backlog'[n] \notin handled'
    BY <1>1, <2>2, <2>4 DEF QueueInv, NewClient
  <2>7. /\ DOMAIN phase' = Client /\ phase'[c] = "open"
        /\ \A x \in Client \ {c} : phase'[x] = phase[x]
        /\ handled' = handled
    BY <1>0, <1>1 DEF NewClient
  <2>8. \A x \in Client : phase'[x] = "open" <=> x \in handled' \/ InBacklog(x)'
    BY <2>3, <2>7 DEF QueueInv
  <2> QED
    BY <2>1, <2>5, <2>6, <2>7, <2>8 DEF QueueInv
<1>2. ASSUME handled = {}, backlog # <<>>, backlog' = Tail(backlog)
      PROVE  /\ backlog' \in Seq(Client)
             /\ \A m, n \in 1 .. Len(backlog') : backlog'[m] = backlog'[n] => m = n
             /\ \A x \in Client : InBacklog(x) <=> x = Head(backlog) \/ InBacklog(x)'
             /\ \A x \in Client : x = Head(backlog) => ~InBacklog(x)'
             /\ Head(backlog) \in Client
  <2>1. /\ Len(backlog') = Len(backlog) - 1 /\ Len(backlog) \in Nat \ {0}
        /\ \A n \in 1 .. Len(backlog') : backlog'[n] = backlog[n + 1]
        /\ Head(backlog) = backlog[1]
    BY <1>2, HeadLeaves
  <2>2. \A n \in 1 .. Len(backlog') : n + 1 \in 1 .. Len(backlog) /\ n + 1 # 1
    BY <2>1
  <2>3. \A m, n \in 1 .. Len(backlog') : backlog'[m] = backlog'[n] => m = n
    <3> SUFFICES ASSUME NEW m \in 1 .. Len(backlog'), NEW n \in 1 .. Len(backlog'),
                        backlog'[m] = backlog'[n]
                 PROVE  m = n
      OBVIOUS
    <3>1. m + 1 = n + 1
      BY <2>1, <2>2 DEF QueueInv
    <3> QED
      BY <2>1, <3>1
  <2>4. ASSUME NEW x \in Client, x = Head(backlog) PROVE ~InBacklog(x)'
    <3> SUFFICES ASSUME NEW n \in 1 .. Len(backlog'), backlog'[n] = x
                 PROVE  FALSE
      BY DEF InBacklog
    <3>1. backlog[n + 1] = backlog[1] /\ 1 \in 1 .. Len(backlog)
      BY <2>1, <2>4
    <3> QED
      BY <2>2, <3>1 DEF QueueInv
  <2>5. ASSUME NEW x \in Client PROVE InBacklog(x) <=> x = Head(backlog) \/ InBacklog(x)'
    <3>1. ASSUME NEW n \in 1 .. Len(backlog), backlog[n] = x, n # 1 PROVE InBacklog(x)'
      <4>1. n - 1 \in 1 .. Len(backlog') /\ backlog'[n - 1] = backlog[(n - 1) + 1]
        BY <2>1, <3>1
      <4>2. backlog'[n - 1] = x
        BY <3>1, <4>1, <2>1
      <4> QED
        BY <4>1, <4>2 DEF InBacklog
    <3>2. ASSUME NEW n \in 1 .. Len(backlog'), backlog'[n] = x PROVE InBacklog(x)
      BY <2>1, <2>2, <3>2 DEF InBacklog
    <3>3. 1 \in 1 .. Len(backlog)
      BY <2>1
    <3> QED
      BY <2>1, <3>1, <3>2, <3>3 DEF InBacklog
  <2> QED
    BY <1>2, <2>3, <2>4, <2>5, HeadLeaves
<1>3. CASE NextClient
  <2>1. /\ handled = {} /\ handled' = {Head(backlog)} /\ phase' = phase
    BY <1>3 DEF NextClient
  <2>2. \A n \in 1 .. Len(backlog') : backlog'[n] \notin handled'
    <3>1. \A n \in 1 .. Len(backlog') : backlog'[n] # Head(backlog)
      BY <1>2, <1>3 DEF NextClient, InBacklog
    <3> QED
      BY <2>1, <3>1
  <2>3. \A x \in Client : phase'[x] = "open" <=> x \in handled' \/ InBacklog(x)'
    BY <1>2, <1>3, <2>1 DEF NextClient, QueueInv
  <2> QED
    BY <1>2, <1>3, <2>1, <2>2, <2>3 DEF NextClient, QueueInv
<1>4. CASE LostClient
  <2>1. /\ handled = {} /\ handled' = {} /\ Head(backlog) \in Client
        /\ DOMAIN phase' = Client /\ phase'[Head(backlog)] = "closed"
        /\ \A x \in Client \ {Head(backlog)} : phase'[x] = phase[x]
    BY <1>0, <1>2, <1>4 DEF LostClient
  <2>2. \A x \in Client : phase'[x] = "open" <=> x \in handled' \/ InBacklog(x)'
    BY <1>2, <1>4, <2>1 DEF LostClient, QueueInv
  <2> QED
    BY <1>2, <1>4, <2>1, <2>2 DEF LostClient, QueueInv
<1>5. ASSUME NEW c \in Client, DoneClient(c) PROVE QueueInv'
  <2>1. /\ handled = {c} /\ handled' = {} /\ backlog' = backlog
        /\ DOMAIN phase' = Client /\ phase'[c] = "closed"
        /\ \A x \in Client \ {c} : phase'[x] = phase[x]
    BY <1>0, <1>5 DEF DoneClient
  <2>2. \A x \in Client : InBacklog(x)' <=> InBacklog(x)
    BY <2>1 DEF InBacklog
  <2>3. ~InBacklog(c)
    BY <2>1 DEF QueueInv, InBacklog
  <2>4. \A x \in Client : phase'[x] = "open" <=> x \in handled' \/ InBacklog(x)'
    BY <2>1, <2>2, <2>3 DEF QueueInv
  <2> QED
    BY <2>1, <2>4 DEF QueueInv
<1>6. CASE AllClients
  <2>1. backlog' = <<>> /\ handled' = {} /\ DOMAIN phase' = Client
        /\ \A x \in Client : phase'[x] = IF phase[x] = "open" THEN "closed" ELSE phase[x]
    BY <1>6 DEF AllClients
  <2>2. \A x \in Client : ~InBacklog(x)'
    BY <2>1 DEF InBacklog
  <2> QED
    BY <2>1, <2>2 DEF QueueInv
<1>7. CASE UNCHANGED <<phase, backlog, handled>>
  BY <1>7 DEF QueueInv, InBacklog
<1> QED
  BY <1>1, <1>3, <1>4, <1>5, <1>6, <1>7 DEF QueueStep

LEMMA QueueStarts ==
    ASSUME Init
    PROVE  QueueInv
BY DEF Init, ServerInit, QueueInv, InBacklog

LEMMA QueueHolds == Spec => []QueueInv
<1>1. QueueInv /\ [Next]_vars => QueueInv'
  BY QueueSteps, QueueInvKept
<1> QED
  BY <1>1, QueueStarts, PTL DEF Spec

(* Clients are attended to in the order in which they come, each of them   *)
(* once and one at a time, whatever they send and however the server ends  *)
(* (run_server): every behaviour is one of Service.tla, but for liveness.  *)
THEOREM ImplementsServiceSafety == Spec => Attended!Safety
<1>1. Init => Attended!Init
  BY DEF Init, ServerInit, Attended!Init, Waiting
<1>2. ASSUME QueueInv, QueueInv', QueueStep
      PROVE  Attended!Next \/ UNCHANGED <<Waiting, Closed>>
  <2>0. DOMAIN phase = Client /\ DOMAIN phase' = Client
    BY <1>2 DEF QueueInv
  <2>1. ASSUME NEW c \in Client, NewClient(c) PROVE Attended!Come(c)
    <3>1. c \notin Closed /\ Closed' = Closed
      BY <1>2, <2>0, <2>1 DEF NewClient, Closed
    <3>2. \A n \in DOMAIN Waiting : Waiting[n] # c
      <4>1. c \notin {x \in Client : phase[x] = "open"}
        BY <2>1 DEF NewClient
      <4> QED
        BY <1>2, <4>1, WaitingIs
    <3>3. Waiting' = Append(Waiting, c)
      <4>1. backlog \in Seq(Client) /\ backlog' = Append(backlog, c) /\ handled' = handled
        BY <1>2, <2>1 DEF QueueInv, NewClient
      <4>2. CASE handled = {}
        BY <4>1, <4>2 DEF Waiting
      <4>3. ASSUME NEW x \in Client, handled = {x} PROVE Waiting' = Append(Waiting, c)
        <5>1. Waiting = <<x>> \o backlog /\ Waiting' = <<x>> \o Append(backlog, c)
          BY <4>1, <4>3 DEF Waiting
        <5>2. <<x>> \o Append(backlog, c) = Append(<<x>> \o backlog, c)
          BY <4>1
        <5> QED
          BY <5>1, <5>2
      <4> QED
        BY <1>2, <4>2, <4>3 DEF QueueInv
    <3> QED
      BY <3>1, <3>2, <3>3 DEF Attended!Come, Closed
  <2>2. CASE NextClient
    <3>1. Waiting = backlog /\ backlog \in Seq(Client) /\ backlog # <<>>
      BY <1>2, <2>2, WaitingIs DEF NextClient, QueueInv
    <3>2. (CHOOSE x \in handled' : TRUE) = Head(backlog)
      BY <2>2 DEF NextClient
    <3>3. Waiting' = <<Head(backlog)>> \o Tail(backlog)
      BY <2>2, <3>2 DEF NextClient, Waiting
    <3>4. <<Head(backlog)>> \o Tail(backlog) = backlog
      BY <3>1
    <3> QED
      BY <2>2, <3>1, <3>3, <3>4 DEF NextClient, Closed
  <2>3. CASE LostClient
    <3>1. Waiting = backlog /\ backlog # <<>> /\ Head(backlog) \in Client
      BY <1>2, <2>3, WaitingIs, HeadLeaves DEF LostClient
    <3>2. Waiting' = Tail(backlog)
      BY <2>3 DEF LostClient, Waiting
    <3>3. Closed' = Closed \cup {Head(backlog)}
      BY <2>0, <2>3, <3>1 DEF LostClient, Closed
    <3> QED
      BY <3>1, <3>2, <3>3 DEF Attended!Next, Attended!Leave, Closed
  <2>4. ASSUME NEW c \in Client, DoneClient(c) PROVE Attended!Leave
    <3>1. Waiting # <<>> /\ Head(Waiting) = c /\ Tail(Waiting) = backlog
      BY <1>2, <2>4, WaitingIs DEF DoneClient
    <3>2. Waiting' = backlog
      BY <2>4 DEF DoneClient, Waiting
    <3>3. Closed' = Closed \cup {c}
      BY <2>0, <2>4 DEF DoneClient, Closed
    <3> QED
      BY <3>1, <3>2, <3>3 DEF Attended!Leave, Closed
  <2>5. CASE AllClients
    <3>1. Waiting' = <<>>
      BY <2>5 DEF AllClients, Waiting
    <3>2. Closed' = Closed \cup {c \in Client : phase[c] = "open"}
      BY <2>0, <2>5 DEF AllClients, Closed
    <3>3. CASE Waiting = <<>>
      <4>1. {c \in Client : phase[c] = "open"} = {}
        BY <1>2, <3>3, WaitingIs
      <4> QED
        BY <3>1, <3>2, <3>3, <4>1
    <3>4. CASE Waiting # <<>>
      <4>1. Closed' = Closed \cup {Waiting[n] : n \in DOMAIN Waiting}
        BY <1>2, <3>2, WaitingIs
      <4> QED
        BY <3>1, <3>4, <4>1 DEF Attended!Next, Attended!Cease, Closed
    <3> QED
      BY <3>3, <3>4
  <2>6. CASE UNCHANGED <<phase, backlog, handled>>
    BY <2>6 DEF Waiting, Closed
  <2> QED
    BY <1>2, <2>1, <2>2, <2>3, <2>4, <2>5, <2>6 DEF QueueStep, Attended!Next
<1>3. QueueInv /\ [Next]_vars => [Attended!Next]_(Attended!vars)
  BY <1>2, QueueSteps, QueueInvKept DEF Attended!vars, Closed
<1> QED
  BY <1>1, <1>3, QueueHolds, PTL DEF Spec, Attended!Safety

-----------------------------------------------------------------------------
(* The answers. *)

\* A request that AnswerTo and Expected both know, from a scenario.
IsRequest(r) ==
    /\ r.head \in Nat \ {0} /\ r.body \in Nat
    /\ r.path \in {"none", "index", "run", "other"}
    /\ \A a, b \in r.api : a = b

\* What read_request has in hand once it returns: all that the head announced,
\* or all that there will ever be.
HasRead(c) ==
    \/ IsWhole(c, got)
    \/ HasHead(c, got) /\ ending[c] # "open" /\ got = sent[c]

AnswersInv ==
    /\ DOMAIN stage = Proc
    /\ DOMAIN answers = Client /\ DOMAIN sent = Client /\ DOMAIN ending = Client
    /\ \A c \in DOMAIN requests : c \in Client /\ IsRequest(requests[c])
    /\ \A c \in Client : phase[c] # "none" => c \in DOMAIN requests
    /\ \A c \in DOMAIN requests : sent[c] \in 0 .. Total(c)
    /\ got \in Nat
    /\ \A c \in handled : got <= sent[c] /\ (step = "answer" => HasRead(c))
    /\ \A c \in Client : phase[c] # "closed" => answers[c] = "none"
    /\ AnswersAreRight

(* An answer is that of the request or none, and to an exact request which *)
(* came whole it is that of the request.                                   *)
LEMMA AnswersToRequests ==
    ASSUME NEW c, IsRequest(requests[c]), NEW n \in 0 .. Total(c),
           NEW a \in AnswerTo(c, n), a # "panic"
    PROVE  /\ a \in Expected(requests[c]) \cup {"none"}
           /\ IsExact(c) /\ n = Total(c) => a \in Expected(requests[c])
<1>1. CASE requests[c].path # "run"
  BY <1>1 DEF AnswerTo, Expected, IsRequest
<1>2. CASE requests[c].path = "run" /\ ~IsJson(c, n)
  <2>1. a = "none"
    BY <1>2 DEF AnswerTo
  <2>2. IsExact(c) /\ n = Total(c) => requests[c].api = {}
    BY <1>2 DEF IsExact, Total, IsJson, IsRequest
  <2>3. IsExact(c) /\ n = Total(c) => Expected(requests[c]) = {"none"}
    BY <1>2, <2>2 DEF Expected
  <2> QED
    BY <2>1, <2>3
<1>3. CASE requests[c].path = "run" /\ IsJson(c, n)
  <2>1. PICK api \in requests[c].api : a = IF IsAccepted(api) THEN api.outcome ELSE "none"
    BY <1>3 DEF AnswerTo
  <2>2. \A x \in requests[c].api : x = api
    BY <2>1 DEF IsRequest
  <2>3. CASE IsAccepted(api)
    <3>1. Expected(requests[c]) = {x.outcome : x \in requests[c].api}
      BY <1>3, <2>1, <2>3 DEF Expected
    <3> QED
      BY <2>1, <2>3, <3>1
  <2>4. CASE ~IsAccepted(api)
    <3>1. Expected(requests[c]) = {"none"}
      BY <1>3, <2>2, <2>4 DEF Expected
    <3> QED
      BY <2>1, <2>4, <3>1
  <2> QED
    BY <2>3, <2>4
<1> QED
  BY <1>1, <1>2, <1>3

(* An exact request of which everything was sent is whole just when all of *)
(* it is read, and its head ends before that.                              *)
LEMMA ExactIsWhole ==
    ASSUME NEW c, IsRequest(requests[c]), IsExact(c), NEW n \in 0 .. Total(c)
    PROVE  /\ IsWhole(c, n) => n = Total(c)
           /\ ContentLength(requests[c]) # {}
           /\ HasHead(c, Total(c))
<1>1. requests[c].body \in Nat /\ requests[c].head \in Nat
  BY DEF IsRequest
<1>2. ContentLength(requests[c]) = {requests[c].body}
  BY <1>1 DEF ContentLength, IsExact
<1> QED
  BY <1>1, <1>2 DEF IsWhole, HasHead, Total

(* What a step does to the processes: an end by panic or kill is for good. *)
LEMMA CrashesStay ==
    ASSUME DOMAIN stage = Proc, [Next]_vars
    PROVE  /\ DOMAIN stage' = Proc
           /\ Crashed => Crashed'
<1>1. ASSUME NEW p \in Proc, NEW s, Goto(p, s), stage[p] \notin {"panic", "killed"}
      PROVE  DOMAIN stage' = Proc /\ (Crashed => Crashed')
  <2>1. DOMAIN stage' = Proc /\ \A q \in Proc \ {p} : stage'[q] = stage[q]
    BY <1>1 DEF Goto
  <2> QED
    BY <1>1, <2>1 DEF Crashed
<1>2. CASE CliNext /\ UNCHANGED server_vars
  BY <1>1, <1>2 DEF CliNext, Parse, RunInput, Open, Fill, FailWrite
<1>3. ASSUME NEW p \in Proc, Bind(p)
      PROVE  DOMAIN stage' = Proc /\ (Crashed => Crashed')
  BY <1>1, <1>3 DEF Bind
<1>4. ASSUME NEW p \in Proc, EndProcess(p)
      PROVE  DOMAIN stage' = Proc /\ (Crashed => Crashed')
  BY <1>1, <1>4 DEF EndProcess, Kill
<1>5. CASE ServerStep
  <2>1. ASSUME NEW p \in Proc, NEW c \in handled, PanicOf(p, c)
        PROVE  DOMAIN stage' = Proc /\ (Crashed => Crashed')
    BY <1>1, <2>1 DEF PanicOf, ServesOn
  <2>2. CASE UNCHANGED cli_vars
    BY <2>2 DEF cli_vars, Crashed
  <2> QED
    BY <1>5, <2>1, <2>2 DEF ServerStep
<1>6. CASE UNCHANGED stage
  BY <1>6 DEF Crashed
<1> QED
  BY <1>2, <1>3, <1>4, <1>5, <1>6 DEF Next, vars, cli_vars

\* What AnswersAreRight says of one client.
Right(c) ==
    /\ (IsExact(c) /\ sent[c] = Total(c) /\ ending[c] # "gone" /\ ~Crashed)
           => answers[c] \in Expected(requests[c])
    /\ answers[c] \in Expected(requests[c]) \cup {"none"}

LEMMA RightIs == AnswersAreRight <=> \A c \in DOMAIN requests : phase[c] = "closed" => Right(c)
BY DEF AnswersAreRight, Right

\* What a step leaves as it was for a client.
Same(c) ==
    /\ answers'[c] = answers[c] /\ sent'[c] = sent[c] /\ ending'[c] = ending[c]
    /\ requests' = requests /\ (Crashed => Crashed')

LEMMA RightStays ==
    ASSUME NEW c, Same(c), Right(c)
    PROVE  Right(c)'
BY DEF Same, Right, IsExact, Total, Expected

\* The processes may change, but an end by panic or kill is for good.
Processes == DOMAIN stage' = Proc /\ (Crashed => Crashed')

(* Every step keeps the invariant: one that changes no connection, ...     *)
LEMMA ProcessKeeps ==
    ASSUME AnswersInv, Processes,
           UNCHANGED <<requests, handled, got, step, phase, sent, ending, answers>>
    PROVE  AnswersInv'
<1>1. \A c : Same(c)
  BY DEF Same, Processes
<1>2. AnswersAreRight'
  BY <1>1, RightStays, RightIs DEF AnswersInv, AnswersAreRight, Right, Same
<1> QED
  BY <1>2 DEF AnswersInv, HasRead, IsWhole, HasHead, Total, Processes

(* ... a client's, ...                                                     *)
LEMMA ClientKeeps ==
    ASSUME AnswersInv, QueueInv, Processes, NEW c \in Client, Connect(c) \/ ClientStep(c)
    PROVE  AnswersInv'
<1>1. CASE Connect(c)
  <2>1. /\ phase[c] = "none" /\ phase'[c] = "open" /\ c \in DOMAIN requests
        /\ \A x \in Client \ {c} : phase'[x] = phase[x]
        /\ UNCHANGED <<requests, handled, got, step, sent, ending, answers>>
    BY <1>1 DEF Connect, QueueInv
  <2>2. \A x : Same(x)
    BY <2>1 DEF Same, Processes
  <2>3. AnswersAreRight'
    BY <2>1, <2>2, RightStays, RightIs DEF AnswersInv, AnswersAreRight, Right
  <2> QED
    BY <2>1, <2>3 DEF AnswersInv, HasRead, IsWhole, HasHead, Total, Processes
<1>2. ASSUME ClientStep(c)
      PROVE  /\ phase[c] = "open" /\ c \in DOMAIN requests /\ ending[c] = "open"
             /\ sent'[c] >= sent[c] /\ sent'[c] \in 0 .. Total(c)
             /\ DOMAIN sent' = Client /\ DOMAIN ending' = Client
             /\ \A x \in Client \ {c} : sent'[x] = sent[x] /\ ending'[x] = ending[x]
             /\ UNCHANGED <<requests, handled, got, step, phase, answers>>
  <2>1. phase[c] = "open" /\ c \in DOMAIN requests /\ sent[c] \in 0 .. Total(c)
        /\ Total(c) \in Nat
    BY <1>2 DEF ClientStep, Send, End, Connected, AnswersInv, IsRequest, Total
  <2>2. CASE Send(c)
    <3>1. PICK n \in sent[c] + 1 .. Total(c) : sent' = [sent EXCEPT ![c] = n]
      BY <2>2 DEF Send
    <3> QED
      BY <2>1, <2>2, <3>1 DEF Send, AnswersInv
  <2>3. ASSUME NEW how, End(c, how) PROVE
             /\ DOMAIN ending' = Client /\ ending[c] = "open"
             /\ \A x \in Client \ {c} : ending'[x] = ending[x]
             /\ UNCHANGED <<requests, handled, got, step, phase, sent, answers>>
    BY <2>3 DEF End, AnswersInv
  <2> QED
    BY <1>2, <2>1, <2>2, <2>3 DEF ClientStep, AnswersInv
<1>3. CASE ClientStep(c)
  <2>1. \A x \in Client \ {c} : Same(x)
    BY <1>2, <1>3 DEF Same, Processes
  <2>2. AnswersAreRight'
    BY <1>2, <1>3, <2>1, RightStays, RightIs DEF AnswersInv, AnswersAreRight, Right
  <2>3. \A x \in handled' : got' <= sent'[x] /\ (step' = "answer" => HasRead(x)')
    <3> SUFFICES ASSUME NEW x \in handled
                 PROVE  got <= sent'[x] /\ (step = "answer" => HasRead(x)')
      BY <1>2, <1>3
    <3>1. x \in Client /\ sent[x] \in Int /\ got \in Nat
      BY DEF QueueInv, AnswersInv
    <3>2. IsWhole(x, got)' <=> IsWhole(x, got)
      BY <1>2, <1>3 DEF IsWhole, HasHead
    <3>3. CASE x = c
      BY <1>2, <1>3, <3>1, <3>2, <3>3 DEF AnswersInv, HasRead
    <3>4. CASE x # c
      BY <1>2, <1>3, <3>1, <3>2, <3>4 DEF AnswersInv, HasRead, HasHead
    <3> QED
      BY <3>3, <3>4
  <2>4. \A x \in DOMAIN requests' : sent'[x] \in 0 .. Total(x)'
    BY <1>2, <1>3 DEF AnswersInv, Total
  <2> QED
    BY <1>2, <1>3, <2>2, <2>3, <2>4 DEF AnswersInv, Processes
<1> QED
  BY <1>1, <1>3

(* ... an accept, a round of read_request, ...                             *)
LEMMA AcceptKeeps ==
    ASSUME AnswersInv, QueueInv, Processes, Accept \/ AcceptError
    PROVE  AnswersInv'
<1>0. PICK c \in Client : c = Head(backlog) /\ phase[c] = "open" /\ c \in DOMAIN requests
  BY HeadLeaves DEF Accept, AcceptError, QueueInv, AnswersInv
<1>1. CASE Accept
  <2>1. /\ handled' = {c} /\ got' = 0 /\ step' = "read"
        /\ UNCHANGED <<requests, phase, sent, ending, answers>>
    BY <1>0, <1>1 DEF Accept
  <2>2. \A x : Same(x)
    BY <2>1 DEF Same, Processes
  <2>3. AnswersAreRight'
    BY <2>1, <2>2, RightStays, RightIs DEF AnswersInv, AnswersAreRight, Right
  <2>4. sent[c] \in Nat
    BY <1>0 DEF AnswersInv, Total
  <2> QED
    BY <2>1, <2>3, <2>4 DEF AnswersInv, Total, Processes
<1>2. CASE AcceptError
  <2>1. /\ ending[c] = "gone" /\ phase'[c] = "closed"
        /\ \A x \in Client \ {c} : phase'[x] = phase[x]
        /\ handled = {} /\ handled' = {}
        /\ UNCHANGED <<requests, got, sent, ending, answers>>
    BY <1>0, <1>2 DEF AcceptError, QueueInv
  <2>2. \A x : Same(x)
    BY <2>1 DEF Same, Processes
  <2>3. Right(c)
    BY <1>0, <2>1 DEF AnswersInv, Right
  <2>4. AnswersAreRight'
    BY <2>1, <2>2, <2>3, RightStays, RightIs DEF AnswersInv, AnswersAreRight, Right
  <2> QED
    BY <1>0, <2>1, <2>4 DEF AnswersInv, Total, Processes
<1> QED
  BY <1>1, <1>2

LEMMA ReadKeeps ==
    ASSUME AnswersInv, QueueInv, Processes, NEW c \in handled, Read(c) \/ ReadEnd(c)
    PROVE  AnswersInv'
<1>1. /\ handled = {c} /\ step = "read"
      /\ UNCHANGED <<requests, handled, phase, sent, ending, answers>>
  BY DEF Read, ReadEnd
<1>2. \A x : Same(x)
  BY <1>1 DEF Same, Processes
<1>3. AnswersAreRight'
  BY <1>1, <1>2, RightStays, RightIs DEF AnswersInv, AnswersAreRight, Right
<1>4. c \in DOMAIN requests /\ sent[c] \in Nat /\ got \in Nat
  BY DEF QueueInv, AnswersInv, Total
<1>5. got' \in Nat /\ got' <= sent[c] /\ (step' = "answer" => HasRead(c)')
  <2>1. CASE Read(c)
    <3>1. PICK n \in got + 1 .. sent[c] :
             got' = n /\ step' = IF IsWhole(c, n) THEN "answer" ELSE "read"
      BY <2>1 DEF Read
    <3>2. IsWhole(c, got)' <=> IsWhole(c, n)
      BY <1>1, <3>1 DEF IsWhole, HasHead
    <3> QED
      BY <1>4, <3>1, <3>2 DEF HasRead
  <2>2. CASE ReadEnd(c)
    BY <1>1, <1>4, <2>2 DEF ReadEnd, HasRead, HasHead
  <2> QED
    BY <2>1, <2>2
<1> QED
  BY <1>1, <1>3, <1>5 DEF AnswersInv, Total, Processes

(* ... the end of a connection, with an answer or without one, ...         *)
LEMMA CloseKeeps ==
    ASSUME AnswersInv, QueueInv, Processes, NEW c \in handled, FailRead(c) \/ Respond(c)
    PROVE  AnswersInv'
<1>0. /\ handled = {c} /\ c \in Client /\ phase[c] = "open" /\ c \in DOMAIN requests
      /\ IsRequest(requests[c])
      /\ sent[c] \in 0 .. Total(c) /\ got \in Nat /\ got <= sent[c]
      /\ got \in 0 .. Total(c) /\ Total(c) \in Nat
  <2>1. handled = {c} /\ c \in Client /\ phase[c] = "open" /\ c \in DOMAIN requests
    BY DEF FailRead, Respond, QueueInv, AnswersInv
  <2> QED
    BY <2>1 DEF AnswersInv, IsRequest, Total
<1>1. UNCHANGED <<requests, got, step, sent, ending>>
  BY DEF FailRead, Respond
<1> DEFINE Good(a) ==
      /\ (IsExact(c) /\ sent[c] = Total(c) /\ ending[c] # "gone" /\ ~Crashed)
             => a \in Expected(requests[c])
      /\ a \in Expected(requests[c]) \cup {"none"}
<1>2. \E a : Close(c, a) /\ Good(a)
  <2>1. CASE FailRead(c)
    <3>1. Close(c, "none")
      BY <2>1 DEF FailRead
    <3>2. ASSUME IsExact(c), sent[c] = Total(c) PROVE ending[c] = "gone"
      <4>1. ContentLength(requests[c]) # {} /\ HasHead(c, Total(c))
        BY <1>0, <3>2, ExactIsWhole
      <4> QED
        BY <2>1, <3>2, <4>1 DEF FailRead
    <3> QED
      BY <3>1, <3>2
  <2>2. CASE Respond(c)
    <3>1. PICK a \in AnswerTo(c, got) \ {"panic"} :
             \/ ending[c] # "gone" /\ Close(c, a)
             \/ (ending[c] = "gone" \/ got < sent[c]) /\ Close(c, "none")
      BY <2>2 DEF Respond
    <3>2. ASSUME IsExact(c), sent[c] = Total(c) PROVE got = Total(c)
      <4>1. HasRead(c)
        BY <1>0, <2>2 DEF AnswersInv, Respond
      <4>2. IsWhole(c, got) => got = Total(c)
        BY <1>0, <3>2, ExactIsWhole
      <4> QED
        BY <3>2, <4>1, <4>2 DEF HasRead
    <3>3. Good(a)
      BY <1>0, <3>1, <3>2, AnswersToRequests
    <3>4. ASSUME ending[c] = "gone" \/ got < sent[c] PROVE Good("none")
      BY <1>0, <3>2, <3>4
    <3> HIDE DEF Good
    <3> QED
      BY <3>1, <3>3, <3>4
  <2> QED
    BY <2>1, <2>2
<1>3. PICK a : Close(c, a) /\ Good(a)
  BY <1>2
<1>4. /\ handled' = {} /\ phase'[c] = "closed" /\ answers'[c] = a
      /\ DOMAIN answers' = Client
      /\ \A x \in Client \ {c} : phase'[x] = phase[x] /\ answers'[x] = answers[x]
  BY <1>0, <1>3 DEF Close, QueueInv, AnswersInv
<1>5. Right(c)'
  BY <1>1, <1>3, <1>4 DEF Right, IsExact, Total, Expected, Processes
<1>6. \A x \in Client \ {c} : Same(x)
  BY <1>1, <1>4 DEF Same, Processes
<1>7. AnswersAreRight'
  BY <1>0, <1>1, <1>4, <1>5, <1>6, RightStays, RightIs DEF AnswersInv, AnswersAreRight, Right
<1> QED
  BY <1>0, <1>1, <1>4, <1>7 DEF AnswersInv, Total, Processes

(* ... and that of the server.                                             *)
LEMMA StopKeeps ==
    ASSUME AnswersInv, QueueInv, Processes, Stop, Crashed'
    PROVE  AnswersInv'
<1>1. /\ handled' = {} /\ UNCHANGED <<requests, got, step, sent, ending, answers>>
      /\ \A x \in Client : phase'[x] = IF phase[x] = "open" THEN "closed" ELSE phase[x]
  BY DEF Stop
<1>2. \A x : Same(x)
  BY <1>1 DEF Same, Processes
<1>3. ASSUME NEW x \in DOMAIN requests, phase'[x] = "closed"
      PROVE  Right(x)'
  <2>1. CASE phase[x] = "closed"
    BY <1>2, <2>1, RightStays, RightIs DEF AnswersInv
  <2>2. CASE phase[x] # "closed"
    BY <1>1, <1>3, <2>2 DEF AnswersInv, Right
  <2> QED
    BY <2>1, <2>2
<1>4. AnswersAreRight'
  BY <1>1, <1>3 DEF AnswersAreRight, Right
<1> QED
  BY <1>1, <1>4 DEF AnswersInv, Total, Processes

LEMMA AnswersStart ==
    ASSUME Init
    PROVE  AnswersInv
<1>1. PICK s \in Scenarios : requests = s.requests
  BY DEF Init
<1>2. \A c \in DOMAIN requests : c \in Client /\ IsRequest(requests[c])
  BY <1>1, ScenarioAssumption DEF IsRequest
<1>3. \A c \in DOMAIN requests : 0 \in 0 .. Total(c)
  BY <1>2 DEF IsRequest, Total
<1>4. /\ stage = [p \in Proc |-> "parse"] /\ got = 0 /\ handled = {}
      /\ phase = [c \in Client |-> "none"] /\ sent = [c \in Client |-> 0]
      /\ ending = [c \in Client |-> "open"] /\ answers = [c \in Client |-> "none"]
  BY DEF Init, CliInit, ServerInit
<1> QED
  BY <1>2, <1>3, <1>4 DEF AnswersInv, AnswersAreRight

LEMMA AnswersInvKept ==
    ASSUME QueueInv, AnswersInv, [Next]_vars
    PROVE  AnswersInv'
<1>0. Processes
  BY CrashesStay DEF AnswersInv, Processes
<1>1. CASE CliNext /\ UNCHANGED server_vars
  BY <1>0, <1>1, ProcessKeeps DEF server_vars
<1>2. ASSUME NEW p \in Proc, Bind(p) PROVE AnswersInv'
  BY <1>0, <1>2, ProcessKeeps DEF Bind
<1>3. ASSUME NEW p \in Proc, EndProcess(p) PROVE AnswersInv'
  <2>1. Crashed'
    BY <1>3 DEF EndProcess, Kill, Goto, Crashed, AnswersInv
  <2> QED
    BY <1>0, <1>3, <2>1, ProcessKeeps, StopKeeps DEF EndProcess, server_vars
<1>4. CASE ServerStep
  <2>1. ASSUME NEW p \in Proc, NEW c \in handled, PanicOf(p, c) PROVE AnswersInv'
    <3>1. Crashed' /\ Stop
      BY <2>1 DEF PanicOf, Panic, Goto, Crashed, AnswersInv
    <3> QED
      BY <1>0, <3>1, StopKeeps
  <2>2. CASE Accept \/ AcceptError
    BY <1>0, <2>2, AcceptKeeps
  <2>3. CASE Handle
    BY <1>0, <2>3, ReadKeeps, CloseKeeps DEF Handle
  <2> QED
    BY <1>4, <2>1, <2>2, <2>3 DEF ServerStep
<1>5. ASSUME NEW c \in Client, Connect(c) \/ ClientStep(c) PROVE AnswersInv'
  BY <1>0, <1>5, ClientKeeps
<1>6. CASE UNCHANGED vars
  BY <1>0, <1>6, ProcessKeeps DEF vars, server_vars
<1> QED
  BY <1>1, <1>2, <1>3, <1>4, <1>5, <1>6 DEF Next

(* A client gets the answer to its own request or none, and if it sent an  *)
(* exact one whole and waits, and the server is not ended, it gets that of *)
(* the whole request, however it was cut into parts, whatever other        *)
(* clients send, and for any number of them (read_request,                 *)
(* handle_connection).                                                     *)
THEOREM AnswersRight == Spec => []AnswersAreRight
<1>1. QueueInv /\ AnswersInv /\ [Next]_vars => AnswersInv'
  BY AnswersInvKept
<1>2. AnswersInv => AnswersAreRight
  BY DEF AnswersInv
<1> QED
  BY <1>1, <1>2, QueueHolds, AnswersStart, PTL DEF Spec

-----------------------------------------------------------------------------
(* Arguments. *)

(* A set with zero and the successors of its numbers has all of them.      *)
LEMMA Counting ==
    ASSUME NEW S, 0 \in S, \A n \in Nat : n \in S => n + 1 \in S
    PROVE  Nat \subseteq S
<1> DEFINE T == Nat \ S
           R == OpToRel(<, Nat)
<1> SUFFICES ASSUME T # {} PROVE FALSE
  OBVIOUS
<1>1. IsWellFoundedOn(R, Nat)
  BY NatLessThanWellFounded
<1>2. PICK t \in T : \A z \in T : ~(<<z, t>> \in R)
  <2>1. T \subseteq Nat /\ T # {}
    OBVIOUS
  <2> HIDE DEF T, R
  <2> QED
    BY <1>1, <2>1, WFMin
<1>3. \A z \in T : ~(z < t)
  BY <1>2 DEF OpToRel
<1>4. t # 0 /\ t \in Nat
  BY <1>2
<1>5. t - 1 \in Nat /\ t - 1 < t /\ (t - 1) + 1 = t
  BY <1>4
<1>6. t - 1 \in S
  BY <1>3, <1>5
<1> QED
  BY <1>2, <1>5, <1>6

(* A loop over arguments has a value after each of them.                   *)
LEMMA LoopOverFlags ==
    ASSUME NEW line, Len(line.flags) \in Nat
    PROVE  \E parsed :
              /\ ParseArgs(line) = parsed[Len(line.flags)]
              /\ parsed[0] = Bare(line.first)
              /\ \A n \in 1 .. Len(line.flags) :
                    parsed[n] = Flagged(parsed[n - 1], line.flags[n])
<1> DEFINE N == Len(line.flags)
           IsLoop(g, m) ==
             g = [n \in 0 .. m |-> IF n = 0 THEN Bare(line.first) ELSE Flagged(g[n - 1], line.flags[n])]
           S == {m \in Nat : \E g : IsLoop(g, m)}
<1>1. 0 \in S
  <2> DEFINE g == [n \in 0 .. 0 |-> Bare(line.first)]
  <2>1. g = [n \in 0 .. 0 |-> IF n = 0 THEN Bare(line.first) ELSE Flagged(g[n - 1], line.flags[n])]
    <3>1. \A n \in 0 .. 0 : n = 0
      OBVIOUS
    <3> QED
      BY <3>1
  <2>2. IsLoop(g, 0)
    BY <2>1
  <2> HIDE DEF IsLoop
  <2> QED
    BY <2>2
<1>2. ASSUME NEW m \in Nat, m \in S PROVE m + 1 \in S
  <2>1. PICK g : IsLoop(g, m)
    BY <1>2
  <2> DEFINE h == [n \in 0 .. m + 1 |->
                     IF n = m + 1 THEN Flagged(g[m], line.flags[n]) ELSE g[n]]
  <2>2. ASSUME NEW n \in 0 .. m + 1
        PROVE  h[n] = IF n = 0 THEN Bare(line.first) ELSE Flagged(h[n - 1], line.flags[n])
    <3>1. CASE n = m + 1
      <4>1. n - 1 = m /\ n # 0 /\ m \in 0 .. m + 1 /\ m # m + 1
        BY <3>1
      <4>2. h[m] = g[m]
        BY <4>1
      <4> QED
        BY <3>1, <4>1, <4>2
    <3>2. CASE n # m + 1
      <4>1. n \in 0 .. m
        BY <3>2
      <4>2. h[n] = g[n]
        BY <3>2
      <4>3. g[n] = IF n = 0 THEN Bare(line.first) ELSE Flagged(g[n - 1], line.flags[n])
        BY <2>1, <4>1
      <4>4. n # 0 => n - 1 \in 0 .. m + 1 /\ n - 1 # m + 1
        BY <4>1
      <4>5. n # 0 => h[n - 1] = g[n - 1]
        BY <4>4
      <4> QED
        BY <4>2, <4>3, <4>5
    <3> QED
      BY <3>1, <3>2
  <2>3. h = [n \in 0 .. m + 1 |-> h[n]]
    OBVIOUS
  <2>4. IsLoop(h, m + 1)
    <3> HIDE DEF h
    <3> QED
      BY <2>2, <2>3
  <2> HIDE DEF IsLoop
  <2> QED
    BY <2>4
<1>3. N \in S
  <2> HIDE DEF S, N
  <2>1. N \in Nat
    BY DEF N
  <2> QED
    BY <1>1, <1>2, <2>1, Counting
<1> DEFINE parsed == CHOOSE g : IsLoop(g, N)
<1>4. IsLoop(parsed, N)
  <2>1. \E g : IsLoop(g, N)
    BY <1>3
  <2> HIDE DEF IsLoop
  <2> QED
    BY <2>1
<1>5. /\ parsed[0] = Bare(line.first)
      /\ \A n \in 1 .. N : parsed[n] = Flagged(parsed[n - 1], line.flags[n])
  <2>1. 0 \in 0 .. N /\ \A n \in 1 .. N : n \in 0 .. N /\ n # 0
    OBVIOUS
  <2> HIDE DEF parsed
  <2> QED
    BY <1>4, <2>1
<1>6. ParseArgs(line) = parsed[N]
  BY DEF ParseArgs
<1> HIDE DEF parsed
<1> QED
  BY <1>5, <1>6

CliCommand ==
    [type : {"cli"}, input : DOMAIN Program, out : [Range(Artifact) -> Path],
     max_steps : Limit, inputs : Seq([register : Reg, value : Number]), spec : SpecValues]

ServeCommand == [type : {"serve"}, port : Port]

AtMostOne(S) == \A x, y \in S : x = y

\* What parse_args may have after any of the flags.
IsParsed(S) == AtMostOne(S) /\ (S \subseteq CliCommand \/ S \subseteq ServeCommand)

\* A flag with its value, if it has one, as there may be on a command line.
IsFlag(f) == AtMostOne(f.value) /\ (f.flag \in Range(OutFlag) => f.value \subseteq Path)

LEMMA Artifacts ==
    /\ DOMAIN OutFlag = {"asm", "trace", "analysis", "result"}
    /\ Range(Artifact) = {"asm", "trace", "analysis", "result"}
    /\ \A a \in DOMAIN OutFlag : OutFlag[a] \in Range(OutFlag)
<1>1. DOMAIN OutFlag = {"asm", "trace", "analysis", "result"}
  BY DEF OutFlag
<1>2. DOMAIN Artifact = 1 .. 4 /\ Artifact[1] = "asm" /\ Artifact[2] = "trace"
      /\ Artifact[3] = "analysis" /\ Artifact[4] = "result"
  BY DEF Artifact
<1>3. Range(Artifact) = {Artifact[n] : n \in 1 .. 4}
  BY <1>2 DEF Range
<1>4. 1 .. 4 = {1, 2, 3, 4}
  OBVIOUS
<1>5. Range(Artifact) = {"asm", "trace", "analysis", "result"}
  BY <1>2, <1>3, <1>4
<1> QED
  BY <1>1, <1>5 DEF Range

LEMMA SpecTyped ==
    ASSUME NEW spec \in SpecValues, NEW f, AtMostOne(f.value)
    PROVE  SpecFlag(spec, f) \subseteq SpecValues /\ AtMostOne(SpecFlag(spec, f))
<1>1. DefaultScalar \in [kind : {"scalar"}, register : Reg]
  BY CliAssumption DEF DefaultScalar
<1>2. DefaultArray \in [kind : {"array"}, ptr_register : Reg, length_register : Reg,
                        elem_width : Width, signed : BOOLEAN]
  BY CliAssumption DEF DefaultArray
<1>3. spec.kind = "array" => spec \in
          [kind : {"array"}, ptr_register : Reg, length_register : Reg,
           elem_width : Width, signed : BOOLEAN]
  BY DEF SpecValues
<1>4. AsArray(spec) \in [kind : {"array"}, ptr_register : Reg, length_register : Reg,
                         elem_width : Width, signed : BOOLEAN]
  BY <1>2, <1>3 DEF AsArray
<1> DEFINE array == AsArray(spec)
<1>5. /\ \A r \in Reg : AsScalar(spec, r) \in SpecValues
      /\ \A r \in Reg : [array EXCEPT !.ptr_register = r] \in SpecValues
      /\ \A r \in Reg : [array EXCEPT !.length_register = r] \in SpecValues
      /\ \A w \in Width : [array EXCEPT !.elem_width = w] \in SpecValues
      /\ [array EXCEPT !.signed = FALSE] \in SpecValues
      /\ array \in SpecValues /\ DefaultScalar \in SpecValues
  <2>1. \A r \in Reg : AsScalar(spec, r) \in SpecValues
    BY <1>1 DEF AsScalar, SpecValues
  <2> HIDE DEF array
  <2> QED
    BY <1>1, <1>4, <2>1 DEF SpecValues, array
<1> HIDE DEF array
<1>6. CASE f.flag = "--result-kind"
  <2>1. SpecFlag(spec, f) =
            IF f.value = {"scalar"}
            THEN {IF spec.kind = "scalar" THEN spec ELSE DefaultScalar}
            ELSE IF f.value = {"array"} THEN {array} ELSE {}
    BY <1>6 DEF SpecFlag, array
  <2> QED
    BY <1>5, <2>1 DEF AtMostOne
<1>7. CASE f.flag = "--result-register"
  <2>1. SpecFlag(spec, f) = {AsScalar(spec, r) : r \in f.value \cap Reg}
    BY <1>7 DEF SpecFlag
  <2> QED
    BY <1>5, <2>1 DEF AtMostOne
<1>8. CASE f.flag = "--result-ptr-register"
  <2>1. SpecFlag(spec, f) = {[array EXCEPT !.ptr_register = r] : r \in f.value \cap Reg}
    BY <1>8 DEF SpecFlag, array
  <2> QED
    BY <1>5, <2>1 DEF AtMostOne
<1>9. CASE f.flag = "--result-length-register"
  <2>1. SpecFlag(spec, f) = {[array EXCEPT !.length_register = r] : r \in f.value \cap Reg}
    BY <1>9 DEF SpecFlag, array
  <2> QED
    BY <1>5, <2>1 DEF AtMostOne
<1>10. CASE f.flag = "--result-elem-width"
  <2>1. SpecFlag(spec, f) = {[array EXCEPT !.elem_width = w] : w \in f.value \cap Width}
    BY <1>10 DEF SpecFlag, array
  <2> QED
    BY <1>5, <2>1 DEF AtMostOne
<1>11. CASE f.flag = "--result-unsigned"
  <2>1. SpecFlag(spec, f) = {[array EXCEPT !.signed = FALSE]}
    BY <1>11 DEF SpecFlag, array
  <2> QED
    BY <1>5, <2>1 DEF AtMostOne
<1>12. CASE f.flag \notin {"--result-kind", "--result-register", "--result-ptr-register",
                           "--result-length-register", "--result-elem-width",
                           "--result-unsigned"}
  <2>1. SpecFlag(spec, f) = {}
    BY <1>12 DEF SpecFlag
  <2> QED
    BY <2>1 DEF AtMostOne
<1> QED
  BY <1>6, <1>7, <1>8, <1>9, <1>10, <1>11, <1>12

LEMMA InputTyped ==
    ASSUME NEW a
    PROVE  /\ ParseRegisterInput(a) \subseteq [register : Reg, value : Number]
           /\ AtMostOne(ParseRegisterInput(a))
BY DEF ParseRegisterInput, AtMostOne

LEMMA CliFlagTyped ==
    ASSUME NEW c \in CliCommand, NEW f, IsFlag(f)
    PROVE  CliFlag(c, f) \subseteq CliCommand /\ AtMostOne(CliFlag(c, f))
<1>1. CASE \E a \in DOMAIN OutFlag : f.flag = OutFlag[a]
  <2>0. f.flag \in {"--asm-out", "--trace-out", "--analysis-out", "--result-out"}
    BY <1>1, Artifacts DEF OutFlag
  <2>1. CliFlag(c, f) = {[c EXCEPT !.out = SetOut(c.out, f, path)] : path \in f.value}
    BY <1>1, <2>0 DEF CliFlag
  <2>2. f.value \subseteq Path /\ AtMostOne(f.value)
    BY <1>1, Artifacts DEF IsFlag
  <2>3. c.out \in [Range(Artifact) -> Path]
    BY DEF CliCommand
  <2>4. \A path \in f.value : SetOut(c.out, f, path) \in [Range(Artifact) -> Path]
    BY <2>2, <2>3, Artifacts DEF SetOut
  <2>5. \A path \in f.value : [c EXCEPT !.out = SetOut(c.out, f, path)] \in CliCommand
    BY <2>4 DEF CliCommand
  <2> QED
    BY <2>1, <2>2, <2>5 DEF AtMostOne
<1>2. CASE ~(\E a \in DOMAIN OutFlag : f.flag = OutFlag[a]) /\ f.flag = "--max-steps"
  <2>1. CliFlag(c, f) = {[c EXCEPT !.max_steps = n] : n \in f.value \cap Limit}
    BY <1>2 DEF CliFlag
  <2>2. \A n \in Limit : [c EXCEPT !.max_steps = n] \in CliCommand
    BY DEF CliCommand
  <2> QED
    BY <2>1, <2>2 DEF AtMostOne, IsFlag
<1>3. CASE ~(\E a \in DOMAIN OutFlag : f.flag = OutFlag[a]) /\ f.flag = "--reg"
  <2> DEFINE is == UNION {ParseRegisterInput(Split[w]) : w \in f.value \cap DOMAIN Split}
  <2>1. CliFlag(c, f) = {[c EXCEPT !.inputs = Append(@, i)] : i \in is}
    BY <1>3 DEF CliFlag
  <2>2. is \subseteq [register : Reg, value : Number]
    BY InputTyped
  <2>3. AtMostOne(is)
    <3> SUFFICES ASSUME NEW x \in is, NEW y \in is PROVE x = y
      BY DEF AtMostOne
    <3>1. PICK v \in f.value : x \in ParseRegisterInput(Split[v])
      OBVIOUS
    <3>2. PICK w \in f.value : y \in ParseRegisterInput(Split[w])
      OBVIOUS
    <3>3. v = w
      BY DEF IsFlag, AtMostOne
    <3> QED
      BY <3>1, <3>2, <3>3, InputTyped DEF AtMostOne
  <2> HIDE DEF is
  <2>4. c.inputs \in Seq([register : Reg, value : Number])
    BY DEF CliCommand
  <2>5. \A i \in is : Append(c.inputs, i) \in Seq([register : Reg, value : Number])
    BY <2>2, <2>4
  <2>6. \A i \in is : [c EXCEPT !.inputs = Append(@, i)] \in CliCommand
    BY <2>5 DEF CliCommand
  <2> QED
    BY <2>1, <2>3, <2>6 DEF AtMostOne
<1>4. CASE ~(\E a \in DOMAIN OutFlag : f.flag = OutFlag[a])
           /\ f.flag # "--max-steps" /\ f.flag # "--reg"
  <2>1. CliFlag(c, f) = {[c EXCEPT !.spec = s] : s \in SpecFlag(c.spec, f)}
    BY <1>4 DEF CliFlag
  <2>2. c.spec \in SpecValues
    BY DEF CliCommand
  <2>3. SpecFlag(c.spec, f) \subseteq SpecValues /\ AtMostOne(SpecFlag(c.spec, f))
    BY <2>2, SpecTyped DEF IsFlag
  <2>4. \A s \in SpecValues : [c EXCEPT !.spec = s] \in CliCommand
    BY DEF CliCommand
  <2> QED
    BY <2>1, <2>3, <2>4 DEF AtMostOne
<1> QED
  BY <1>1, <1>2, <1>3, <1>4

LEMMA FlaggedTyped ==
    ASSUME NEW S, IsParsed(S), NEW f, IsFlag(f)
    PROVE  IsParsed(Flagged(S, f))
<1>1. CASE S = {}
  BY <1>1 DEF Flagged, IsParsed, AtMostOne
<1>2. ASSUME NEW c \in S PROVE IsParsed(Flagged(S, f))
  <2>1. S = {c}
    BY DEF IsParsed, AtMostOne
  <2>2. CASE c \in CliCommand
    <3>1. c.type = "cli"
      BY <2>2 DEF CliCommand
    <3>2. Flagged(S, f) = CliFlag(c, f)
      BY <2>1, <3>1 DEF Flagged
    <3> QED
      BY <2>2, <3>2, CliFlagTyped DEF IsParsed
  <2>3. CASE c \in ServeCommand
    <3>1. c.type = "serve"
      BY <2>3 DEF ServeCommand
    <3>2. Flagged(S, f) = ServeFlag(c, f)
      BY <2>1, <3>1 DEF Flagged
    <3>3. \A p \in Port : [c EXCEPT !.port = p] \in ServeCommand
      BY <2>3 DEF ServeCommand
    <3>4. ServeFlag(c, f) \subseteq ServeCommand /\ AtMostOne(ServeFlag(c, f))
      BY <3>3 DEF ServeFlag, IsFlag, AtMostOne
    <3> QED
      BY <3>2, <3>4 DEF IsParsed
  <2> QED
    BY <2>1, <2>2, <2>3 DEF IsParsed
<1> QED
  BY <1>1, <1>2

LEMMA BareTyped ==
    ASSUME NEW first
    PROVE  IsParsed(Bare(first))
<1>1. CASE first = "serve"
  BY <1>1, CliAssumption DEF Bare, IsParsed, AtMostOne, ServeCommand
<1>2. CASE first # "serve"
  <2>1. DefaultScalar \in SpecValues
    BY CliAssumption DEF DefaultScalar, SpecValues
  <2>2. \A input \in DOMAIN Program : Stem[input] \in [Range(Artifact) -> Path]
    BY CliAssumption
  <2>3. <<>> \in Seq([register : Reg, value : Number])
    OBVIOUS
  <2>4. \A input \in DOMAIN Program :
          [type |-> "cli", input |-> input, out |-> Stem[input],
           max_steps |-> DefaultMaxSteps, inputs |-> <<>>, spec |-> DefaultScalar]
             \in CliCommand
    BY <2>1, <2>2, <2>3, CliAssumption DEF CliCommand
  <2> QED
    BY <1>2, <2>4 DEF Bare, IsParsed, AtMostOne
<1> QED
  BY <1>1, <1>2

IsLine(line) ==
    /\ Len(line.flags) \in Nat
    /\ \A n \in 1 .. Len(line.flags) : IsFlag(line.flags[n])

(* A command line stands for one command or for an error (parse_args).     *)
LEMMA ArgsTyped ==
    ASSUME NEW line, IsLine(line)
    PROVE  IsParsed(ParseArgs(line))
<1> DEFINE N == Len(line.flags)
<1>0. N \in Nat
  BY DEF IsLine
<1>1. PICK parsed : /\ ParseArgs(line) = parsed[N]
                    /\ parsed[0] = Bare(line.first)
                    /\ \A n \in 1 .. N :
                          parsed[n] = Flagged(parsed[n - 1], line.flags[n])
  BY <1>0, LoopOverFlags
<1> DEFINE S == {n \in Nat : n <= N => IsParsed(parsed[n])}
<1>3. 0 \in S
  BY <1>1, BareTyped
<1>4. ASSUME NEW n \in Nat, n \in S PROVE n + 1 \in S
  <2> SUFFICES ASSUME n + 1 <= N PROVE IsParsed(parsed[n + 1])
    OBVIOUS
  <2>1. n <= N /\ n + 1 \in 1 .. N /\ (n + 1) - 1 = n
    BY <1>0
  <2>2. parsed[n + 1] = Flagged(parsed[n], line.flags[n + 1])
    BY <1>1, <2>1
  <2>3. IsParsed(parsed[n]) /\ IsFlag(line.flags[n + 1])
    BY <1>4, <2>1 DEF IsLine
  <2> QED
    BY <2>2, <2>3, FlaggedTyped
<1>5. N \in S
  <2> HIDE DEF S, N
  <2> QED
    BY <1>0, <1>3, <1>4, Counting
<1> QED
  BY <1>0, <1>1, <1>5

-----------------------------------------------------------------------------
(* Processes. *)

Stages == {"parse", "run", "bind", "open", "fill", "serve", "ok", "err", "panic", "killed"}

IsCli(S) == \E c \in CliCommand : S = {c}

\* Where a process stands in run_cli agrees with what it has written, and one
\* that is there has one command.
ProcInv ==
    /\ \A p \in DOMAIN cmdline : IsLine(cmdline[p])
    /\ stage \in [Proc -> Stages]
    /\ DOMAIN command = Proc /\ \A p \in Proc : IsParsed(command[p])
    /\ written \in [Proc -> 0 .. 4]
    /\ files \in [Path -> SUBSET Proc]
    /\ \A p \in Proc :
          /\ stage[p] \in {"run", "open", "fill"} => IsCli(command[p])
          /\ stage[p] = "ok" <=> written[p] = 4
          /\ stage[p] \in {"parse", "run", "bind", "serve", "panic"} => written[p] = 0

\* What a step that writes nothing may do to a process after parse_args.
Moves(p, s) ==
    /\ Goto(p, s) /\ UNCHANGED <<cmdline, command, written, files, runs>>
    /\ \/ stage[p] = "run" /\ s \in {"err", "panic", "open", "killed"}
       \/ stage[p] = "bind" /\ s \in {"err", "serve"}
       \/ stage[p] = "serve" /\ s \in {"panic", "killed"}
       \/ stage[p] \in {"open", "fill"} /\ s \in {"err", "killed"}

CliStep ==
    \/ \E p \in Proc : Parse(p) \/ Open(p) \/ Fill(p) \/ (\E s \in Stages : Moves(p, s))
    \/ UNCHANGED cli_vars

LEMMA CliSteps ==
    ASSUME [Next]_vars
    PROVE  CliStep
<1>1. ASSUME NEW p \in Proc, RunInput(p) PROVE \E s \in Stages : Moves(p, s)
  <2>1. PICK c \in command[p] :
          Goto(p, CASE Program[c.input] \in {"missing", "err"} -> "err"
                    [] Program[c.input] = "panic"              -> "panic"
                    [] OTHER                                   -> "open")
    BY <1>1 DEF RunInput
  <2> DEFINE s == CASE Program[c.input] \in {"missing", "err"} -> "err"
                    [] Program[c.input] = "panic"              -> "panic"
                    [] OTHER                                   -> "open"
  <2>2. s \in {"err", "panic", "open"}
    OBVIOUS
  <2>3. Goto(p, s)
    BY <2>1
  <2> HIDE DEF s
  <2> QED
    BY <1>1, <2>2, <2>3 DEF RunInput, Moves, Stages
<1>2. ASSUME NEW p \in Proc, Bind(p) PROVE \E s \in Stages : Moves(p, s)
  <2>1. PICK c \in command[p] :
          Goto(p, IF \E q \in Proc : ServesOn(q, c.port) THEN "err" ELSE "serve")
    BY <1>2 DEF Bind
  <2>2. Goto(p, "err") \/ Goto(p, "serve")
    BY <2>1
  <2> QED
    BY <1>2, <2>2 DEF Bind, Moves, Stages
<1>3. ASSUME NEW p \in Proc, FailWrite(p) \/ EndProcess(p) PROVE \E s \in Stages : Moves(p, s)
  BY <1>3 DEF FailWrite, EndProcess, Kill, Moves, Stages
<1>4. ASSUME NEW p \in Proc, NEW c \in handled, PanicOf(p, c)
      PROVE  \E s \in Stages : Moves(p, s)
  BY <1>4 DEF PanicOf, ServesOn, Moves, Stages
<1>5. CASE CliNext
  BY <1>1, <1>3, <1>5 DEF CliNext, CliStep
<1>6. CASE ServerStep
  BY <1>4, <1>6 DEF ServerStep, CliStep
<1> QED
  BY <1>2, <1>3, <1>5, <1>6 DEF Next, vars, CliStep

\* The files of a command line, in the order in which they are written.
LEMMA OutputsAre ==
    ASSUME NEW p \in Proc, IsCli(command[p])
    PROVE  /\ Outputs(p) \in [1 .. 4 -> Path]
           /\ written[p] \in 0 .. 3 => NextOut(p) = {Outputs(p)[written[p] + 1]}
<1>1. PICK c \in CliCommand : command[p] = {c}
  BY DEF IsCli
<1>2. (CHOOSE x \in command[p] : TRUE) = c
  BY <1>1
<1>3. Outputs(p) = <<c.out["asm"], c.out["trace"], c.out["analysis"], c.out["result"]>>
  BY <1>2 DEF Outputs
<1>4. /\ c.out["asm"] \in Path /\ c.out["trace"] \in Path
      /\ c.out["analysis"] \in Path /\ c.out["result"] \in Path
  BY Artifacts DEF CliCommand
<1>5. \A n \in 1 .. 4 : n = 1 \/ n = 2 \/ n = 3 \/ n = 4
  OBVIOUS
<1>6. Outputs(p) \in [1 .. 4 -> Path]
  BY <1>3, <1>4, <1>5
<1>7. \A n \in 1 .. 4 : Outputs(p)[n] = c.out[Artifact[n]]
  BY <1>3, <1>5 DEF Artifact
<1>8. written[p] \in 0 .. 3 => NextOut(p) = {Outputs(p)[written[p] + 1]}
  <2> HAVE written[p] \in 0 .. 3
  <2>1. written[p] + 1 \in 1 .. 4
    OBVIOUS
  <2>2. NextOut(p) = {c.out[Artifact[written[p] + 1]]}
    BY <1>1 DEF NextOut
  <2> QED
    BY <1>7, <2>1, <2>2
<1> QED
  BY <1>6, <1>8

\* What the two halves of fs::write do to the files.
LEMMA WritesAre ==
    ASSUME ProcInv, NEW p \in Proc, Open(p) \/ Fill(p)
    PROVE  /\ IsCli(command[p]) /\ written[p] \in 0 .. 3
           /\ Outputs(p)[written[p] + 1] \in Path
           /\ Open(p) => files' = [files EXCEPT ![Outputs(p)[written[p] + 1]] = {}]
           /\ Fill(p) => \E rest \in {{}, files[Outputs(p)[written[p] + 1]]} :
                            files' = [files EXCEPT ![Outputs(p)[written[p] + 1]] = {p} \cup rest]
<1>1. IsCli(command[p])
  BY DEF ProcInv, Open, Fill
<1>2. written[p] \in 0 .. 3
  <2>1. written[p] \in 0 .. 4 /\ written[p] # 4
    BY DEF ProcInv, Open, Fill
  <2> QED
    BY <2>1
<1>3. written[p] + 1 \in 1 .. 4
  BY <1>2
<1>4. NextOut(p) = {Outputs(p)[written[p] + 1]} /\ Outputs(p)[written[p] + 1] \in Path
  BY <1>1, <1>2, <1>3, OutputsAre
<1> QED
  BY <1>1, <1>2, <1>4 DEF Open, Fill

LEMMA ProcStarts ==
    ASSUME Init
    PROVE  ProcInv
<1>1. PICK s \in Scenarios : cmdline = s.lines
  BY DEF Init
<1>2. ASSUME NEW p \in DOMAIN cmdline PROVE IsLine(cmdline[p])
  <2>1. /\ Len(cmdline[p].flags) \in Nat
        /\ DOMAIN cmdline[p].flags = 1 .. Len(cmdline[p].flags)
        /\ \A n \in DOMAIN cmdline[p].flags :
              /\ \A v, w \in cmdline[p].flags[n].value : v = w
              /\ cmdline[p].flags[n].flag \in Range(OutFlag)
                    => cmdline[p].flags[n].value \subseteq Path
    BY <1>1, ScenarioAssumption
  <2> QED
    BY <2>1 DEF IsLine, IsFlag, AtMostOne
<1>3. /\ stage = [p \in Proc |-> "parse"] /\ command = [p \in Proc |-> {}]
      /\ written = [p \in Proc |-> 0] /\ files = [path \in Path |-> {}]
  BY DEF Init, CliInit
<1>4. IsParsed({})
  BY DEF IsParsed, AtMostOne
<1> QED
  BY <1>2, <1>3, <1>4 DEF ProcInv, Stages

LEMMA ProcInvKept ==
    ASSUME ProcInv, CliStep
    PROVE  ProcInv'
<1>0. /\ DOMAIN stage = Proc /\ DOMAIN written = Proc /\ DOMAIN command = Proc
      /\ DOMAIN files = Path
  BY DEF ProcInv
<1>1. ASSUME NEW p \in Proc, Parse(p) PROVE ProcInv'
  <2>1. command' = [command EXCEPT ![p] = ParseArgs(cmdline[p])]
    BY <1>1 DEF Parse
  <2>2. IsParsed(ParseArgs(cmdline[p]))
    BY <1>1, ArgsTyped DEF Parse, ProcInv
  <2>3. /\ command'[p] = ParseArgs(cmdline[p]) /\ DOMAIN command' = Proc
        /\ \A q \in Proc \ {p} : command'[q] = command[q]
    BY <1>0, <2>1
  <2> DEFINE s == CASE \E c \in command'[p] : c.type = "cli"   -> "run"
                    [] \E c \in command'[p] : c.type = "serve" -> "bind"
                    [] OTHER                                   -> "err"
  <2>4. stage' = [stage EXCEPT ![p] = s]
    BY <1>1 DEF Parse, Goto
  <2>5. s \in {"run", "bind", "err"} /\ (s = "run" => IsCli(command'[p]))
    <3>1. CASE \E c \in command'[p] : c.type = "cli"
      <4>1. PICK c \in command'[p] : c.type = "cli"
        BY <3>1
      <4>2. command'[p] = {c} /\ c \in CliCommand
        BY <2>2, <2>3, <4>1 DEF IsParsed, AtMostOne, ServeCommand
      <4>3. ~(\E d \in command'[p] : d.type = "serve")
        BY <4>1, <4>2
      <4> QED
        BY <3>1, <4>2, <4>3 DEF IsCli
    <3>2. CASE ~(\E c \in command'[p] : c.type = "cli")
      <4>1. s \in {"bind", "err"}
        BY <3>2
      <4> HIDE DEF s
      <4> QED
        BY <4>1
    <3> QED
      BY <3>1, <3>2
  <2> HIDE DEF s
  <2>6. /\ stage'[p] = s /\ DOMAIN stage' = Proc
        /\ \A q \in Proc \ {p} : stage'[q] = stage[q]
        /\ stage[p] = "parse" /\ UNCHANGED <<cmdline, written, files>>
    BY <1>0, <1>1, <2>4 DEF Parse
  <2>7. stage' \in [Proc -> Stages]
    BY <2>4, <2>5 DEF ProcInv, Stages
  <2>8. \A q \in Proc : IsParsed(command'[q])
    BY <2>2, <2>3 DEF ProcInv
  <2>9. ASSUME NEW q \in Proc
        PROVE  /\ stage'[q] \in {"run", "open", "fill"} => IsCli(command'[q])
               /\ stage'[q] = "ok" <=> written[q] = 4
               /\ stage'[q] \in {"parse", "run", "bind", "serve", "panic"} => written[q] = 0
    <3>1. CASE q = p
      BY <2>5, <2>6, <3>1 DEF ProcInv
    <3>2. CASE q # p
      BY <2>3, <2>6, <3>2 DEF ProcInv
    <3> QED
      BY <3>1, <3>2
  <2> QED
    BY <2>3, <2>6, <2>7, <2>8, <2>9 DEF ProcInv
<1>2. ASSUME NEW p \in Proc, NEW s \in Stages, Moves(p, s) PROVE ProcInv'
  <2>1. /\ stage' = [stage EXCEPT ![p] = s]
        /\ UNCHANGED <<cmdline, command, written, files, runs>>
    BY <1>2 DEF Moves, Goto
  <2>2. /\ stage'[p] = s /\ \A q \in Proc \ {p} : stage'[q] = stage[q]
        /\ stage' \in [Proc -> Stages]
    BY <2>1 DEF ProcInv
  <2>3. ASSUME NEW q \in Proc
        PROVE  /\ stage'[q] \in {"run", "open", "fill"} => IsCli(command[q])
               /\ stage'[q] = "ok" <=> written[q] = 4
               /\ stage'[q] \in {"parse", "run", "bind", "serve", "panic"} => written[q] = 0
    <3>1. CASE q = p
      BY <1>2, <2>2, <3>1 DEF ProcInv, Moves
    <3>2. CASE q # p
      BY <2>2, <3>2 DEF ProcInv
    <3> QED
      BY <3>1, <3>2
  <2> QED
    BY <2>1, <2>2, <2>3 DEF ProcInv
<1>3. ASSUME NEW p \in Proc, Open(p) PROVE ProcInv'
  <2>1. /\ files' = [files EXCEPT ![Outputs(p)[written[p] + 1]] = {}]
        /\ IsCli(command[p]) /\ written[p] \in 0 .. 3
    BY <1>3, WritesAre
  <2>2. files' \in [Path -> SUBSET Proc]
    BY <2>1 DEF ProcInv
  <2>3. /\ stage' = [stage EXCEPT ![p] = "fill"] /\ UNCHANGED <<cmdline, command, written>>
        /\ stage[p] = "open"
    BY <1>3 DEF Open, Goto
  <2>4. stage' \in [Proc -> Stages] /\ stage'[p] = "fill"
        /\ \A q \in Proc \ {p} : stage'[q] = stage[q]
    BY <2>3 DEF ProcInv, Stages
  <2>5. \A q \in Proc :
          /\ stage'[q] \in {"run", "open", "fill"} => IsCli(command[q])
          /\ stage'[q] = "ok" <=> written[q] = 4
          /\ stage'[q] \in {"parse", "run", "bind", "serve", "panic"} => written[q] = 0
    BY <2>1, <2>3, <2>4 DEF ProcInv
  <2> QED
    BY <2>2, <2>3, <2>4, <2>5 DEF ProcInv
<1>4. ASSUME NEW p \in Proc, Fill(p) PROVE ProcInv'
  <2>1. PICK rest \in {{}, files[Outputs(p)[written[p] + 1]]} :
          files' = [files EXCEPT ![Outputs(p)[written[p] + 1]] = {p} \cup rest]
    BY <1>4, WritesAre
  <2>2. IsCli(command[p]) /\ written[p] \in 0 .. 3 /\ Outputs(p)[written[p] + 1] \in Path
    BY <1>4, WritesAre
  <2>3. {p} \cup rest \in SUBSET Proc
    BY <2>1, <2>2 DEF ProcInv
  <2>4. files' \in [Path -> SUBSET Proc]
    BY <2>1, <2>3 DEF ProcInv
  <2>5. Len(Artifact) = 4
    BY DEF Artifact
  <2>6. /\ written' = [written EXCEPT ![p] = @ + 1] /\ UNCHANGED <<cmdline, command>>
        /\ stage' = [stage EXCEPT ![p] = IF written'[p] = 4 THEN "ok" ELSE "open"]
        /\ stage[p] = "fill"
    BY <1>4, <2>5 DEF Fill, Goto
  <2>7. /\ written'[p] = written[p] + 1 /\ \A q \in Proc \ {p} : written'[q] = written[q]
        /\ written' \in [Proc -> 0 .. 4]
    BY <2>2, <2>6 DEF ProcInv
  <2>8. /\ stage'[p] = (IF written'[p] = 4 THEN "ok" ELSE "open")
        /\ \A q \in Proc \ {p} : stage'[q] = stage[q]
        /\ stage' \in [Proc -> Stages]
    BY <2>6 DEF ProcInv, Stages
  <2>9. \A q \in Proc :
          /\ stage'[q] \in {"run", "open", "fill"} => IsCli(command[q])
          /\ stage'[q] = "ok" <=> written'[q] = 4
          /\ stage'[q] \in {"parse", "run", "bind", "serve", "panic"} => written'[q] = 0
    BY <2>2, <2>6, <2>7, <2>8 DEF ProcInv
  <2> QED
    BY <2>4, <2>6, <2>7, <2>8, <2>9 DEF ProcInv
<1>5. CASE UNCHANGED cli_vars
  BY <1>5 DEF cli_vars, ProcInv
<1> QED
  BY <1>1, <1>2, <1>3, <1>4, <1>5 DEF CliStep

-----------------------------------------------------------------------------
(* Files. *)

Newest == runs[Len(runs)]

\* Who is writing is in the newest of the runs, and who is in one of them has
\* begun to write.
RunsInv ==
    /\ runs \in Seq(SUBSET Proc)
    /\ \A path \in Path : files[path] \subseteq Writers
    /\ \A p \in Writing : runs # <<>> /\ p \in Newest
    /\ \A p \in Proc : p \notin Writers => written[p] = 0 /\ stage[p] # "fill"
    /\ \A p \in Writers : /\ stage[p] \in {"open", "fill", "ok", "err", "killed"}
                          /\ stage[p] = "open" => written[p] > 0
                          /\ IsCli(command[p])

\* All runs go to the files of P, and these are four.
Shared(P) ==
    /\ P \in [1 .. 4 -> Path] /\ IsInjective(P)
    /\ \A p \in Writers : Outputs(p) = P

\* Nobody's bytes are in a file that he has not come to; in a file that one of
\* the newest run has come to there are bytes of that run, if there are any; a
\* file is never newer than one before it; and whoever writes alone has his
\* files for himself.
AgesInv(P) ==
    /\ \A n \in 1 .. 4 : \A p \in files[P[n]] : n <= written[p]
    /\ runs # <<>> => \A p \in Newest : \A n \in 1 .. 4 :
          n <= written[p] => files[P[n]] = {} \/ files[P[n]] \cap Newest # {}
    /\ \A m, n \in 1 .. 4 : m < n /\ files[P[m]] # {} => Age(P[n]) <= Age(P[m])
    /\ \A p \in Proc : runs # <<>> /\ Newest = {p} =>
          /\ \A n \in 1 .. 4 : n <= written[p] => files[P[n]] = {p}
          /\ stage[p] = "fill" => files[P[written[p] + 1]] = {}

FilesInv == \A P : Shared(P) => AgesInv(P)

\* Of finitely many numbers one is the greatest.
LEMMA GreatestOf ==
    ASSUME NEW u \in Nat, NEW S \in SUBSET (1 .. u), S # {}
    PROVE  \E x \in S : \A y \in S : y <= x
<1> DEFINE T == {n \in Nat : \A R \in SUBSET (1 .. n) : R # {} => \E x \in R : \A y \in R : y <= x}
<1>1. 0 \in T
  BY 1 .. 0 = {}
<1>2. ASSUME NEW n \in Nat, n \in T PROVE n + 1 \in T
  <2> SUFFICES ASSUME NEW R \in SUBSET (1 .. n + 1), R # {}
               PROVE  \E x \in R : \A y \in R : y <= x
    OBVIOUS
  <2>1. CASE n + 1 \in R
    BY <2>1
  <2>2. CASE n + 1 \notin R
    <3>1. R \in SUBSET (1 .. n)
      BY <2>2
    <3> QED
      BY <1>2, <3>1
  <2> QED
    BY <2>1, <2>2
<1>3. u \in T
  <2> HIDE DEF T
  <2> QED
    BY <1>1, <1>2, Counting
<1> QED
  BY <1>3

\* The age of a file that holds the bytes of S, when the runs are rs.
AgesOf(rs, S) == {n \in DOMAIN rs : rs[n] \cap S # {}}
MaxOf(ns)     == IF ns = {} THEN 0 ELSE CHOOSE n \in ns : \A m \in ns : m <= n
AgeOf(rs, S)  == MaxOf(AgesOf(rs, S))

LEMMA AgeIs ==
    ASSUME NEW path
    PROVE  Age(path) = AgeOf(runs, files[path])
BY DEF Age, AgeOf, AgesOf, MaxOf

LEMMA AgeNext ==
    ASSUME NEW path
    PROVE  Age(path)' = AgeOf(runs', files'[path])
BY DEF Age, AgeOf, AgesOf, MaxOf

LEMMA AgeBounds ==
    ASSUME NEW rs \in Seq(SUBSET Proc), NEW S
    PROVE  /\ AgeOf(rs, S) \in 0 .. Len(rs)
           /\ S = {} => AgeOf(rs, S) = 0
           /\ rs # <<>> /\ rs[Len(rs)] \cap S # {} => AgeOf(rs, S) = Len(rs)
<1> DEFINE ns == AgesOf(rs, S)
<1>1. Len(rs) \in Nat /\ DOMAIN rs = 1 .. Len(rs)
  OBVIOUS
<1>2. ns \in SUBSET (1 .. Len(rs))
  BY <1>1 DEF AgesOf
<1>3. S = {} => ns = {}
  BY DEF AgesOf
<1>4. rs # <<>> /\ rs[Len(rs)] \cap S # {} => Len(rs) \in ns
  BY <1>1 DEF AgesOf
<1> HIDE DEF ns
<1>5. CASE ns = {}
  <2>1. MaxOf(ns) = 0
    BY <1>5 DEF MaxOf
  <2> QED
    BY <1>1, <1>4, <1>5, <2>1 DEF AgeOf, ns
<1>6. CASE ns # {}
  <2>1. \E x \in ns : \A y \in ns : y <= x
    BY <1>1, <1>2, <1>6, GreatestOf
  <2>2. MaxOf(ns) \in ns /\ \A y \in ns : y <= MaxOf(ns)
    BY <1>6, <2>1 DEF MaxOf
  <2>3. MaxOf(ns) \in 1 .. Len(rs)
    BY <1>2, <2>2
  <2>4. Len(rs) \in ns => MaxOf(ns) = Len(rs)
    BY <1>1, <2>2, <2>3
  <2> QED
    BY <1>1, <1>3, <1>4, <1>6, <2>3, <2>4 DEF AgeOf, ns
<1> QED
  BY <1>5, <1>6

LEMMA RunsStart ==
    ASSUME Init
    PROVE  RunsInv /\ FilesInv
<1>1. /\ runs = <<>> /\ files = [path \in Path |-> {}]
      /\ written = [p \in Proc |-> 0] /\ stage = [p \in Proc |-> "parse"]
  BY DEF Init, CliInit
<1>2. Writers = {} /\ Writing = {}
  BY <1>1 DEF Writers, Writing, Range
<1>3. RunsInv
  BY <1>1, <1>2 DEF RunsInv
<1>4. ASSUME NEW P, P \in [1 .. 4 -> Path] PROVE AgesInv(P)
  <2>1. \A n \in 1 .. 4 : files[P[n]] = {}
    BY <1>1, <1>4
  <2> QED
    BY <1>1, <2>1 DEF AgesInv
<1> QED
  BY <1>3, <1>4 DEF FilesInv, Shared

\* A step that writes nothing: nobody writes who did not before, and nothing
\* changes about the command of one that has begun.
Idles ==
    /\ UNCHANGED <<written, files, runs>>
    /\ \A p \in Proc : stage'[p] = "fill" => stage[p] = "fill"
    /\ \A p \in Proc : stage'[p] = "open" /\ written[p] > 0 => stage[p] = "open"
    /\ \A p \in Writers : command'[p] = command[p]
    /\ \A p \in Writers : /\ stage'[p] \in {"open", "fill", "ok", "err", "killed"}
                          /\ stage'[p] = "open" => stage[p] = "open"

LEMMA WritersAre ==
    ASSUME RunsInv
    PROVE  /\ Writers \subseteq Proc
           /\ \A n \in 1 .. Len(runs) : runs[n] \subseteq Writers
           /\ Len(runs) \in Nat /\ DOMAIN runs = 1 .. Len(runs)
<1>1. Len(runs) \in Nat /\ DOMAIN runs = 1 .. Len(runs)
      /\ \A n \in 1 .. Len(runs) : runs[n] \in SUBSET Proc
  BY DEF RunsInv
<1> QED
  BY <1>1 DEF Writers, Range

LEMMA StillIdle ==
    ASSUME ProcInv, RunsInv, NEW p \in Proc, Parse(p) \/ \E s \in Stages : Moves(p, s)
    PROVE  Idles
<1>0. Writers \subseteq Proc /\ DOMAIN stage = Proc /\ DOMAIN command = Proc
  BY WritersAre DEF ProcInv
<1>1. CASE Parse(p)
  <2>1. /\ command' = [command EXCEPT ![p] = ParseArgs(cmdline[p])]
        /\ UNCHANGED <<written, files, runs>> /\ stage[p] = "parse"
    BY <1>1 DEF Parse
  <2> DEFINE s == CASE \E c \in command'[p] : c.type = "cli"   -> "run"
                    [] \E c \in command'[p] : c.type = "serve" -> "bind"
                    [] OTHER                                   -> "err"
  <2>2. stage' = [stage EXCEPT ![p] = s]
    BY <1>1 DEF Parse, Goto
  <2>3. s \in {"run", "bind", "err"}
    <3>1. \A c \in command'[p] : c.type = "cli" => \A d \in command'[p] : d.type # "serve"
      <4>1. IsParsed(ParseArgs(cmdline[p])) /\ command'[p] = ParseArgs(cmdline[p])
        BY <1>0, <1>1, <2>1, ArgsTyped DEF Parse, ProcInv
      <4> QED
        BY <4>1 DEF IsParsed, AtMostOne
    <3> QED
      BY <3>1
  <2> HIDE DEF s
  <2>4. p \notin Writers
    BY <2>1 DEF RunsInv
  <2>5. /\ stage'[p] = s /\ \A q \in Proc \ {p} : stage'[q] = stage[q] /\ command'[q] = command[q]
    BY <1>0, <2>1, <2>2
  <2> QED
    BY <1>0, <2>1, <2>3, <2>4, <2>5 DEF Idles, RunsInv
<1>2. ASSUME NEW s \in Stages, Moves(p, s) PROVE Idles
  <2>1. /\ stage' = [stage EXCEPT ![p] = s]
        /\ UNCHANGED <<command, written, files, runs>>
    BY <1>2 DEF Moves, Goto
  <2>2. stage'[p] = s /\ \A q \in Proc \ {p} : stage'[q] = stage[q]
    BY <1>0, <2>1
  <2>3. s # "fill"
    BY <1>2 DEF Moves
  <2>4. s = "open" => p \notin Writers /\ written[p] = 0
    BY <1>2 DEF Moves, RunsInv
  <2>5. p \in Writers => s \in {"err", "killed"}
    BY <1>2 DEF Moves, RunsInv
  <2> QED
    BY <1>0, <2>1, <2>2, <2>3, <2>4, <2>5 DEF Idles, RunsInv
<1> QED
  BY <1>1, <1>2

LEMMA IdleKeeps ==
    ASSUME ProcInv, RunsInv, FilesInv, Idles
    PROVE  RunsInv' /\ FilesInv'
<1>0. Writers \subseteq Proc
  BY WritersAre
<1>1. Writers' = Writers /\ Newest' = Newest
  BY DEF Idles, Writers, Newest
<1>2. Writing' \subseteq Writing
  BY DEF Idles, Writing
<1>3. RunsInv'
  <2>1. \A p \in Proc : p \notin Writers => written[p] = 0 /\ stage'[p] # "fill"
    BY DEF Idles, RunsInv
  <2>2. \A p \in Writers : /\ stage'[p] \in {"open", "fill", "ok", "err", "killed"}
                           /\ stage'[p] = "open" => written[p] > 0
                           /\ IsCli(command'[p])
    BY DEF Idles, RunsInv
  <2>3. /\ runs \in Seq(SUBSET Proc)
        /\ \A path \in Path : files[path] \subseteq Writers
        /\ \A p \in Writing' : runs # <<>> /\ p \in Newest
    BY <1>2 DEF RunsInv
  <2>4. UNCHANGED <<written, files, runs>>
    BY DEF Idles
  <2> QED
    BY <1>1, <2>1, <2>2, <2>3, <2>4 DEF RunsInv
<1>4. ASSUME NEW P, Shared(P)' PROVE AgesInv(P)'
  <2>1. \A p \in Writers : Outputs(p)' = Outputs(p)
    BY DEF Idles, Outputs
  <2>2. Shared(P)
    BY <1>1, <1>4, <2>1 DEF Shared
  <2>3. AgesInv(P)
    BY <2>2 DEF FilesInv
  <2>4. UNCHANGED <<written, files, runs>> /\ \A path : Age(path)' = Age(path)
    BY DEF Idles, Age
  <2>5. \A p \in Proc : stage'[p] = "fill" => stage[p] = "fill"
    BY DEF Idles
  <2> QED
    BY <1>1, <2>3, <2>4, <2>5 DEF AgesInv
<1> QED
  BY <1>3, <1>4 DEF FilesInv

\* What stays for a process that writes, and for all others.
LEMMA WriterStays ==
    ASSUME ProcInv, RunsInv, NEW p \in Proc, Open(p) \/ Fill(p)
    PROVE  /\ UNCHANGED command
           /\ \A q \in Proc \ {p} : stage'[q] = stage[q] /\ written'[q] = written[q]
           /\ Open(p) => stage[p] = "open" /\ stage'[p] = "fill" /\ UNCHANGED written
           /\ Fill(p) => /\ stage[p] = "fill" /\ UNCHANGED runs
                         /\ written'[p] = written[p] + 1
                         /\ stage'[p] = IF written[p] + 1 = 4 THEN "ok" ELSE "open"
<1>1. DOMAIN stage = Proc /\ DOMAIN written = Proc
  BY DEF ProcInv
<1>2. Len(Artifact) = 4
  BY DEF Artifact
<1> QED
  BY <1>1, <1>2 DEF Open, Fill, Goto

\* The runs after p opens a file: p joins those who write, or follows them.
LEMMA OpenRuns ==
    ASSUME ProcInv, RunsInv, NEW p \in Proc, Open(p)
    PROVE  /\ runs' \in Seq(SUBSET Proc) /\ runs' # <<>>
           /\ Writers' = Writers \cup {p}
           /\ Writing' = Writing \cup {p}
           /\ \A path \in Path : AgesOf(runs', files[path]) = AgesOf(runs, files[path])
           /\ \/ written[p] > 0 /\ runs' = runs /\ p \in Newest
              \/ written[p] = 0 /\ p \notin Writers /\ Writing = {} /\ Newest' = {p}
              \/ /\ written[p] = 0 /\ p \notin Writers /\ runs # <<>>
                 /\ Newest' = Newest \cup {p}
                 /\ \E q \in Newest : q # p
<1>0. /\ Len(runs) \in Nat /\ DOMAIN runs = 1 .. Len(runs)
      /\ \A n \in 1 .. Len(runs) : runs[n] \in SUBSET Proc
      /\ Writers = {q \in Proc : \E n \in 1 .. Len(runs) : q \in runs[n]}
  <2>1. /\ Len(runs) \in Nat /\ DOMAIN runs = 1 .. Len(runs)
        /\ \A n \in 1 .. Len(runs) : runs[n] \in SUBSET Proc
    BY DEF RunsInv
  <2> QED
    BY <2>1 DEF Writers, Range
<1>1. /\ stage[p] = "open" /\ stage'[p] = "fill" /\ UNCHANGED written
      /\ \A q \in Proc \ {p} : stage'[q] = stage[q]
  BY WriterStays
<1>2. Writing' = Writing \cup {p}
  BY <1>1 DEF Writing
<1>3. written[p] \in 0 .. 4
  BY DEF ProcInv
<1>4. CASE written[p] > 0
  <2>1. p \in Writing
    BY <1>1, <1>4 DEF Writing
  <2>2. runs' = runs /\ p \in Newest /\ runs # <<>>
    BY <1>4, <2>1 DEF Open, RunsInv
  <2>3. Len(runs) \in 1 .. Len(runs)
    BY <1>0, <2>2 DEF RunsInv
  <2>4. p \in Writers
    BY <1>0, <2>2, <2>3 DEF Newest
  <2>5. Writers' = Writers
    BY <2>2 DEF Writers
  <2>6. runs' \in Seq(SUBSET Proc)
    BY <2>2 DEF RunsInv
  <2> QED
    BY <1>2, <1>4, <2>2, <2>4, <2>5, <2>6
<1>5. CASE written[p] = 0
  <2>1. p \notin Writers
    BY <1>1, <1>5 DEF RunsInv
  <2>2. \A path \in Path : p \notin files[path]
    BY <2>1 DEF RunsInv
  <2>3. runs' = Begin(p)
    BY <1>5 DEF Open
  <2>4. CASE Writing = {}
    <3>1. runs' = Append(runs, {p})
      BY <2>3, <2>4 DEF Begin
    <3>2. /\ runs' \in Seq(SUBSET Proc) /\ Len(runs') = Len(runs) + 1
          /\ \A n \in 1 .. Len(runs) : runs'[n] = runs[n]
          /\ runs'[Len(runs) + 1] = {p}
          /\ DOMAIN runs' = 1 .. Len(runs) + 1
      BY <3>1 DEF RunsInv
    <3>3. Newest' = {p} /\ runs' # <<>>
      BY <1>0, <3>2 DEF Newest
    <3>4. \A n : n \in 1 .. Len(runs) + 1 <=> n \in 1 .. Len(runs) \/ n = Len(runs) + 1
      BY <1>0
    <3>5. Writers' = UNION {runs'[n] : n \in 1 .. Len(runs) + 1}
      BY <3>2 DEF Writers, Range
    <3>6. Writers' = Writers \cup {p}
      BY <1>0, <3>2, <3>4, <3>5
    <3>7. ASSUME NEW path \in Path PROVE AgesOf(runs', files[path]) = AgesOf(runs, files[path])
      <4>1. {p} \cap files[path] = {}
        BY <2>2
      <4> QED
        BY <1>0, <3>2, <3>4, <4>1 DEF AgesOf
    <3> QED
      BY <1>2, <1>5, <2>1, <2>4, <3>2, <3>3, <3>6, <3>7
  <2>5. CASE Writing # {}
    <3>1. PICK q \in Writing : runs # <<>> /\ q \in Newest
      BY <2>5 DEF RunsInv
    <3>2. q # p
      BY <1>1, <1>5 DEF Writing
    <3>3. runs' = [runs EXCEPT ![Len(runs)] = @ \cup {p}]
      BY <2>3, <2>5 DEF Begin
    <3>4. Len(runs) \in 1 .. Len(runs)
      BY <1>0, <3>1 DEF RunsInv
    <3>5. /\ DOMAIN runs' = 1 .. Len(runs) /\ runs'[Len(runs)] = Newest \cup {p}
          /\ \A n \in 1 .. Len(runs) : n # Len(runs) => runs'[n] = runs[n]
      BY <1>0, <3>3, <3>4 DEF Newest
    <3>6. runs' \in Seq(SUBSET Proc) /\ Len(runs') = Len(runs)
      BY <1>0, <3>3, <3>4 DEF RunsInv
    <3>7. Newest' = Newest \cup {p}
      BY <3>5, <3>6 DEF Newest
    <3>8. Writers' = UNION {runs'[n] : n \in 1 .. Len(runs)}
      BY <3>5 DEF Writers, Range
    <3>9. Writers' = Writers \cup {p}
      <4>1. ASSUME NEW x PROVE x \in Writers' <=> \E n \in 1 .. Len(runs) : x \in runs'[n]
        BY <3>8
      <4>2. ASSUME NEW x PROVE x \in Writers <=> \E n \in 1 .. Len(runs) : x \in runs[n]
        BY <1>0
      <4>3. ASSUME NEW n \in 1 .. Len(runs), NEW x
            PROVE  x \in runs'[n] <=> x \in runs[n] \/ (n = Len(runs) /\ x = p)
        BY <3>5 DEF Newest
      <4>4. ASSUME NEW x PROVE x \in Writers' <=> x \in Writers \/ x = p
        BY <3>4, <4>1, <4>2, <4>3
      <4> QED
        BY <4>4
    <3>10. ASSUME NEW path \in Path PROVE AgesOf(runs', files[path]) = AgesOf(runs, files[path])
      <4>1. (Newest \cup {p}) \cap files[path] = Newest \cap files[path]
        BY <2>2
      <4> QED
        BY <1>0, <3>5, <4>1 DEF AgesOf, Newest
    <3>11. runs' # <<>>
      BY <1>0, <3>1, <3>4, <3>6 DEF RunsInv
    <3> QED
      BY <1>2, <1>5, <2>1, <3>1, <3>2, <3>6, <3>7, <3>9, <3>10, <3>11
  <2> QED
    BY <2>4, <2>5
<1> QED
  BY <1>3, <1>4, <1>5

LEMMA OpenKeeps ==
    ASSUME ProcInv, RunsInv, FilesInv, NEW p \in Proc, Open(p)
    PROVE  RunsInv' /\ FilesInv'
<1> DEFINE k == written[p] + 1
<1>1. /\ IsCli(command[p]) /\ written[p] \in 0 .. 3 /\ k \in 1 .. 4
      /\ Outputs(p)[k] \in Path
      /\ files' = [files EXCEPT ![Outputs(p)[k]] = {}]
  BY WritesAre
<1>2. /\ UNCHANGED <<command, written>> /\ stage[p] = "open" /\ stage'[p] = "fill"
      /\ \A q \in Proc \ {p} : stage'[q] = stage[q]
  BY WriterStays
<1>3. /\ runs' \in Seq(SUBSET Proc) /\ runs' # <<>>
      /\ Writers' = Writers \cup {p}
      /\ Writing' = Writing \cup {p}
      /\ \A path \in Path : AgesOf(runs', files[path]) = AgesOf(runs, files[path])
  BY OpenRuns
<1>4. \/ written[p] > 0 /\ runs' = runs /\ p \in Newest
      \/ written[p] = 0 /\ p \notin Writers /\ Writing = {} /\ Newest' = {p}
      \/ /\ written[p] = 0 /\ p \notin Writers /\ runs # <<>>
         /\ Newest' = Newest \cup {p}
         /\ \E q \in Newest : q # p
  BY OpenRuns
<1>5. /\ files'[Outputs(p)[k]] = {}
      /\ \A path \in Path : path # Outputs(p)[k] => files'[path] = files[path]
  BY <1>1 DEF ProcInv
<1>6. Newest' = Newest \/ p \in Newest'
  BY <1>4 DEF Newest
<1>7. Writers \subseteq Proc
  BY WritersAre
<1> HIDE DEF k
<1>8. RunsInv'
  <2>1. \A path \in Path : files'[path] \subseteq Writers'
    BY <1>3, <1>5 DEF RunsInv
  <2>2. \A q \in Writing' : q \in Newest'
    <3>1. p \in Newest'
      BY <1>4 DEF Newest
    <3>2. \A q \in Writing : q \in Newest'
      BY <1>4 DEF Newest, RunsInv
    <3> QED
      BY <1>3, <3>1, <3>2
  <2>3. \A q \in Proc : q \notin Writers' => written'[q] = 0 /\ stage'[q] # "fill"
    BY <1>2, <1>3 DEF RunsInv
  <2>4. \A q \in Writers' : /\ stage'[q] \in {"open", "fill", "ok", "err", "killed"}
                            /\ stage'[q] = "open" => written'[q] > 0
                            /\ IsCli(command'[q])
    BY <1>1, <1>2, <1>3, <1>7 DEF RunsInv
  <2> QED
    BY <1>3, <2>1, <2>2, <2>3, <2>4 DEF RunsInv
<1>9. ASSUME NEW P, Shared(P)' PROVE AgesInv(P)'
  <2>1. \A q : Outputs(q)' = Outputs(q)
    BY <1>2 DEF Outputs
  <2>2. Shared(P) /\ Outputs(p) = P
    BY <1>3, <1>9, <2>1 DEF Shared
  <2>3. AgesInv(P)
    BY <2>2 DEF FilesInv
  <2>4. /\ \A n \in 1 .. 4 : P[n] \in Path
        /\ \A m, n \in 1 .. 4 : P[m] = P[n] => m = n
    BY <2>2 DEF Shared, IsInjective
  <2>5. /\ files'[P[k]] = {}
        /\ \A n \in 1 .. 4 : n # k => files'[P[n]] = files[P[n]]
    BY <1>1, <1>5, <2>2, <2>4
  <2>6. \A n \in 1 .. 4 : \A q \in files'[P[n]] : n <= written'[q]
    BY <1>2, <2>3, <2>5 DEF AgesInv
  <2>7. ASSUME NEW q \in Newest', NEW n \in 1 .. 4, n <= written[q]
        PROVE  files'[P[n]] = {} \/ files'[P[n]] \cap Newest' # {}
    <3>1. q \in Newest /\ runs # <<>> /\ Newest \subseteq Newest'
      BY <1>1, <1>3, <1>4, <2>7 DEF Newest
    <3>2. files[P[n]] = {} \/ files[P[n]] \cap Newest # {}
      BY <2>3, <2>7, <3>1 DEF AgesInv
    <3> QED
      BY <2>5, <3>1, <3>2
  <2>8. ASSUME NEW m \in 1 .. 4, NEW n \in 1 .. 4, m < n, files'[P[m]] # {}
        PROVE  Age(P[n])' <= Age(P[m])'
    <3>1. \A j \in 1 .. 4 : j # k => Age(P[j])' = Age(P[j])
      <4> SUFFICES ASSUME NEW j \in 1 .. 4, j # k PROVE Age(P[j])' = Age(P[j])
        OBVIOUS
      <4>1. AgeOf(runs', files'[P[j]]) = AgeOf(runs, files[P[j]])
        BY <1>3, <2>4, <2>5 DEF AgeOf
      <4> QED
        BY <4>1, AgeIs, AgeNext
    <3>2. m # k /\ files[P[m]] # {}
      BY <2>5, <2>8
    <3>3. CASE n = k
      <4>1. Age(P[n])' = 0
        <5>1. Age(P[n])' = AgeOf(runs', {})
          BY <2>5, <3>3, AgeNext
        <5> QED
          BY <1>3, <5>1, AgeBounds
      <4>2. Age(P[m]) \in 0 .. Len(runs)
        <5>1. Age(P[m]) = AgeOf(runs, files[P[m]]) /\ runs \in Seq(SUBSET Proc)
          BY AgeIs DEF RunsInv
        <5> QED
          BY <5>1, AgeBounds
      <4>3. Age(P[m]) >= 0
        BY <4>2
      <4> QED
        BY <3>1, <3>2, <4>1, <4>3
    <3>4. CASE n # k
      BY <2>3, <2>8, <3>1, <3>2, <3>4 DEF AgesInv
    <3> QED
      BY <3>3, <3>4
  <2>9. ASSUME NEW q \in Proc, Newest' = {q}
        PROVE  /\ \A n \in 1 .. 4 : n <= written[q] => files'[P[n]] = {q}
               /\ stage'[q] = "fill" => files'[P[written[q] + 1]] = {}
    <3>1. q = p
      BY <1>4, <2>9 DEF Newest
    <3>2. \A n \in 1 .. 4 : n <= written[p] => n # k /\ written[p] > 0
      BY <1>1 DEF k
    <3>3. written[p] > 0 => runs # <<>> /\ Newest = {p}
      BY <1>1, <1>3, <1>4, <2>9, <3>1 DEF Newest
    <3>4. \A n \in 1 .. 4 : n <= written[p] => files[P[n]] = {p}
      BY <2>3, <3>2, <3>3 DEF AgesInv
    <3> QED
      BY <2>5, <3>1, <3>2, <3>4 DEF k
  <2> QED
    BY <1>2, <2>6, <2>7, <2>8, <2>9 DEF AgesInv
<1> QED
  BY <1>8, <1>9 DEF FilesInv

LEMMA FillKeeps ==
    ASSUME ProcInv, RunsInv, FilesInv, NEW p \in Proc, Fill(p)
    PROVE  RunsInv' /\ FilesInv'
<1> DEFINE k == written[p] + 1
<1>1. /\ IsCli(command[p]) /\ written[p] \in 0 .. 3 /\ k \in 1 .. 4
      /\ Outputs(p)[k] \in Path
  BY WritesAre
<1>2. PICK rest \in {{}, files[Outputs(p)[k]]} :
          files' = [files EXCEPT ![Outputs(p)[k]] = {p} \cup rest]
  BY WritesAre
<1>3. /\ UNCHANGED <<command, runs>> /\ stage[p] = "fill"
      /\ written'[p] = k /\ stage'[p] = IF k = 4 THEN "ok" ELSE "open"
      /\ \A q \in Proc \ {p} : stage'[q] = stage[q] /\ written'[q] = written[q]
  BY WriterStays
<1>4. /\ files'[Outputs(p)[k]] = {p} \cup rest
      /\ \A path \in Path : path # Outputs(p)[k] => files'[path] = files[path]
  BY <1>1, <1>2 DEF ProcInv
<1>5. p \in Writers /\ p \in Newest /\ runs # <<>> /\ Writers \subseteq Proc
  <2>1. p \in Writing
    BY <1>3 DEF Writing
  <2> QED
    BY <1>3, <2>1, WritersAre DEF RunsInv
<1>6. Writers' = Writers /\ Newest' = Newest
  BY <1>3 DEF Writers, Newest
<1>7. written'[p] = written[p] + 1 /\ written'[p] \in 1 .. 4
  BY <1>1, <1>3 DEF k
<1>8. \A q \in Proc : written[q] \in 0 .. 4 /\ written'[q] >= written[q] /\ written'[q] \in 0 .. 4
  <2>1. \A q \in Proc : written[q] \in 0 .. 4
    BY DEF ProcInv
  <2> QED
    BY <1>3, <1>7, <2>1
<1> HIDE DEF k
<1>9. RunsInv'
  <2>1. \A path \in Path : files'[path] \subseteq Writers
    BY <1>1, <1>2, <1>4, <1>5 DEF RunsInv
  <2>2. Writing' \subseteq Writing
    BY <1>3 DEF Writing
  <2>3. \A q \in Proc : q \notin Writers => written'[q] = 0 /\ stage'[q] # "fill"
    BY <1>3, <1>5 DEF RunsInv
  <2>4. \A q \in Writers : /\ stage'[q] \in {"open", "fill", "ok", "err", "killed"}
                           /\ stage'[q] = "open" => written'[q] > 0
                           /\ IsCli(command'[q])
    BY <1>1, <1>3, <1>5, <1>7 DEF RunsInv
  <2>5. runs' \in Seq(SUBSET Proc) /\ \A q \in Writing' : runs' # <<>> /\ q \in Newest
    BY <1>3, <2>2 DEF RunsInv
  <2> QED
    BY <1>6, <2>1, <2>3, <2>4, <2>5 DEF RunsInv
<1>10. ASSUME NEW P, Shared(P)' PROVE AgesInv(P)'
  <2>1. \A q : Outputs(q)' = Outputs(q)
    BY <1>3 DEF Outputs
  <2>2. Shared(P) /\ Outputs(p) = P
    BY <1>5, <1>6, <1>10, <2>1 DEF Shared
  <2>3. AgesInv(P)
    BY <2>2 DEF FilesInv
  <2>4. /\ \A n \in 1 .. 4 : P[n] \in Path
        /\ \A m, n \in 1 .. 4 : P[m] = P[n] => m = n
    BY <2>2 DEF Shared, IsInjective
  <2>5. /\ files'[P[k]] = {p} \cup rest /\ rest \in {{}, files[P[k]]}
        /\ \A n \in 1 .. 4 : n # k => files'[P[n]] = files[P[n]]
    BY <1>1, <1>2, <1>4, <2>2, <2>4
  <2>6. ASSUME NEW n \in 1 .. 4, NEW q \in files'[P[n]] PROVE n <= written'[q]
    <3>1. CASE q = p /\ n = k
      BY <1>3, <3>1
    <3>2. CASE q \in files[P[n]]
      <4>1. n <= written[q]
        BY <2>3, <3>2 DEF AgesInv
      <4>2. q \in Proc
        BY <2>4, <3>2 DEF ProcInv
      <4> QED
        BY <1>8, <4>1, <4>2
    <3> QED
      BY <2>5, <3>1, <3>2
  <2>7. ASSUME NEW q \in Newest, NEW n \in 1 .. 4, n <= written'[q]
        PROVE  files'[P[n]] = {} \/ files'[P[n]] \cap Newest # {}
    <3>1. CASE n = k
      BY <1>5, <2>5, <3>1
    <3>2. CASE n # k
      <4>1. n <= written[q]
        <5>1. CASE q = p
          BY <1>1, <1>3, <2>7, <3>2, <5>1 DEF k
        <5>2. CASE q # p
          <6>1. q \in Proc
            BY <1>5, WritersAre DEF Newest, RunsInv
          <6> QED
            BY <1>3, <2>7, <5>2, <6>1
        <5> QED
          BY <5>1, <5>2
      <4>2. files[P[n]] = {} \/ files[P[n]] \cap Newest # {}
        BY <1>5, <2>3, <4>1 DEF AgesInv
      <4> QED
        BY <2>5, <3>2, <4>2
    <3> QED
      BY <3>1, <3>2
  <2>8. ASSUME NEW m \in 1 .. 4, NEW n \in 1 .. 4, m < n, files'[P[m]] # {}
        PROVE  Age(P[n])' <= Age(P[m])'
    <3>1. \A j \in 1 .. 4 : j # k => Age(P[j])' = Age(P[j])
      <4> SUFFICES ASSUME NEW j \in 1 .. 4, j # k PROVE Age(P[j])' = Age(P[j])
        OBVIOUS
      <4>1. AgeOf(runs', files'[P[j]]) = AgeOf(runs, files[P[j]])
        BY <1>3, <2>5
      <4> QED
        BY <4>1, AgeIs, AgeNext
    <3>2. runs \in Seq(SUBSET Proc) /\ Len(runs) \in Nat
      BY WritersAre DEF RunsInv
    <3>3. \A j \in 1 .. 4 : Age(P[j])' \in 0 .. Len(runs)
      BY <1>3, <3>2, AgeNext, AgeBounds
    <3>4. \A j \in 1 .. 4 : files'[P[j]] \cap Newest # {} => Age(P[j])' = Len(runs)
      BY <1>3, <1>5, <3>2, AgeNext, AgeBounds DEF Newest
    <3>5. CASE m = k
      <4>1. files'[P[m]] \cap Newest # {}
        BY <1>5, <2>5, <3>5
      <4>2. Age(P[m])' = Len(runs)
        BY <3>4, <4>1
      <4>3. Age(P[n])' <= Len(runs)
        BY <3>3
      <4> QED
        BY <4>2, <4>3
    <3>6. CASE n = k
      <4>1. m <= written[p]
        BY <1>1, <2>8, <3>6 DEF k
      <4>2. files[P[m]] # {} /\ files'[P[m]] = files[P[m]]
        BY <2>5, <2>8, <3>6
      <4>3. files'[P[m]] \cap Newest # {}
        BY <1>5, <2>3, <4>1, <4>2 DEF AgesInv
      <4>4. Age(P[m])' = Len(runs)
        BY <3>4, <4>3
      <4>5. Age(P[n])' <= Len(runs)
        BY <3>3
      <4> QED
        BY <4>4, <4>5
    <3>7. CASE m # k /\ n # k
      BY <2>3, <2>5, <2>8, <3>1, <3>7 DEF AgesInv
    <3> QED
      BY <3>5, <3>6, <3>7
  <2>9. ASSUME NEW q \in Proc, Newest = {q}
        PROVE  /\ \A n \in 1 .. 4 : n <= written'[q] => files'[P[n]] = {q}
               /\ stage'[q] # "fill"
    <3>1. q = p
      BY <1>5, <2>9
    <3>2. /\ \A n \in 1 .. 4 : n <= written[p] => files[P[n]] = {p}
          /\ files[P[k]] = {}
      BY <1>3, <1>5, <2>3, <2>9, <3>1 DEF AgesInv, k
    <3>3. files'[P[k]] = {p}
      BY <2>5, <3>2
    <3>4. \A n \in 1 .. 4 : n <= written'[p] /\ n # k => n <= written[p]
      BY <1>1, <1>3 DEF k
    <3>5. stage'[q] # "fill"
      BY <1>3, <3>1
    <3> QED
      BY <2>5, <3>1, <3>2, <3>3, <3>4, <3>5
  <2> QED
    BY <1>3, <1>6, <2>6, <2>7, <2>8, <2>9 DEF AgesInv
<1> QED
  BY <1>9, <1>10 DEF FilesInv

LEMMA FilesHold == Spec => [](ProcInv /\ RunsInv /\ FilesInv)
<1> DEFINE All == ProcInv /\ RunsInv /\ FilesInv
<1>1. Init => All
  BY ProcStarts, RunsStart
<1>2. ASSUME All, [Next]_vars PROVE All'
  <2>1. CliStep /\ ProcInv'
    BY <1>2, CliSteps, ProcInvKept
  <2>2. ASSUME NEW p \in Proc, Parse(p) \/ \E s \in Stages : Moves(p, s)
        PROVE  RunsInv' /\ FilesInv'
    BY <1>2, <2>2, StillIdle, IdleKeeps
  <2>3. ASSUME NEW p \in Proc, Open(p) \/ Fill(p)
        PROVE  RunsInv' /\ FilesInv'
    BY <1>2, <2>3, OpenKeeps, FillKeeps
  <2>4. ASSUME UNCHANGED cli_vars PROVE RunsInv' /\ FilesInv'
    <3>1. Idles
      BY <1>2, <2>4 DEF cli_vars, Idles, RunsInv
    <3> QED
      BY <1>2, <3>1, IdleKeeps
  <2>5. RunsInv' /\ FilesInv'
    <3> HIDE DEF All
    <3> QED
      BY <2>1, <2>2, <2>3, <2>4 DEF CliStep
  <2> QED
    BY <2>1, <2>5
<1> HIDE DEF All
<1>3. Spec => []All
  BY <1>1, <1>2, PTL DEF Spec
<1> QED
  BY <1>3, PTL DEF All

(* However many runs go to the same four files, side by side or not, and   *)
(* fail or are killed at any of their steps: no file is newer than one     *)
(* before it, and the files of the newest run, if it was alone, are whole  *)
(* as far as it came, for any number of processes and paths (run_cli).     *)
THEOREM FilesAreInOrder == Spec => []FilesAgeInOrder
<1>1. ASSUME ProcInv, RunsInv, FilesInv PROVE FilesAgeInOrder
  <2> SUFFICES ASSUME NEW p \in Writers,
                      IsInjective(Outputs(p)), \A q \in Writers : Outputs(q) = Outputs(p)
               PROVE  /\ \A m, n \in 1 .. 4 :
                            m < n /\ files[Outputs(p)[m]] # {}
                                => Age(Outputs(p)[n]) <= Age(Outputs(p)[m])
                      /\ Last(runs) = {p} =>
                            /\ stage[p] = "ok" => written[p] = 4
                            /\ \A n \in 1 .. 4 : files[Outputs(p)[n]] = {p} <=> n <= written[p]
    BY DEF FilesAgeInOrder
  <2>1. p \in Proc /\ IsCli(command[p])
    BY <1>1, WritersAre DEF RunsInv
  <2>2. Outputs(p) \in [1 .. 4 -> Path]
    BY <2>1, OutputsAre
  <2>3. AgesInv(Outputs(p))
    BY <1>1, <2>2 DEF FilesInv, Shared
  <2>4. runs # <<>> /\ Last(runs) = Newest
    BY DEF Writers, Range, Last, Newest
  <2>5. stage[p] = "ok" => written[p] = 4
    BY <1>1, <2>1 DEF ProcInv
  <2>6. ASSUME Newest = {p}, NEW n \in 1 .. 4
        PROVE  files[Outputs(p)[n]] = {p} <=> n <= written[p]
    BY <2>1, <2>3, <2>4, <2>6 DEF AgesInv
  <2> QED
    BY <2>3, <2>4, <2>5, <2>6 DEF AgesInv
<1> QED
  BY <1>1, FilesHold, PTL

-----------------------------------------------------------------------------
(* Types. *)

LEMMA ServerTyped == Spec => [](server \in {"down", "up"} /\ step \in {"read", "answer"})
<1> DEFINE Typed == server \in {"down", "up"} /\ step \in {"read", "answer"}
<1>1. Init => Typed
  BY DEF Init, ServerInit
<1>2. ASSUME Typed, [Next]_vars PROVE Typed'
  <2>1. CASE CliNext /\ UNCHANGED server_vars
    BY <1>2, <2>1 DEF server_vars
  <2>2. ASSUME NEW p \in Proc, Bind(p) PROVE Typed'
    <3>1. (server' = "up" \/ server' = server) /\ step' = step
      BY <2>2 DEF Bind
    <3> QED
      BY <1>2, <3>1
  <2>3. ASSUME NEW p \in Proc, EndProcess(p) PROVE Typed'
    BY <1>2, <2>3 DEF EndProcess, Stop, server_vars
  <2>4. CASE ServerStep
    <3>1. ASSUME NEW c \in handled, Read(c) PROVE Typed'
      <4>1. (step' = "answer" \/ step' = "read") /\ server' = server
        BY <3>1 DEF Read
      <4> QED
        BY <1>2, <4>1
    <3>2. ASSUME NEW c \in handled, ReadEnd(c) \/ FailRead(c) \/ Respond(c) PROVE Typed'
      BY <1>2, <3>2 DEF ReadEnd, FailRead, Respond
    <3>3. ASSUME NEW p \in Proc, NEW c \in handled, PanicOf(p, c) PROVE Typed'
      BY <1>2, <3>3 DEF PanicOf, Panic, Stop
    <3>4. CASE Accept \/ AcceptError
      BY <1>2, <3>4 DEF Accept, AcceptError
    <3> QED
      BY <2>4, <3>1, <3>2, <3>3, <3>4 DEF ServerStep, Handle
  <2>5. ASSUME NEW c \in Client, Connect(c) \/ ClientStep(c) PROVE Typed'
    BY <1>2, <2>5 DEF Connect, ClientStep, Send, End
  <2>6. CASE UNCHANGED vars
    BY <1>2, <2>6 DEF vars, server_vars
  <2> QED
    BY <1>2, <2>1, <2>2, <2>3, <2>4, <2>5, <2>6 DEF Next
<1> QED
  BY <1>1, <1>2, PTL DEF Spec

LEMMA WaitOnce ==
    ASSUME QueueInv
    PROVE  IsInjective(Waiting) /\ Range(Waiting) = {c \in Client : phase[c] = "open"}
<1>1. Range(Waiting) = {c \in Client : phase[c] = "open"}
  BY WaitingIs DEF Range
<1>2. Len(backlog) \in Nat /\ DOMAIN backlog = 1 .. Len(backlog)
  BY DEF QueueInv
<1>3. ASSUME handled = {} PROVE IsInjective(Waiting)
  <2>1. Waiting = backlog
    BY <1>3 DEF Waiting
  <2> QED
    BY <1>2, <2>1 DEF QueueInv, IsInjective
<1>4. ASSUME NEW c \in Client, handled = {c} PROVE IsInjective(Waiting)
  <2>1. Waiting = <<c>> \o backlog /\ backlog \in Seq(Client)
    BY <1>4, WaitingIs DEF QueueInv
  <2>2. /\ DOMAIN Waiting = 1 .. Len(backlog) + 1 /\ Waiting[1] = c
        /\ \A n \in 2 .. Len(backlog) + 1 :
              n - 1 \in 1 .. Len(backlog) /\ Waiting[n] = backlog[n - 1]
    BY <1>2, <2>1
  <2>3. \A n \in 2 .. Len(backlog) + 1 : Waiting[n] # c
    BY <1>4, <2>2 DEF QueueInv
  <2>4. ASSUME NEW m \in 2 .. Len(backlog) + 1, NEW n \in 2 .. Len(backlog) + 1,
               Waiting[m] = Waiting[n]
        PROVE  m = n
    <3>1. backlog[m - 1] = backlog[n - 1] /\ m - 1 \in 1 .. Len(backlog) /\ n - 1 \in 1 .. Len(backlog)
      BY <2>2, <2>4
    <3>2. m - 1 = n - 1
      BY <3>1 DEF QueueInv
    <3> QED
      BY <1>2, <3>2
  <2>5. \A n \in 1 .. Len(backlog) + 1 : n = 1 \/ n \in 2 .. Len(backlog) + 1
    BY <1>2
  <2> QED
    BY <2>2, <2>3, <2>4, <2>5 DEF IsInjective
<1>5. handled = {} \/ \E c \in Client : handled = {c}
  BY DEF QueueInv
<1> QED
  BY <1>1, <1>3, <1>4, <1>5

LEMMA AnswersHold == Spec => [](QueueInv /\ AnswersInv)
<1>1. QueueInv /\ AnswersInv /\ [Next]_vars => AnswersInv'
  BY AnswersInvKept
<1> QED
  BY <1>1, QueueHolds, AnswersStart, PTL DEF Spec

(* The state stays one of the program's, and a connection is open exactly  *)
(* as long as it waits or is handled, for any number of processes, clients *)
(* and command lines (main.rs as a whole).                                 *)
THEOREM MainTypeCorrect == Spec => []TypeOK
<1>1. ASSUME ProcInv, QueueInv, AnswersInv,
             server \in {"down", "up"} /\ step \in {"read", "answer"}
      PROVE  TypeOK
  <2>1. ASSUME NEW p \in Proc, NEW c \in command[p], c.type = "cli" PROVE c.spec \in SpecValues
    <3>1. c \in CliCommand \/ c \in ServeCommand
      BY <1>1 DEF ProcInv, IsParsed
    <3> QED
      BY <2>1, <3>1 DEF CliCommand, ServeCommand
  <2>2. \A p \in Proc : stage[p] \in Stages /\ written[p] \in 0 .. 4
    BY <1>1 DEF ProcInv
  <2>3. files \in [Path -> SUBSET Proc]
    BY <1>1 DEF ProcInv
  <2>4. IsInjective(Waiting) /\ Range(Waiting) = {c \in Client : phase[c] = "open"}
    BY <1>1, WaitOnce
  <2>5. got \in Nat /\ \A c \in DOMAIN requests : sent[c] \in 0 .. Total(c)
    BY <1>1 DEF AnswersInv
  <2>6. \A c \in Client : answers[c] # "none" => phase[c] = "closed"
    BY <1>1 DEF AnswersInv
  <2> QED
    BY <1>1, <2>1, <2>2, <2>3, <2>4, <2>5, <2>6 DEF TypeOK, Stages
<1> QED
  BY <1>1, FilesHold, AnswersHold, ServerTyped, PTL

-----------------------------------------------------------------------------
(* Flags.  What counts of the first n flags depends on the nth and on what *)
(* counts of those before it.                                              *)

IsKind(flags, ks, kind) == \A k \in ks : KindOf(flags[k]) = kind

LEMMA CountedIs ==
    ASSUME NEW flags, NEW n \in Nat
    PROVE  /\ Counted(flags, n) \subseteq 1 .. n
           /\ \A k \in Counted(flags, n) : IsOfResult(flags[k])
           /\ \A k, m \in Counted(flags, n) : KindOf(flags[k]) = KindOf(flags[m])
           /\ (\E k \in 1 .. n : IsOfResult(flags[k])) => Counted(flags, n) # {}
<1> DEFINE rs == {k \in 1 .. n : IsOfResult(flags[k])}
<1>1. Counted(flags, n) = {k \in rs : \A m \in rs : k <= m => KindOf(flags[m]) = KindOf(flags[k])}
  BY DEF Counted
<1>2. rs \in SUBSET (1 .. n)
  OBVIOUS
<1>3. \A k, m \in Counted(flags, n) : KindOf(flags[k]) = KindOf(flags[m])
  <2> SUFFICES ASSUME NEW k \in Counted(flags, n), NEW m \in Counted(flags, n)
               PROVE  KindOf(flags[k]) = KindOf(flags[m])
    OBVIOUS
  <2>1. k \in rs /\ m \in rs /\ (k <= m \/ m <= k)
    BY <1>1
  <2> QED
    BY <1>1, <2>1
<1>4. ASSUME rs # {} PROVE Counted(flags, n) # {}
  <2>1. PICK l \in rs : \A m \in rs : m <= l
    <3> HIDE DEF rs
    <3> QED
      BY <1>2, <1>4, GreatestOf
  <2>2. ASSUME NEW m \in rs, l <= m PROVE m = l
    BY <2>1, <2>2
  <2>3. l \in Counted(flags, n)
    <3> HIDE DEF rs
    <3> QED
      BY <1>1, <2>1, <2>2
  <2> QED
    BY <2>3
<1> QED
  BY <1>1, <1>3, <1>4

LEMMA CountedStep ==
    ASSUME NEW flags, NEW n \in Nat
    PROVE  LET ks == Counted(flags, n)
               f  == flags[n + 1]
           IN  Counted(flags, n + 1) =
                  IF ~IsOfResult(f) THEN ks
                  ELSE IF IsKind(flags, ks, KindOf(f)) THEN ks \cup {n + 1} ELSE {n + 1}
<1> DEFINE rs == {k \in 1 .. n : IsOfResult(flags[k])}
           new == {k \in 1 .. n + 1 : IsOfResult(flags[k])}
           ks == Counted(flags, n)
           f  == flags[n + 1]
<1>1. ks = {k \in rs : \A m \in rs : k <= m => KindOf(flags[m]) = KindOf(flags[k])}
  BY DEF Counted
<1>2. Counted(flags, n + 1) =
         {k \in new : \A m \in new : k <= m => KindOf(flags[m]) = KindOf(flags[k])}
  BY DEF Counted
<1>3. \A k : k \in 1 .. n + 1 <=> k \in 1 .. n \/ k = n + 1
  OBVIOUS
<1>4. new = IF IsOfResult(f) THEN rs \cup {n + 1} ELSE rs
  BY <1>3
<1>5. \A k \in rs : k \in Int /\ k <= n + 1 /\ ~(n + 1 <= k)
  OBVIOUS
<1> HIDE DEF rs, new
<1>6. CASE ~IsOfResult(f)
  BY <1>1, <1>2, <1>4, <1>6
<1>7. CASE IsOfResult(f)
  <2>1. ASSUME NEW k
        PROVE  k \in Counted(flags, n + 1) <=>
                  k = n + 1 \/ (k \in ks /\ KindOf(f) = KindOf(flags[k]))
    <3>1. CASE k = n + 1
      BY <1>2, <1>4, <1>5, <1>7, <3>1
    <3>2. CASE k # n + 1
      BY <1>1, <1>2, <1>4, <1>5, <1>7, <3>2
    <3> QED
      BY <3>1, <3>2
  <2>2. \A k, m \in ks : KindOf(flags[k]) = KindOf(flags[m])
    BY CountedIs
  <2> HIDE DEF ks, f
  <2>3. CASE IsKind(flags, ks, KindOf(f))
    <3>1. Counted(flags, n + 1) = ks \cup {n + 1}
      BY <2>1, <2>3 DEF IsKind
    <3> QED
      BY <1>7, <2>3, <3>1 DEF ks, f
  <2>4. CASE ~IsKind(flags, ks, KindOf(f))
    <3>1. Counted(flags, n + 1) = {n + 1}
      BY <2>1, <2>2, <2>4 DEF IsKind
    <3> QED
      BY <1>7, <2>4, <3>1 DEF ks, f
  <2> QED
    BY <2>3, <2>4
<1> QED
  BY <1>6, <1>7

LEMMA LastAfter ==
    ASSUME NEW flags, NEW n \in Nat, NEW ks \in SUBSET (1 .. n), NEW name
    PROVE  LastOf(flags, ks \cup {n + 1}, name) =
              IF flags[n + 1].flag = name THEN flags[n + 1].value ELSE LastOf(flags, ks, name)
<1> DEFINE named == {k \in ks : flags[k].flag = name}
           more == {k \in ks \cup {n + 1} : flags[k].flag = name}
<1>1. \A k \in named : k \in Int /\ k <= n + 1 /\ ~(n + 1 <= k)
  OBVIOUS
<1>2. CASE flags[n + 1].flag = name
  <2>1. more = named \cup {n + 1}
    BY <1>2
  <2> HIDE DEF named, more
  <2>2. Latest(more) = n + 1
    BY <1>1, <2>1 DEF Latest
  <2>3. more # {}
    BY <2>1
  <2>4. LastOf(flags, ks \cup {n + 1}, name) = flags[Latest(more)].value
    BY <2>3 DEF LastOf, more
  <2> QED
    BY <1>2, <2>2, <2>4
<1>3. CASE flags[n + 1].flag # name
  <2>1. more = named
    BY <1>3
  <2>2. /\ LastOf(flags, ks \cup {n + 1}, name) =
               IF more = {} THEN {} ELSE flags[Latest(more)].value
        /\ LastOf(flags, ks, name) = IF named = {} THEN {} ELSE flags[Latest(named)].value
    BY DEF LastOf
  <2> HIDE DEF more, named
  <2> QED
    BY <1>3, <2>1, <2>2
<1> QED
  BY <1>2, <1>3

LEMMA LastFirst ==
    ASSUME NEW flags, NEW n \in Nat, NEW name
    PROVE  /\ LastOf(flags, {n}, name) =
                 IF flags[n].flag = name THEN flags[n].value ELSE {}
           /\ LastOf(flags, {}, name) = {}
<1>1. CASE flags[n].flag = name
  <2>1. {k \in {n} : flags[k].flag = name} = {n}
    BY <1>1
  <2>2. Latest({n}) = n
    BY DEF Latest
  <2> QED
    BY <1>1, <2>1, <2>2 DEF LastOf
<1>2. CASE flags[n].flag # name
  <2>1. {k \in {n} : flags[k].flag = name} = {}
    BY <1>2
  <2> QED
    BY <1>2, <2>1 DEF LastOf
<1> QED
  BY <1>1, <1>2 DEF LastOf

\* What these flags, all of one kind, make of the defaults of that kind.
ScalarOf(flags, ks) ==
    [kind |-> "scalar", register |-> Or(LastOf(flags, ks, "--result-register"), "a0")]

ArrayOf(flags, ks) ==
    [kind |-> "array",
     ptr_register    |-> Or(LastOf(flags, ks, "--result-ptr-register"), "a0"),
     length_register |-> Or(LastOf(flags, ks, "--result-length-register"), "a1"),
     elem_width      |-> Or(LastOf(flags, ks, "--result-elem-width"), "4"),
     signed          |-> \A k \in ks : flags[k].flag # "--result-unsigned"]

SpecIs(spec, flags, ks) ==
    IF IsKind(flags, ks, "scalar") THEN spec = ScalarOf(flags, ks)
    ELSE spec = ArrayOf(flags, ks)

\* The flags of a kind that counted, if it is that kind which counted.
Base(flags, ks, kind) == IF IsKind(flags, ks, kind) THEN ks ELSE {}

LEMMA NoFlags ==
    ASSUME NEW flags
    PROVE  /\ ScalarOf(flags, {}) = DefaultScalar
           /\ ArrayOf(flags, {}) = DefaultArray
<1>1. \A name : LastOf(flags, {}, name) = {}
  BY LastFirst
<1>2. \A d : Or({}, d) = d
  BY DEF Or
<1>3. \A name, d : Or(LastOf(flags, {}, name), d) = d
  BY <1>1, <1>2
<1> QED
  BY <1>3 DEF ScalarOf, ArrayOf, DefaultScalar, DefaultArray

LEMMA Kinds ==
    ASSUME NEW f
    PROVE  KindOf(f) \in {"scalar", "array"}
BY DEF KindOf

\* The array that a flag starts from.
LEMMA ArrayBefore ==
    ASSUME NEW flags, NEW n \in Nat, NEW spec, SpecIs(spec, flags, Counted(flags, n))
    PROVE  AsArray(spec) = ArrayOf(flags, Base(flags, Counted(flags, n), "array"))
<1> DEFINE ks == Counted(flags, n)
<1>1. CASE ks = {}
  <2>1. spec = ScalarOf(flags, {}) /\ Base(flags, ks, "array") = {}
    BY <1>1 DEF SpecIs, IsKind, Base
  <2>2. AsArray(spec) = DefaultArray
    BY <2>1 DEF AsArray, ScalarOf
  <2> QED
    BY <2>1, <2>2, NoFlags
<1>2. CASE ks # {} /\ IsKind(flags, ks, "scalar")
  <2>1. ~IsKind(flags, ks, "array")
    BY <1>2 DEF IsKind
  <2>2. AsArray(spec) = DefaultArray
    BY <1>2 DEF AsArray, SpecIs, ScalarOf
  <2> QED
    BY <2>1, <2>2, NoFlags DEF Base
<1>3. CASE ks # {} /\ ~IsKind(flags, ks, "scalar")
  <2>1. \A k, m \in ks : KindOf(flags[k]) = KindOf(flags[m])
    BY CountedIs
  <2>2. IsKind(flags, ks, "array")
    BY <1>3, <2>1, Kinds DEF IsKind
  <2>3. spec = ArrayOf(flags, ks) /\ spec.kind = "array"
    BY <1>3 DEF SpecIs, ArrayOf
  <2> QED
    BY <2>2, <2>3 DEF AsArray, Base
<1> QED
  BY <1>1, <1>2, <1>3

LEMMA ScalarBefore ==
    ASSUME NEW flags, NEW n \in Nat, NEW spec, SpecIs(spec, flags, Counted(flags, n))
    PROVE  (IF spec.kind = "scalar" THEN spec ELSE DefaultScalar)
              = ScalarOf(flags, Base(flags, Counted(flags, n), "scalar"))
<1>1. CASE IsKind(flags, Counted(flags, n), "scalar")
  BY <1>1 DEF SpecIs, Base, ScalarOf
<1>2. CASE ~IsKind(flags, Counted(flags, n), "scalar")
  BY <1>2, NoFlags DEF SpecIs, Base, ArrayOf
<1> QED
  BY <1>1, <1>2

\* A word that is the value of a flag is what the flag sets.
LEMMA ValueIs ==
    ASSUME NEW f, IsFlag(f), NEW v \in f.value, NEW d
    PROVE  Or(f.value, d) = v
BY DEF IsFlag, AtMostOne, Or

LEMMA ScalarStep ==
    ASSUME NEW flags, NEW n \in Nat, NEW ks \in SUBSET (1 .. n), NEW f, f = flags[n + 1],
           IsFlag(f), NEW s,
           \/ f.flag = "--result-kind" /\ s = ScalarOf(flags, ks)
           \/ f.flag = "--result-register" /\ \E r \in f.value : s = [DefaultScalar EXCEPT !.register = r]
    PROVE  s = ScalarOf(flags, ks \cup {n + 1})
<1>1. LastOf(flags, ks \cup {n + 1}, "--result-register") =
         IF f.flag = "--result-register" THEN f.value ELSE LastOf(flags, ks, "--result-register")
  BY ONLY n \in Nat, ks \in SUBSET (1 .. n), f = flags[n + 1], LastAfter
<1>2. CASE f.flag = "--result-kind"
  BY <1>1, <1>2 DEF ScalarOf
<1>3. CASE f.flag = "--result-register"
  <2>1. PICK r \in f.value : s = [DefaultScalar EXCEPT !.register = r]
    BY <1>3
  <2>2. s = [kind |-> "scalar", register |-> r]
    BY <2>1 DEF DefaultScalar
  <2>3. Or(f.value, "a0") = r
    BY ValueIs
  <2> QED
    BY <1>1, <1>3, <2>2, <2>3 DEF ScalarOf
<1> QED
  BY <1>2, <1>3

\* s is the array with what the flag f sets.
WithFlag(s, array, f) ==
    \/ f.flag = "--result-kind" /\ s = array
    \/ f.flag = "--result-ptr-register"
       /\ \E r \in f.value : s = [array EXCEPT !.ptr_register = r]
    \/ f.flag = "--result-length-register"
       /\ \E r \in f.value : s = [array EXCEPT !.length_register = r]
    \/ f.flag = "--result-elem-width"
       /\ \E w \in f.value : s = [array EXCEPT !.elem_width = w]
    \/ f.flag = "--result-unsigned" /\ s = [array EXCEPT !.signed = FALSE]

LEMMA ArrayStep ==
    ASSUME NEW flags, NEW n \in Nat, NEW ks \in SUBSET (1 .. n), IsFlag(flags[n + 1]),
           NEW s, WithFlag(s, ArrayOf(flags, ks), flags[n + 1])
    PROVE  s = ArrayOf(flags, ks \cup {n + 1})
<1> DEFINE f == flags[n + 1]
           array == ArrayOf(flags, ks)
<1> DEFINE after == ks \cup {n + 1}
           last(name) == LastOf(flags, ks, name)
<1>1. \A name : LastOf(flags, after, name) = IF f.flag = name THEN f.value ELSE last(name)
  BY LastAfter
<1>2. (\A k \in after : flags[k].flag # "--result-unsigned")
         <=> (\A k \in ks : flags[k].flag # "--result-unsigned") /\ f.flag # "--result-unsigned"
  OBVIOUS
<1> DEFINE plain == \A k \in ks : flags[k].flag # "--result-unsigned"
           all   == \A k \in after : flags[k].flag # "--result-unsigned"
<1>3. ArrayOf(flags, after) =
        [kind |-> "array",
         ptr_register    |-> Or(LastOf(flags, after, "--result-ptr-register"), "a0"),
         length_register |-> Or(LastOf(flags, after, "--result-length-register"), "a1"),
         elem_width      |-> Or(LastOf(flags, after, "--result-elem-width"), "4"),
         signed          |-> all]
  BY DEF ArrayOf
<1>4. array =
        [kind |-> "array",
         ptr_register    |-> Or(last("--result-ptr-register"), "a0"),
         length_register |-> Or(last("--result-length-register"), "a1"),
         elem_width      |-> Or(last("--result-elem-width"), "4"),
         signed          |-> plain]
  BY DEF ArrayOf
<1>5. /\ f.flag # "--result-unsigned" => all = plain
      /\ f.flag = "--result-unsigned" => ~all
      /\ all \in BOOLEAN
  BY <1>2
<1>6. \A v \in f.value : \A d : Or(f.value, d) = v
  BY ValueIs
<1> HIDE DEF after, last, plain, all, f, array
<1>7. ASSUME f.flag = "--result-kind", s = array PROVE s = ArrayOf(flags, after)
  <2>1. all = plain
    BY <1>5, <1>7
  <2> QED
    BY <1>1, <1>3, <1>4, <1>7, <2>1
<1>8. ASSUME f.flag = "--result-ptr-register", NEW r \in f.value, s = [array EXCEPT !.ptr_register = r]
      PROVE  s = ArrayOf(flags, after)
  <2>1. all = plain /\ Or(f.value, "a0") = r
    BY <1>5, <1>6, <1>8
  <2> QED
    BY <1>1, <1>3, <1>4, <1>8, <2>1
<1>9. ASSUME f.flag = "--result-length-register", NEW r \in f.value, s = [array EXCEPT !.length_register = r]
      PROVE  s = ArrayOf(flags, after)
  <2>1. all = plain /\ Or(f.value, "a1") = r
    BY <1>5, <1>6, <1>9
  <2> QED
    BY <1>1, <1>3, <1>4, <1>9, <2>1
<1>10. ASSUME f.flag = "--result-elem-width", NEW w \in f.value, s = [array EXCEPT !.elem_width = w]
      PROVE  s = ArrayOf(flags, after)
  <2>1. all = plain /\ Or(f.value, "4") = w
    BY <1>5, <1>6, <1>10
  <2> QED
    BY <1>1, <1>3, <1>4, <1>10, <2>1
<1>11. ASSUME f.flag = "--result-unsigned", s = [array EXCEPT !.signed = FALSE]
       PROVE  s = ArrayOf(flags, after)
  <2>1. \A b \in BOOLEAN : ~b => b = FALSE
    OBVIOUS
  <2>2. all = FALSE
    BY <1>5, <1>11, <2>1
  <2>3. [array EXCEPT !.signed = FALSE] = [array EXCEPT !.signed = all]
    BY <2>2, Zenon
  <2> QED
    BY <1>1, <1>3, <1>4, <1>11, <2>3
<1>12. WithFlag(s, array, f)
  BY DEF f, array
<1> QED
  BY <1>7, <1>8, <1>9, <1>10, <1>11, <1>12 DEF after, WithFlag

\* One flag of the result, after those before it: the flags of the other kind
\* do not count any more.
LEMMA SpecStep ==
    ASSUME NEW flags, NEW n \in Nat, NEW f, f = flags[n + 1], IsFlag(f), IsOfResult(f),
           NEW spec, SpecIs(spec, flags, Counted(flags, n)),
           NEW s \in SpecFlag(spec, f)
    PROVE  SpecIs(s, flags, Counted(flags, n + 1))
<1> DEFINE ks == Counted(flags, n)
           scalars == Base(flags, ks, "scalar")
           arrays  == Base(flags, ks, "array")
<1>1. Counted(flags, n + 1) = Base(flags, ks, KindOf(f)) \cup {n + 1}
  <2>1. Counted(flags, n + 1) =
           IF IsKind(flags, ks, KindOf(f)) THEN ks \cup {n + 1} ELSE {n + 1}
    BY CountedStep
  <2> QED
    BY <2>1 DEF Base
<1>2. ks \in SUBSET (1 .. n) /\ \A kind : Base(flags, ks, kind) \in SUBSET (1 .. n)
  BY CountedIs DEF Base
<1>3. \A kind : \A k \in Base(flags, ks, kind) : KindOf(flags[k]) = kind
  BY DEF Base, IsKind
<1>4. AsArray(spec) = ArrayOf(flags, arrays)
  BY ArrayBefore
<1>5. (IF spec.kind = "scalar" THEN spec ELSE DefaultScalar) = ScalarOf(flags, scalars)
  BY ScalarBefore
<1> HIDE DEF ks, scalars, arrays
<1>6. CASE KindOf(f) = "scalar"
  <2>1. \/ f.flag = "--result-kind" /\ s = ScalarOf(flags, scalars)
        \/ f.flag = "--result-register"
           /\ \E r \in f.value : s = [DefaultScalar EXCEPT !.register = r]
    <3>1. CASE f.flag = "--result-kind"
      <4>1. SpecFlag(spec, f) = {IF spec.kind = "scalar" THEN spec ELSE DefaultScalar}
        BY <1>6, <3>1 DEF SpecFlag, KindOf
      <4> QED
        BY <1>5, <3>1, <4>1
    <3>2. CASE f.flag = "--result-register"
      <4>1. SpecFlag(spec, f) = {AsScalar(spec, r) : r \in f.value \cap Reg}
        BY <3>2 DEF SpecFlag
      <4> QED
        BY <3>2, <4>1 DEF AsScalar
    <3> QED
      BY <1>6, <3>1, <3>2 DEF KindOf
  <2>2. s = ScalarOf(flags, scalars \cup {n + 1})
    BY <1>2, <2>1, ScalarStep DEF scalars
  <2>3. IsKind(flags, scalars \cup {n + 1}, "scalar")
    BY <1>3, <1>6 DEF IsKind, scalars
  <2> QED
    BY <1>1, <1>6, <2>2, <2>3 DEF SpecIs, scalars
<1>7. CASE KindOf(f) = "array"
  <2> DEFINE array == AsArray(spec)
  <2>1. WithFlag(s, array, f)
    <3> HIDE DEF array
    <3>1. CASE f.flag = "--result-kind"
      <4>1. SpecFlag(spec, f) = IF f.value = {"array"} THEN {array} ELSE {}
        BY <1>7, <3>1 DEF SpecFlag, KindOf, array
      <4> QED
        BY <3>1, <4>1 DEF WithFlag
    <3>2. CASE f.flag = "--result-ptr-register"
      <4>1. SpecFlag(spec, f) = {[array EXCEPT !.ptr_register = r] : r \in f.value \cap Reg}
        BY <3>2 DEF SpecFlag, array
      <4> QED
        BY <3>2, <4>1 DEF WithFlag
    <3>3. CASE f.flag = "--result-length-register"
      <4>1. SpecFlag(spec, f) = {[array EXCEPT !.length_register = r] : r \in f.value \cap Reg}
        BY <3>3 DEF SpecFlag, array
      <4> QED
        BY <3>3, <4>1 DEF WithFlag
    <3>4. CASE f.flag = "--result-elem-width"
      <4>1. SpecFlag(spec, f) = {[array EXCEPT !.elem_width = w] : w \in f.value \cap Width}
        BY <3>4 DEF SpecFlag, array
      <4> QED
        BY <3>4, <4>1 DEF WithFlag
    <3>5. CASE f.flag = "--result-unsigned"
      <4>1. SpecFlag(spec, f) = {[array EXCEPT !.signed = FALSE]}
        BY <3>5 DEF SpecFlag, array
      <4> QED
        BY <3>5, <4>1 DEF WithFlag
    <3> QED
      BY <1>7, <3>1, <3>2, <3>3, <3>4, <3>5 DEF KindOf, IsOfResult
  <2>2. array = ArrayOf(flags, arrays) /\ arrays \in SUBSET (1 .. n)
    BY <1>2, <1>4 DEF arrays
  <2>3. s = ArrayOf(flags, arrays \cup {n + 1})
    <3>1. WithFlag(s, ArrayOf(flags, arrays), flags[n + 1]) /\ IsFlag(flags[n + 1])
      BY <2>1, <2>2
    <3> QED
      BY ONLY n \in Nat, <2>2, <3>1, ArrayStep
  <2>4. ~IsKind(flags, arrays \cup {n + 1}, "scalar")
    BY <1>7 DEF IsKind
  <2> QED
    BY <1>1, <1>7, <2>3, <2>4 DEF SpecIs, arrays
<1> QED
  BY <1>6, <1>7, Kinds

\* The arrays at these registers.
Arrays(ps, ls, width, signed) ==
    {[kind |-> "array", ptr_register |-> p, length_register |-> l,
      elem_width |-> width, signed |-> signed] : p \in ps, l \in ls}

\* What is asked for by a result that there is.
SpecOf(r) ==
    IF r.kind = "scalar"
    THEN {[DefaultScalar EXCEPT !.register = reg] :
             reg \in ParseResultRegister(Or(r.register, "a0"))}
    ELSE Arrays(ParseResultRegister(Or(r.ptr_register, "a0")),
                ParseResultRegister(Or(r.length_register, "a1")),
                Or(r.elem_width, "4"), Or(r.signed, TRUE))

LEMMA ResultIs ==
    ASSUME NEW r
    PROVE  ParseApiResult({r}) = SpecOf(r)
<1> DEFINE x == CHOOSE y \in {r} : TRUE
<1>1. x = r
  OBVIOUS
<1>2. ParseApiResult({r}) = IF {r} = {} THEN {DefaultScalar} ELSE SpecOf(x)
  BY DEF ParseApiResult, SpecOf, Arrays
<1>3. {r} # {}
  OBVIOUS
<1> HIDE DEF x
<1> QED
  BY <1>1, <1>2, <1>3

\* The request with the same settings asks for this spec.
LEMMA RequestIs ==
    ASSUME NEW flags, NEW n \in Nat, NEW spec \in SpecValues,
           SpecIs(spec, flags, Counted(flags, n))
    PROVE  {spec} = ParseApiResult(AsRequest(flags, n))
<1> DEFINE ks == Counted(flags, n)
           last(name) == LastOf(flags, ks, name)
<1>1. CASE ks = {}
  <2>1. spec = DefaultScalar
    BY <1>1, NoFlags DEF SpecIs, IsKind
  <2>2. AsRequest(flags, n) = {}
    BY <1>1 DEF AsRequest
  <2> QED
    BY <2>1, <2>2 DEF ParseApiResult
<1>2. CASE ks # {} /\ IsKind(flags, ks, "scalar")
  <2> DEFINE r == [kind |-> "scalar", register |-> last("--result-register")]
             reg == Or(last("--result-register"), "a0")
  <2>1. AsRequest(flags, n) = {r}
    BY <1>2 DEF AsRequest, IsKind
  <2>2. spec = [kind |-> "scalar", register |-> reg]
    BY <1>2 DEF SpecIs, ScalarOf
  <2>3. reg \in Reg
    BY <2>2 DEF SpecValues
  <2>4. r.kind = "scalar" /\ r.register = last("--result-register")
    OBVIOUS
  <2> HIDE DEF r, reg, last
  <2>5. ParseApiResult({r}) =
          {[DefaultScalar EXCEPT !.register = x] : x \in ParseResultRegister(reg)}
    <3>1. Or(r.register, "a0") = reg
      BY <2>4 DEF reg
    <3>2. SpecOf(r) = {[DefaultScalar EXCEPT !.register = x] : x \in ParseResultRegister(Or(r.register, "a0"))}
      BY <2>4 DEF SpecOf
    <3> QED
      BY <3>1, <3>2, ResultIs
  <2>6. ParseResultRegister(reg) = {reg}
    BY <2>3 DEF ParseResultRegister
  <2>7. [DefaultScalar EXCEPT !.register = reg] = spec
    BY <2>2 DEF DefaultScalar
  <2> QED
    BY <2>1, <2>5, <2>6, <2>7
<1>3. CASE ks # {} /\ ~IsKind(flags, ks, "scalar")
  <2> DEFINE plain == \A k \in ks : flags[k].flag # "--result-unsigned"
             unsigned == {FALSE : k \in {k \in ks : flags[k].flag = "--result-unsigned"}}
             r == [kind |-> "array",
                   ptr_register |-> last("--result-ptr-register"),
                   length_register |-> last("--result-length-register"),
                   elem_width |-> last("--result-elem-width"),
                   signed |-> unsigned]
             ptr == Or(last("--result-ptr-register"), "a0")
             len == Or(last("--result-length-register"), "a1")
             width == Or(last("--result-elem-width"), "4")
  <2>1. AsRequest(flags, n) = {r}
    BY <1>3 DEF AsRequest, IsKind
  <2>2. spec = [kind |-> "array", ptr_register |-> ptr, length_register |-> len,
                elem_width |-> width, signed |-> plain]
    BY <1>3 DEF SpecIs, ArrayOf
  <2>3. ptr \in Reg /\ len \in Reg
    BY <2>2 DEF SpecValues
  <2>4. /\ r.kind = "array"
        /\ r.ptr_register = last("--result-ptr-register")
        /\ r.length_register = last("--result-length-register")
        /\ r.elem_width = last("--result-elem-width")
        /\ r.signed = unsigned
    OBVIOUS
  <2>5. Or(unsigned, TRUE) = plain
    <3>1. CASE plain
      <4>1. unsigned = {}
        BY <3>1
      <4>2. Or(unsigned, TRUE) = TRUE
        BY <4>1 DEF Or
      <4> QED
        BY <3>1, <4>2
    <3>2. CASE ~plain
      <4>1. unsigned = {FALSE}
        BY <3>2
      <4>2. Or(unsigned, TRUE) = FALSE
        BY <4>1 DEF Or
      <4> QED
        BY <3>2, <4>2
    <3> QED
      BY <3>1, <3>2
  <2> HIDE DEF r, ptr, len, width, plain, unsigned, last
  <2>6. ParseApiResult({r}) =
          Arrays(ParseResultRegister(ptr), ParseResultRegister(len), width, plain)
    <3>1. /\ Or(r.ptr_register, "a0") = ptr /\ Or(r.length_register, "a1") = len
          /\ Or(r.elem_width, "4") = width /\ Or(r.signed, TRUE) = plain
      BY <2>4, <2>5 DEF ptr, len, width
    <3>2. SpecOf(r) =
            Arrays(ParseResultRegister(Or(r.ptr_register, "a0")),
                   ParseResultRegister(Or(r.length_register, "a1")),
                   Or(r.elem_width, "4"), Or(r.signed, TRUE))
      BY <2>4 DEF SpecOf
    <3> QED
      BY <3>1, <3>2, ResultIs
  <2>7. ParseResultRegister(ptr) = {ptr} /\ ParseResultRegister(len) = {len}
    BY <2>3 DEF ParseResultRegister
  <2> QED
    BY <2>1, <2>2, <2>6, <2>7 DEF Arrays
<1> QED
  BY <1>1, <1>2, <1>3

(* The register assignments, flag by flag.                                 *)
LEMMA LoopOverAssignments ==
    ASSUME NEW flags, NEW N \in Nat
    PROVE  \E of : /\ Assignments(flags, N) = of[N]
                   /\ of[0] = <<>>
                   /\ \A n \in 1 .. N : of[n] = Assigned(of[n - 1], flags[n])
<1> DEFINE IsLoop(g, m) ==
             g = [n \in 0 .. m |-> IF n = 0 THEN <<>> ELSE Assigned(g[n - 1], flags[n])]
           S == {m \in Nat : \E g : IsLoop(g, m)}
<1>1. 0 \in S
  <2> DEFINE g == [n \in 0 .. 0 |-> <<>>]
  <2>1. g = [n \in 0 .. 0 |-> IF n = 0 THEN <<>> ELSE Assigned(g[n - 1], flags[n])]
    <3>1. \A n \in 0 .. 0 : n = 0
      OBVIOUS
    <3> QED
      BY <3>1
  <2>2. IsLoop(g, 0)
    BY <2>1
  <2> HIDE DEF IsLoop
  <2> QED
    BY <2>2
<1>2. ASSUME NEW m \in Nat, m \in S PROVE m + 1 \in S
  <2>1. PICK g : IsLoop(g, m)
    BY <1>2
  <2> DEFINE h == [n \in 0 .. m + 1 |-> IF n = m + 1 THEN Assigned(g[m], flags[n]) ELSE g[n]]
  <2>2. ASSUME NEW n \in 0 .. m + 1
        PROVE  h[n] = IF n = 0 THEN <<>> ELSE Assigned(h[n - 1], flags[n])
    <3>1. CASE n = m + 1
      <4>1. n - 1 = m /\ n # 0 /\ m \in 0 .. m + 1 /\ m # m + 1
        BY <3>1
      <4>2. h[m] = g[m]
        BY <4>1
      <4> QED
        BY <3>1, <4>1, <4>2
    <3>2. CASE n # m + 1
      <4>1. n \in 0 .. m
        BY <3>2
      <4>2. h[n] = g[n]
        BY <3>2
      <4>3. g[n] = IF n = 0 THEN <<>> ELSE Assigned(g[n - 1], flags[n])
        BY <2>1, <4>1
      <4>4. n # 0 => n - 1 \in 0 .. m + 1 /\ n - 1 # m + 1
        BY <4>1
      <4>5. n # 0 => h[n - 1] = g[n - 1]
        BY <4>4
      <4> QED
        BY <4>2, <4>3, <4>5
    <3> QED
      BY <3>1, <3>2
  <2>3. h = [n \in 0 .. m + 1 |-> h[n]]
    OBVIOUS
  <2>4. IsLoop(h, m + 1)
    <3> HIDE DEF h
    <3> QED
      BY <2>2, <2>3
  <2> HIDE DEF IsLoop
  <2> QED
    BY <2>4
<1>3. N \in S
  <2> HIDE DEF S
  <2> QED
    BY <1>1, <1>2, Counting
<1> DEFINE of == CHOOSE g : IsLoop(g, N)
<1>4. IsLoop(of, N)
  <2>1. \E g : IsLoop(g, N)
    BY <1>3
  <2> HIDE DEF IsLoop
  <2> QED
    BY <2>1
<1>5. of[0] = <<>> /\ \A n \in 1 .. N : of[n] = Assigned(of[n - 1], flags[n])
  <2>1. 0 \in 0 .. N /\ \A n \in 1 .. N : n \in 0 .. N /\ n # 0
    OBVIOUS
  <2> HIDE DEF of
  <2> QED
    BY <1>4, <2>1
<1>6. Assignments(flags, N) = of[N]
  BY DEF Assignments
<1> HIDE DEF of
<1> QED
  BY <1>5, <1>6

SplitWords == {Split[w] : w \in DOMAIN Split}

RegisterInput == [register : Reg, value : Number]

\* These inputs are what the assignments stand for, one by one.
InputsAre(inputs, given) ==
    /\ given \in Seq(SplitWords) /\ Len(inputs) = Len(given)
    /\ \A n \in 1 .. Len(given) : ParseRegisterInput(given[n]) = {inputs[n]}

LEMMA InputsMean ==
    ASSUME NEW inputs \in Seq(RegisterInput), NEW given, InputsAre(inputs, given)
    PROVE  {inputs} = ParseRegisterInputs(given)
<1> DEFINE is == [n \in DOMAIN given |-> CHOOSE i \in ParseRegisterInput(given[n]) : TRUE]
<1>1. DOMAIN given = 1 .. Len(given) /\ DOMAIN inputs = 1 .. Len(given)
  BY DEF InputsAre
<1>2. \A n \in DOMAIN given : ParseRegisterInput(given[n]) = {inputs[n]}
  BY <1>1 DEF InputsAre
<1>3. \A n \in DOMAIN given : ParseRegisterInput(given[n]) # {}
  BY <1>2
<1>4. \A n \in DOMAIN given : is[n] = inputs[n]
  BY <1>2
<1>5. is = inputs
  <2>1. inputs = [n \in DOMAIN inputs |-> inputs[n]] /\ is = [n \in DOMAIN given |-> is[n]]
    <3>1. inputs = [n \in DOMAIN inputs |-> inputs[n]]
      OBVIOUS
    <3>2. is = [n \in DOMAIN given |-> is[n]]
      <4> DEFINE g(n) == CHOOSE i \in ParseRegisterInput(given[n]) : TRUE
      <4>1. is = [n \in DOMAIN given |-> g(n)]
        OBVIOUS
      <4>2. \A n \in DOMAIN given : is[n] = g(n)
        OBVIOUS
      <4> HIDE DEF is, g
      <4> QED
        BY <4>1, <4>2
    <3> QED
      BY <3>1, <3>2
  <2>2. DOMAIN inputs = DOMAIN given
    BY <1>1
  <2> HIDE DEF is
  <2> QED
    BY <1>4, <2>1, <2>2
<1>6. ParseRegisterInputs(given) = {is}
  BY <1>3 DEF ParseRegisterInputs
<1> QED
  BY <1>5, <1>6

LEMMA InputsStep ==
    ASSUME NEW inputs \in Seq(RegisterInput), NEW given, InputsAre(inputs, given),
           NEW f, IsFlag(f), f.flag = "--reg", NEW w \in f.value \cap DOMAIN Split,
           NEW i \in ParseRegisterInput(Split[w])
    PROVE  InputsAre(Append(inputs, i), Assigned(given, f))
<1>1. (CHOOSE v \in f.value : TRUE) = w
  BY DEF IsFlag, AtMostOne
<1>2. Assigned(given, f) = Append(given, Split[w])
  BY <1>1 DEF Assigned
<1>3. ParseRegisterInput(Split[w]) = {i}
  BY InputTyped DEF AtMostOne
<1> DEFINE more == Append(given, Split[w])
           js == Append(inputs, i)
<1>4. given \in Seq(SplitWords) /\ Split[w] \in SplitWords
  BY DEF InputsAre, SplitWords
<1>5. /\ more \in Seq(SplitWords) /\ Len(more) = Len(given) + 1 /\ more[Len(given) + 1] = Split[w]
      /\ \A n \in 1 .. Len(given) : more[n] = given[n]
  BY <1>4
<1>6. /\ Len(js) = Len(inputs) + 1 /\ js[Len(inputs) + 1] = i
      /\ \A n \in 1 .. Len(inputs) : js[n] = inputs[n]
  OBVIOUS
<1>7. Len(given) \in Nat
  BY <1>4
<1>8. ASSUME NEW n \in 1 .. Len(more) PROVE ParseRegisterInput(more[n]) = {js[n]}
  <2>1. CASE n = Len(given) + 1
    BY <1>3, <1>5, <1>6, <2>1 DEF InputsAre
  <2>2. CASE n # Len(given) + 1
    <3> HIDE DEF more, js
    <3>1. n \in 1 .. Len(given)
      BY <1>5, <1>7, <2>2
    <3> QED
      BY <1>5, <1>6, <3>1 DEF InputsAre
  <2> QED
    BY <2>1, <2>2
<1>9. Len(js) = Len(more)
  BY <1>5, <1>6 DEF InputsAre
<1> QED
  BY <1>2, <1>5, <1>8, <1>9 DEF InputsAre

\* What a command is after the first n flags, these assignments among them.
Means(c, flags, n, given) ==
    /\ SpecIs(c.spec, flags, Counted(flags, n))
    /\ InputsAre(c.inputs, given)
    /\ c.max_steps = Or(LastOf(flags, 1 .. n, "--max-steps"), DefaultMaxSteps)

\* The flags that are neither a path's, nor the limit, nor an input.
IsPlain(f) == f.flag \notin Range(OutFlag) /\ f.flag # "--max-steps" /\ f.flag # "--reg"

LEMMA FlagKinds ==
    ASSUME NEW f
    PROVE  /\ (\E a \in DOMAIN OutFlag : f.flag = OutFlag[a]) <=> f.flag \in Range(OutFlag)
           /\ f.flag \in Range(OutFlag) =>
                 /\ f.flag # "--max-steps" /\ f.flag # "--reg" /\ f.flag # "--result-unsigned"
                 /\ ~IsOfResult(f)
           /\ IsOfResult(f) => IsPlain(f)
<1>1. Range(OutFlag) = {"--asm-out", "--trace-out", "--analysis-out", "--result-out"}
  BY Artifacts DEF Range, OutFlag
<1>2. (\E a \in DOMAIN OutFlag : f.flag = OutFlag[a]) <=> f.flag \in Range(OutFlag)
  BY DEF Range
<1> QED
  BY <1>1, <1>2 DEF IsOfResult, IsPlain

LEMMA CliFlagIs ==
    ASSUME NEW c, NEW f
    PROVE  /\ f.flag \in Range(OutFlag) =>
                 CliFlag(c, f) = {[c EXCEPT !.out = SetOut(c.out, f, path)] : path \in f.value}
           /\ f.flag = "--max-steps" =>
                 CliFlag(c, f) = {[c EXCEPT !.max_steps = n] : n \in f.value \cap Limit}
           /\ f.flag = "--reg" =>
                 CliFlag(c, f) =
                   {[c EXCEPT !.inputs = Append(c.inputs, i)] :
                      i \in UNION {ParseRegisterInput(Split[w]) : w \in f.value \cap DOMAIN Split}}
           /\ IsPlain(f) => CliFlag(c, f) = {[c EXCEPT !.spec = s] : s \in SpecFlag(c.spec, f)}
<1> DEFINE out == \E a \in DOMAIN OutFlag : f.flag = OutFlag[a]
<1>1. out <=> f.flag \in Range(OutFlag)
  BY FlagKinds
<1>2. f.flag \in Range(OutFlag) => f.flag # "--max-steps" /\ f.flag # "--reg"
  BY FlagKinds
<1>3. CASE f.flag \in Range(OutFlag)
  BY <1>1, <1>2, <1>3 DEF CliFlag, IsPlain
<1>4. CASE f.flag = "--max-steps"
  BY <1>1, <1>2, <1>4 DEF CliFlag, IsPlain
<1>5. CASE f.flag = "--reg"
  BY <1>1, <1>2, <1>5 DEF CliFlag, IsPlain
<1>6. CASE IsPlain(f)
  BY <1>1, <1>6 DEF CliFlag, IsPlain
<1> QED
  BY <1>3, <1>4, <1>5, <1>6 DEF IsPlain

\* A flag is refused if its value is not one that may stand there.
LEMMA UsableIs ==
    ASSUME NEW c \in CliCommand, NEW f, IsFlag(f)
    PROVE  CliFlag(c, f) # {} <=> Usable(f)
<1>1. CASE f.flag \in Range(OutFlag)
  <2>1. Allowed(f.flag) = Path /\ f.flag # "--result-unsigned"
    BY <1>1, FlagKinds DEF Allowed, IsOfResult
  <2>2. f.value \subseteq Path
    BY <1>1 DEF IsFlag
  <2>3. CliFlag(c, f) = {[c EXCEPT !.out = SetOut(c.out, f, path)] : path \in f.value}
    BY <1>1, CliFlagIs
  <2>4. CliFlag(c, f) # {} <=> f.value # {}
    BY ONLY <2>3
  <2>5. f.value \cap Path = f.value
    BY ONLY <2>2
  <2> QED
    BY <2>1, <2>4, <2>5 DEF Usable
<1>2. CASE f.flag = "--max-steps"
  <2>1. Allowed(f.flag) = Limit /\ f.flag # "--result-unsigned"
    BY <1>2, FlagKinds DEF Allowed
  <2>2. CliFlag(c, f) = {[c EXCEPT !.max_steps = n] : n \in f.value \cap Limit}
    BY <1>2, CliFlagIs
  <2>3. CliFlag(c, f) # {} <=> f.value \cap Limit # {}
    BY ONLY <2>2
  <2> QED
    BY <2>1, <2>3 DEF Usable
<1>3. CASE f.flag = "--reg"
  <2>1. Allowed(f.flag) = {w \in DOMAIN Split : ParseRegisterInput(Split[w]) # {}}
        /\ f.flag # "--result-unsigned"
    BY <1>3, FlagKinds DEF Allowed
  <2> DEFINE is == UNION {ParseRegisterInput(Split[w]) : w \in f.value \cap DOMAIN Split}
  <2>2. CliFlag(c, f) # {} <=> is # {}
    <3>1. CliFlag(c, f) = {[c EXCEPT !.inputs = Append(c.inputs, i)] : i \in is}
      BY <1>3, CliFlagIs
    <3> HIDE DEF is
    <3> QED
      BY <3>1
  <2>3. is # {} <=> \E w \in f.value \cap DOMAIN Split : ParseRegisterInput(Split[w]) # {}
    OBVIOUS
  <2> HIDE DEF is
  <2> QED
    BY <2>1, <2>2, <2>3 DEF Usable
<1>4. CASE IsPlain(f)
  <2>1. CliFlag(c, f) # {} <=> SpecFlag(c.spec, f) # {}
    <3>1. CliFlag(c, f) = {[c EXCEPT !.spec = s] : s \in SpecFlag(c.spec, f)}
      BY <1>4, CliFlagIs
    <3> QED
      BY ONLY <3>1
  <2>2. f.flag \notin Range(OutFlag) /\ f.flag # "--max-steps" /\ f.flag # "--reg"
    BY <1>4 DEF IsPlain
  <2> DEFINE array == AsArray(c.spec)
  <2>3. CASE f.flag = "--result-kind"
    <3>1. Allowed(f.flag) = {"scalar", "array"}
      BY <2>2, <2>3 DEF Allowed
    <3>2. SpecFlag(c.spec, f) # {} <=> f.value = {"scalar"} \/ f.value = {"array"}
      BY <2>3 DEF SpecFlag
    <3>3. f.value = {"scalar"} \/ f.value = {"array"} <=> f.value \cap {"scalar", "array"} # {}
      BY DEF IsFlag, AtMostOne
    <3> QED
      BY <2>1, <2>3, <3>1, <3>2, <3>3 DEF Usable
  <2>4. CASE f.flag \in {"--result-register", "--result-ptr-register", "--result-length-register"}
    <3>1. Allowed(f.flag) = Reg
      BY <2>2, <2>4 DEF Allowed
    <3>2. SpecFlag(c.spec, f) # {} <=> f.value \cap Reg # {}
      <4>1. CASE f.flag = "--result-register"
        BY <4>1 DEF SpecFlag
      <4>2. CASE f.flag = "--result-ptr-register"
        BY <4>2 DEF SpecFlag
      <4>3. CASE f.flag = "--result-length-register"
        BY <4>3 DEF SpecFlag
      <4> QED
        BY <2>4, <4>1, <4>2, <4>3
    <3> QED
      BY <2>1, <2>4, <3>1, <3>2 DEF Usable
  <2>5. CASE f.flag = "--result-elem-width"
    <3>1. Allowed(f.flag) = Width
      BY <2>2, <2>5 DEF Allowed
    <3>2. SpecFlag(c.spec, f) # {} <=> f.value \cap Width # {}
      BY <2>5 DEF SpecFlag
    <3> QED
      BY <2>1, <2>5, <3>1, <3>2 DEF Usable
  <2>6. CASE f.flag = "--result-unsigned"
    <3>1. SpecFlag(c.spec, f) # {}
      BY <2>6 DEF SpecFlag
    <3> QED
      BY <2>1, <2>6, <3>1 DEF Usable
  <2>7. CASE ~IsOfResult(f)
    <3>1. Allowed(f.flag) = {}
      BY <2>2, <2>7 DEF Allowed, IsOfResult
    <3>2. SpecFlag(c.spec, f) = {}
      BY <2>7 DEF SpecFlag, IsOfResult
    <3> QED
      BY <2>1, <2>7, <3>1, <3>2 DEF Usable, IsOfResult
  <2> QED
    BY <2>3, <2>4, <2>5, <2>6, <2>7 DEF IsOfResult
<1> QED
  BY <1>1, <1>2, <1>3, <1>4 DEF IsPlain

(* One flag more, and the command still means what the flags say.          *)
LEMMA MeansStep ==
    ASSUME NEW flags, NEW n \in Nat, NEW f, f = flags[n + 1], IsFlag(f),
           NEW c \in CliCommand, NEW given, Means(c, flags, n, given), NEW d \in CliFlag(c, f)
    PROVE  Means(d, flags, n + 1, Assigned(given, f))
<1>1. LastOf(flags, 1 .. n + 1, "--max-steps") =
         IF f.flag = "--max-steps" THEN f.value ELSE LastOf(flags, 1 .. n, "--max-steps")
  <2>1. 1 .. n + 1 = (1 .. n) \cup {n + 1}
    OBVIOUS
  <2>2. 1 .. n \in SUBSET (1 .. n)
    OBVIOUS
  <2>3. LastOf(flags, (1 .. n) \cup {n + 1}, "--max-steps") =
           IF flags[n + 1].flag = "--max-steps" THEN flags[n + 1].value
           ELSE LastOf(flags, 1 .. n, "--max-steps")
    BY ONLY n \in Nat, <2>2, LastAfter
  <2> QED
    BY <2>1, <2>3
<1>2. f.flag # "--reg" => Assigned(given, f) = given
  BY DEF Assigned
<1>3. ~IsOfResult(f) => Counted(flags, n + 1) = Counted(flags, n)
  BY CountedStep
<1>4. /\ SpecIs(c.spec, flags, Counted(flags, n)) /\ InputsAre(c.inputs, given)
      /\ c.max_steps = Or(LastOf(flags, 1 .. n, "--max-steps"), DefaultMaxSteps)
  BY DEF Means
<1>5. /\ c = [type |-> c.type, input |-> c.input, out |-> c.out,
              max_steps |-> c.max_steps, inputs |-> c.inputs, spec |-> c.spec]
      /\ c.inputs \in Seq(RegisterInput)
  BY DEF CliCommand, RegisterInput
<1>6. CASE f.flag \in Range(OutFlag)
  <2>1. CliFlag(c, f) = {[c EXCEPT !.out = SetOut(c.out, f, path)] : path \in f.value}
    BY <1>6, CliFlagIs
  <2>2. d.spec = c.spec /\ d.inputs = c.inputs /\ d.max_steps = c.max_steps
    BY <1>5, <2>1
  <2>3. f.flag # "--max-steps" /\ f.flag # "--reg" /\ ~IsOfResult(f)
    BY <1>6, FlagKinds
  <2> QED
    BY <1>1, <1>2, <1>3, <1>4, <2>2, <2>3 DEF Means
<1>7. CASE f.flag = "--max-steps"
  <2>1. CliFlag(c, f) = {[c EXCEPT !.max_steps = l] : l \in f.value \cap Limit}
    BY <1>7, CliFlagIs
  <2>2. PICK l \in f.value : d = [c EXCEPT !.max_steps = l]
    BY <2>1
  <2>3. d.spec = c.spec /\ d.inputs = c.inputs /\ d.max_steps = l
    BY <1>5, <2>2
  <2>4. Or(f.value, DefaultMaxSteps) = l
    BY ValueIs
  <2>5. ~IsOfResult(f) /\ f.flag # "--reg"
    BY <1>7 DEF IsOfResult
  <2> QED
    BY <1>1, <1>2, <1>3, <1>4, <1>7, <2>3, <2>4, <2>5 DEF Means
<1>8. CASE f.flag = "--reg"
  <2> DEFINE is == UNION {ParseRegisterInput(Split[w]) : w \in f.value \cap DOMAIN Split}
  <2>1. CliFlag(c, f) = {[c EXCEPT !.inputs = Append(c.inputs, i)] : i \in is}
    BY <1>8, CliFlagIs
  <2>2. PICK i \in is : d = [c EXCEPT !.inputs = Append(c.inputs, i)]
    <3> HIDE DEF is
    <3> QED
      BY <2>1
  <2>3. PICK w \in f.value \cap DOMAIN Split : i \in ParseRegisterInput(Split[w])
    BY <2>2
  <2>4. d.spec = c.spec /\ d.inputs = Append(c.inputs, i) /\ d.max_steps = c.max_steps
    BY <1>5, <2>2
  <2>5. InputsAre(Append(c.inputs, i), Assigned(given, f))
    <3> HIDE DEF is
    <3> QED
      BY <1>4, <1>5, <1>8, <2>3, InputsStep
  <2>6. ~IsOfResult(f) /\ f.flag # "--max-steps"
    BY <1>8 DEF IsOfResult
  <2> QED
    BY <1>1, <1>3, <1>4, <2>4, <2>5, <2>6 DEF Means
<1>9. CASE IsPlain(f)
  <2>1. CliFlag(c, f) = {[c EXCEPT !.spec = s] : s \in SpecFlag(c.spec, f)}
    BY <1>9, CliFlagIs
  <2>2. PICK s \in SpecFlag(c.spec, f) : d = [c EXCEPT !.spec = s]
    BY <2>1
  <2>3. d.spec = s /\ d.inputs = c.inputs /\ d.max_steps = c.max_steps
    BY <1>5, <2>2
  <2>4. IsOfResult(f)
    BY <2>2 DEF SpecFlag, IsOfResult
  <2>5. SpecIs(s, flags, Counted(flags, n + 1))
    BY <1>4, <2>2, <2>4, SpecStep
  <2>6. f.flag # "--max-steps" /\ f.flag # "--reg"
    BY <1>9 DEF IsPlain
  <2> QED
    BY <1>1, <1>2, <1>4, <2>3, <2>5, <2>6 DEF Means
<1> QED
  BY <1>6, <1>7, <1>8, <1>9 DEF IsPlain

\* What parse_args has after n flags of a line, these assignments among them.
Parsed(S, line, n, given) ==
    /\ IsParsed(S)
    /\ \A c \in S : c.type = "cli" => Means(c, line.flags, n, given)
    /\ line.first \in DOMAIN Program \ {"serve"} =>
          /\ S \subseteq CliCommand
          /\ S # {} <=> \A m \in 1 .. n : Usable(line.flags[m])

LEMMA ParsedFirst ==
    ASSUME NEW line
    PROVE  Parsed(Bare(line.first), line, 0, <<>>)
<1> DEFINE first == line.first
           flags == line.flags
<1>1. 1 .. 0 = {}
  OBVIOUS
<1>2. Counted(flags, 0) = {}
  BY CountedIs, <1>1
<1>3. SpecIs(DefaultScalar, flags, {})
  BY NoFlags DEF SpecIs, IsKind
<1>4. InputsAre(<<>>, <<>>)
  BY DEF InputsAre
<1>5. Or(LastOf(flags, 1 .. 0, "--max-steps"), DefaultMaxSteps) = DefaultMaxSteps
  BY <1>1, LastFirst DEF Or
<1>6. ASSUME NEW c \in Bare(first), c.type = "cli" PROVE Means(c, flags, 0, <<>>)
  <2>1. c.spec = DefaultScalar /\ c.inputs = <<>> /\ c.max_steps = DefaultMaxSteps
    BY <1>6 DEF Bare
  <2> QED
    BY <1>2, <1>3, <1>4, <1>5, <2>1 DEF Means
<1>7. ASSUME first \in DOMAIN Program \ {"serve"}
      PROVE  Bare(first) \subseteq CliCommand /\ Bare(first) # {}
  <2>1. \A c \in Bare(first) : c.type = "cli"
    BY <1>7 DEF Bare
  <2>2. \A c \in ServeCommand : c.type = "serve"
    BY DEF ServeCommand
  <2>3. Bare(first) # {}
    BY <1>7 DEF Bare
  <2> QED
    BY <2>1, <2>2, <2>3, BareTyped DEF IsParsed
<1> QED
  BY <1>1, <1>6, <1>7, BareTyped DEF Parsed

LEMMA ParsedNext ==
    ASSUME NEW line, NEW n \in Nat, NEW f, f = line.flags[n + 1], IsFlag(f), NEW S, NEW given,
           Parsed(S, line, n, given)
    PROVE  Parsed(Flagged(S, f), line, n + 1, Assigned(given, f))
<1> DEFINE flags == line.flags
           N == 1 .. n + 1
<1>1. IsParsed(Flagged(S, f))
  BY FlaggedTyped DEF Parsed
<1>2. (\A m \in 1 .. n + 1 : Usable(flags[m])) <=> (\A m \in 1 .. n : Usable(flags[m])) /\ Usable(f)
  <2>1. \A m : m \in 1 .. n + 1 <=> m \in 1 .. n \/ m = n + 1
    OBVIOUS
  <2> QED
    BY <2>1
<1>3. CASE S = {}
  <2>1. Flagged(S, f) = {}
    BY <1>3 DEF Flagged
  <2> QED
    BY <1>1, <1>2, <1>3, <2>1 DEF Parsed
<1>4. ASSUME NEW c \in S PROVE Parsed(Flagged(S, f), line, n + 1, Assigned(given, f))
  <2>1. S = {c}
    BY DEF Parsed, IsParsed, AtMostOne
  <2>2. CASE c \in CliCommand
    <3>1. c.type = "cli"
      BY <2>2 DEF CliCommand
    <3>2. Flagged(S, f) = CliFlag(c, f)
      BY <2>1, <3>1 DEF Flagged
    <3>3. \A d \in CliFlag(c, f) : Means(d, flags, n + 1, Assigned(given, f))
      <4>1. Means(c, flags, n, given)
        BY <2>1, <3>1 DEF Parsed
      <4> QED
        BY <2>2, <4>1, MeansStep
    <3>4. CliFlag(c, f) # {} <=> Usable(f)
      BY <2>2, UsableIs
    <3>5. CliFlag(c, f) \subseteq CliCommand
      BY <2>2, CliFlagTyped
    <3>6. line.first \in DOMAIN Program \ {"serve"} => \A m \in 1 .. n : Usable(flags[m])
      BY <2>1 DEF Parsed
    <3> QED
      BY <1>1, <1>2, <3>2, <3>3, <3>4, <3>5, <3>6 DEF Parsed
  <2>3. CASE c \in ServeCommand
    <3>1. c.type = "serve"
      BY <2>3 DEF ServeCommand
    <3>2. Flagged(S, f) = ServeFlag(c, f)
      BY <2>1, <3>1 DEF Flagged
    <3>3. \A d \in ServeFlag(c, f) : d.type = "serve"
      BY <2>3 DEF ServeFlag, ServeCommand
    <3>4. ~(line.first \in DOMAIN Program \ {"serve"})
      BY <2>1, <3>1 DEF Parsed, CliCommand
    <3> QED
      BY <1>1, <3>2, <3>3, <3>4 DEF Parsed
  <2> QED
    BY <2>1, <2>2, <2>3 DEF Parsed, IsParsed
<1> QED
  BY <1>3, <1>4

LEMMA ArgsParsed ==
    ASSUME NEW line, IsLine(line)
    PROVE  LET all == Len(line.flags)
           IN  Parsed(ParseArgs(line), line, all, Assignments(line.flags, all))
<1> DEFINE N == Len(line.flags)
<1>0. N \in Nat
  BY DEF IsLine
<1>1. PICK parsed : /\ ParseArgs(line) = parsed[N]
                    /\ parsed[0] = Bare(line.first)
                    /\ \A n \in 1 .. N :
                          parsed[n] = Flagged(parsed[n - 1], line.flags[n])
  BY <1>0, LoopOverFlags
<1>2. PICK of : /\ Assignments(line.flags, N) = of[N]
                /\ of[0] = <<>>
                /\ \A n \in 1 .. N : of[n] = Assigned(of[n - 1], line.flags[n])
  BY <1>0, LoopOverAssignments
<1> DEFINE S == {n \in Nat : n <= N => Parsed(parsed[n], line, n, of[n])}
<1>3. 0 \in S
  BY <1>1, <1>2, ParsedFirst
<1>4. ASSUME NEW n \in Nat, n \in S PROVE n + 1 \in S
  <2> SUFFICES ASSUME n + 1 <= N PROVE Parsed(parsed[n + 1], line, n + 1, of[n + 1])
    OBVIOUS
  <2>1. n <= N /\ n + 1 \in 1 .. N /\ (n + 1) - 1 = n
    BY <1>0
  <2>2. /\ parsed[n + 1] = Flagged(parsed[n], line.flags[n + 1])
        /\ of[n + 1] = Assigned(of[n], line.flags[n + 1])
    BY <1>1, <1>2, <2>1
  <2>3. Parsed(parsed[n], line, n, of[n]) /\ IsFlag(line.flags[n + 1])
    BY <1>4, <2>1 DEF IsLine
  <2> QED
    BY <2>2, <2>3, ParsedNext
<1>5. N \in S
  <2> HIDE DEF S, N
  <2> QED
    BY <1>0, <1>3, <1>4, Counting
<1> QED
  BY <1>0, <1>1, <1>2, <1>5

\* What a process has for a command is what its arguments stand for.
CommandInv ==
    \A p \in Proc : IF stage[p] = "parse" THEN command[p] = {}
                    ELSE p \in DOMAIN cmdline /\ command[p] = ParseArgs(cmdline[p])

LEMMA CommandsHold == Spec => [](ProcInv /\ CommandInv /\ DOMAIN cmdline \subseteq Proc)
<1> DEFINE All == ProcInv /\ CommandInv /\ DOMAIN cmdline \subseteq Proc
<1>1. ASSUME Init PROVE All
  <2>1. DOMAIN cmdline \subseteq Proc
    BY <1>1, ScenarioAssumption DEF Init
  <2>2. CommandInv
    BY <1>1 DEF Init, CliInit, CommandInv
  <2> QED
    BY <1>1, <2>1, <2>2, ProcStarts
<1>2. ASSUME All, [Next]_vars PROVE All'
  <2>1. CliStep /\ ProcInv'
    BY <1>2, CliSteps, ProcInvKept
  <2>2. DOMAIN stage = Proc /\ DOMAIN command = Proc
    BY <1>2 DEF ProcInv
  <2>3. ASSUME NEW p \in Proc, Parse(p) PROVE CommandInv' /\ cmdline' = cmdline
    <3>1. /\ command'[p] = ParseArgs(cmdline[p]) /\ cmdline' = cmdline /\ p \in DOMAIN cmdline
          /\ \A q \in Proc \ {p} : command'[q] = command[q] /\ stage'[q] = stage[q]
      BY <2>2, <2>3 DEF Parse, Goto
    <3>2. stage'[p] # "parse"
      <4> DEFINE s == CASE \E c \in command'[p] : c.type = "cli"   -> "run"
                        [] \E c \in command'[p] : c.type = "serve" -> "bind"
                        [] OTHER                                   -> "err"
      <4>1. stage' = [stage EXCEPT ![p] = s]
        BY <2>3 DEF Parse, Goto
      <4>2. s # "parse"
        OBVIOUS
      <4> HIDE DEF s
      <4> QED
        BY <2>2, <4>1, <4>2
    <3> QED
      BY <1>2, <3>1, <3>2 DEF CommandInv
  <2>4. ASSUME NEW p \in Proc, Open(p) \/ Fill(p) \/ \E s \in Stages : Moves(p, s)
        PROVE  CommandInv' /\ cmdline' = cmdline
    <3>1. command' = command /\ cmdline' = cmdline
      BY <2>4 DEF Open, Fill, Moves
    <3>2. PICK s : Goto(p, s) /\ s # "parse"
      BY <2>4 DEF Open, Fill, Moves
    <3>3. stage[p] # "parse"
      BY <2>4 DEF Open, Fill, Moves
    <3>4. \A q \in Proc : stage'[q] = "parse" <=> stage[q] = "parse"
      BY <2>2, <3>2, <3>3 DEF Goto
    <3> QED
      BY <1>2, <3>1, <3>4 DEF CommandInv
  <2>5. ASSUME UNCHANGED cli_vars PROVE CommandInv' /\ cmdline' = cmdline
    BY <1>2, <2>5 DEF cli_vars, CommandInv
  <2>6. CommandInv' /\ cmdline' = cmdline
    <3> HIDE DEF All
    <3> QED
      BY <2>1, <2>3, <2>4, <2>5 DEF CliStep
  <2> QED
    BY <1>2, <2>1, <2>6
<1> HIDE DEF All
<1>3. Spec => []All
  BY <1>1, <1>2, PTL DEF Spec
<1> QED
  BY <1>3, PTL DEF All

(* The command line means what the HTTP interface does: whatever flags are *)
(* given, in whatever order and however often, the command that parse_args *)
(* returns interprets the result as the request with the settings that     *)
(* count does (Counted), has the same register inputs in the same order    *)
(* and the last limit; and it returns one exactly if no flag is one to     *)
(* refuse.  For any registers, words, and number of flags.                 *)
THEOREM FlagsMeanTheApi == Spec => []FlagsAgreeWithApi
<1>1. ASSUME ProcInv, CommandInv, DOMAIN cmdline \subseteq Proc PROVE FlagsAgreeWithApi
  <2> SUFFICES ASSUME NEW p \in DOMAIN cmdline
               PROVE  LET flags == cmdline[p].flags
                          all   == Len(flags) IN
        /\ \A c \in command[p] : c.type = "cli" =>
              /\ {c.spec} = ParseApiResult(AsRequest(flags, all))
              /\ {c.inputs} = ParseRegisterInputs(Assignments(flags, all))
              /\ c.max_steps = Or(LastOf(flags, 1 .. all, "--max-steps"), DefaultMaxSteps)
        /\ (stage[p] # "parse" /\ cmdline[p].first \in DOMAIN Program \ {"serve"}) =>
              (command[p] # {} <=> \A n \in 1 .. all : Usable(flags[n]))
    BY DEF FlagsAgreeWithApi
  <2> DEFINE flags == cmdline[p].flags
             all   == Len(flags)
  <2>1. p \in Proc /\ IsLine(cmdline[p]) /\ all \in Nat
    BY <1>1 DEF ProcInv, IsLine
  <2>2. CASE stage[p] = "parse"
    BY <1>1, <2>1, <2>2 DEF CommandInv
  <2>3. CASE stage[p] # "parse"
    <3>1. Parsed(command[p], cmdline[p], all, Assignments(flags, all))
      <4>1. command[p] = ParseArgs(cmdline[p])
        BY <1>1, <2>1, <2>3 DEF CommandInv
      <4> QED
        BY <2>1, <4>1, ArgsParsed
    <3>2. ASSUME NEW c \in command[p], c.type = "cli"
          PROVE  /\ {c.spec} = ParseApiResult(AsRequest(flags, all))
                 /\ {c.inputs} = ParseRegisterInputs(Assignments(flags, all))
                 /\ c.max_steps = Or(LastOf(flags, 1 .. all, "--max-steps"), DefaultMaxSteps)
      <4>1. c \in CliCommand
        BY <3>1, <3>2 DEF Parsed, IsParsed, ServeCommand
      <4>2. c.spec \in SpecValues /\ c.inputs \in Seq(RegisterInput)
        BY <4>1 DEF CliCommand, RegisterInput
      <4>3. Means(c, flags, all, Assignments(flags, all))
        BY <3>1, <3>2 DEF Parsed
      <4>4. {c.spec} = ParseApiResult(AsRequest(flags, all))
        BY <2>1, <4>2, <4>3, RequestIs DEF Means
      <4>5. {c.inputs} = ParseRegisterInputs(Assignments(flags, all))
        BY <4>2, <4>3, InputsMean DEF Means
      <4> QED
        BY <4>3, <4>4, <4>5 DEF Means
    <3> QED
      BY <3>1, <3>2 DEF Parsed
  <2> QED
    BY <2>2, <2>3
<1> QED
  BY <1>1, CommandsHold, PTL
=============================================================================
