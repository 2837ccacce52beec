------------------------------- MODULE Server -------------------------------
(***************************************************************************)
(* The HTTP server of main.rs and its clients: the accept loop of          *)
(* run_server, which handles one connection at a time, read_request, which *)
(* gathers a request from what each read() brings, and handle_connection.  *)
(*                                                                         *)
(* The bytes of a request are counted in units.  A request has so many for *)
(* its head, the empty line included, and the client sends so many more    *)
(* after it.  The head names a method and path, and may give a length.     *)
(***************************************************************************)
EXTENDS Inputs, Naturals, SequencesExt

CONSTANTS
    Client,     \* the clients, one connection each
    ReadMax     \* the units that the buffer of read_request has room for

ASSUME ServerAssumption == ReadMax \in Nat \ {0}

VARIABLES
    requests,   \* the request of each client that comes
    server,     \* "down" or "up"
    backlog,    \* the connections that wait to be accepted, in order
    handled,    \* the connection that handle_connection has, if there is one
    got,        \* how many units of it read_request has
    step,       \* where handle_connection is: "read" or "answer"
    phase,      \* a connection is "none", "open", or "closed" by the server
    sent,       \* how many units a client has sent
    ending,     \* a client may yet send more, or has shut its side, or is gone
    answers     \* the answer that a client has, if it has one

server_vars == <<requests, server, backlog, handled, got, step, phase, sent, ending, answers>>

Total(c)     == requests[c].head + requests[c].body
Waiting      == IF handled = {} THEN backlog ELSE <<CHOOSE c \in handled : TRUE>> \o backlog
Connected(c) == phase[c] = "open"

-----------------------------------------------------------------------------
(* The clients. *)

Connect(c) ==
    /\ server = "up"
    /\ c \in DOMAIN requests /\ phase[c] = "none"
    /\ phase' = [phase EXCEPT ![c] = "open"]
    /\ backlog' = Append(backlog, c)
    /\ UNCHANGED <<requests, server, handled, got, step, sent, ending, answers>>

\* Any part of what is left to send arrives.
Send(c) ==
    /\ Connected(c)
    /\ ending[c] = "open"
    /\ \E n \in sent[c] + 1 .. Total(c) : sent' = [sent EXCEPT ![c] = n]
    /\ UNCHANGED <<requests, server, backlog, handled, got, step, phase, ending, answers>>

\* A client sends no more, done or not, or goes away.
End(c, how) ==
    /\ Connected(c)
    /\ ending[c] = "open"
    /\ ending' = [ending EXCEPT ![c] = how]
    /\ UNCHANGED <<requests, server, backlog, handled, got, step, phase, sent, answers>>

ClientStep(c) == Send(c) \/ End(c, "shut") \/ End(c, "gone")

-----------------------------------------------------------------------------
(* run_server *)

\* Faulty variant: a connection is accepted before the last is done with.
AcceptAtOnce ==
    /\ server = "up"
    /\ backlog # <<>>
    /\ handled' = {Head(backlog)}
    /\ backlog' = Tail(backlog)
    /\ got' = 0
    /\ step' = "read"
    /\ UNCHANGED <<requests, server, phase, sent, ending, answers>>

\* listener.incoming()
Accept ==
    /\ server = "up"
    /\ handled = {}
    /\ backlog # <<>>
    /\ handled' = {Head(backlog)}
    /\ backlog' = Tail(backlog)
    /\ got' = 0
    /\ step' = "read"
    /\ UNCHANGED <<requests, server, phase, sent, ending, answers>>

\* listener.incoming() yields an error in place of a client that is gone.
AcceptError ==
    /\ server = "up"
    /\ handled = {}
    /\ backlog # <<>>
    /\ ending[Head(backlog)] = "gone"
    /\ phase' = [phase EXCEPT ![Head(backlog)] = "closed"]
    /\ backlog' = Tail(backlog)
    /\ UNCHANGED <<requests, server, handled, got, step, sent, ending, answers>>

\* handle_connection returns, and the stream is dropped.
Close(c, answer) ==
    /\ handled' = {}
    /\ phase' = [phase EXCEPT ![c] = "closed"]
    /\ answers' = [answers EXCEPT ![c] = answer]

-----------------------------------------------------------------------------
(* read_request *)

HasHead(c, n) == n >= requests[c].head

\* parse_content_length: {} for a value that is no usize; zero if there is none
ContentLength(r) == IF r.length = {} THEN {0} ELSE r.length \cap Nat

\* Faulty variant: the length is taken for that of the head and the body.
IsWholeByLength(c, n) ==
    HasHead(c, n) /\ \A l \in ContentLength(requests[c]) : n >= l

\* Whether n units are all that the head says there will be.
IsWhole(c, n) ==
    HasHead(c, n) /\ \A l \in ContentLength(requests[c]) : n >= requests[c].head + l

\* One round of the loop: read() brings some of what has arrived.
Read(c) ==
    /\ handled = {c} /\ step = "read"
    /\ \E n \in got + 1 .. sent[c] :
          /\ n - got <= ReadMax
          /\ HasHead(c, n) => ContentLength(requests[c]) # {}
          /\ got' = n
          /\ step' = IF IsWhole(c, n) THEN "answer" ELSE "read"
    /\ UNCHANGED <<requests, server, backlog, handled, phase, sent, ending, answers>>

\* Faulty variant: a body that ends too early is waited for.
ReadEndWhole(c) ==
    /\ handled = {c} /\ step = "read"
    /\ got = sent[c] /\ ending[c] # "open"
    /\ IsWhole(c, got)
    /\ step' = "answer"
    /\ UNCHANGED <<requests, server, backlog, handled, got, phase, sent, ending, answers>>

\* read() brings nothing, at the end of the stream: what there is must do.
ReadEnd(c) ==
    /\ handled = {c} /\ step = "read"
    /\ got = sent[c] /\ ending[c] # "open"
    /\ HasHead(c, got)
    /\ step' = "answer"
    /\ UNCHANGED <<requests, server, backlog, handled, got, phase, sent, ending, answers>>

\* read_request fails: the stream ends within the head, the length is no
\* number, or the client is gone.  Nothing is answered.
FailRead(c) ==
    /\ handled = {c} /\ step = "read"
    /\ \/ got = sent[c] /\ ending[c] # "open" /\ ~HasHead(c, got)
       \/ ContentLength(requests[c]) = {}
          /\ \E n \in got + 1 .. sent[c] : n - got <= ReadMax /\ HasHead(c, n)
       \/ ending[c] = "gone"
    /\ Close(c, "none")
    /\ UNCHANGED <<requests, server, backlog, got, step, sent, ending>>

-----------------------------------------------------------------------------
(* handle_connection *)

\* The body is a run request: all that follows the head, surplus included, is
\* the JSON of one.
IsJson(c, n) == \E api \in requests[c].api : n = requests[c].head + api.size

\* Whether the inputs and the result of a run request can be had.
IsAccepted(api) ==
    ParseRegisterInputs(api.inputs) # {} /\ ParseApiResult(api.result) # {}

\* The answer to a request of which n units were read: "none" if an error is
\* returned and the connection is closed; "panic" if the pipeline panics.
AnswerTo(c, n) ==
    CASE requests[c].path = "none"  -> {"none"}
      [] requests[c].path = "index" -> {"page"}
      [] requests[c].path = "run"   ->
             IF ~IsJson(c, n) THEN {"none"}
             ELSE {IF IsAccepted(api) THEN api.outcome ELSE "none" : api \in requests[c].api}
      [] OTHER                      -> {"not found"}

\* A client that is gone does not get its answer, and one whose connection is
\* closed on bytes that were not read may not.
Respond(c) ==
    /\ handled = {c} /\ step = "answer"
    /\ \E a \in AnswerTo(c, got) \ {"panic"} :
          \/ ending[c] # "gone" /\ Close(c, a)
          \/ (ending[c] = "gone" \/ got < sent[c]) /\ Close(c, "none")
    /\ UNCHANGED <<requests, server, backlog, got, step, sent, ending>>

\* The process ends, and every connection with it.
Stop ==
    /\ server = "up"
    /\ server' = "down"
    /\ backlog' = <<>>
    /\ handled' = {}
    /\ phase' = [c \in Client |-> IF phase[c] = "open" THEN "closed" ELSE phase[c]]
    /\ UNCHANGED <<requests, got, step, sent, ending, answers>>

\* A panic of run_pipeline is one of the whole process.
Panic(c) ==
    /\ handled = {c} /\ step = "answer"
    /\ AnswerTo(c, got) = {"panic"}
    /\ Stop

Handle == \E c \in handled : Read(c) \/ ReadEnd(c) \/ FailRead(c) \/ Respond(c)

ServerInit ==
    /\ server = "down"
    /\ backlog = <<>>
    /\ handled = {}
    /\ got = 0
    /\ step = "read"
    /\ phase = [c \in Client |-> "none"]
    /\ sent = [c \in Client |-> 0]
    /\ ending = [c \in Client |-> "open"]
    /\ answers = [c \in Client |-> "none"]
=============================================================================
