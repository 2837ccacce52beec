-------------------------------- MODULE Main --------------------------------
(***************************************************************************)
(* The program main.rs as it is used: processes that run the pipeline on a *)
(* file or serve, on one file system and one host, and the clients of the  *)
(* port ClientPort.                                                        *)
(***************************************************************************)
EXTENDS Cli, Server

CONSTANTS
    ClientPort, \* the port that the clients know
    Scenarios   \* the command lines and the requests that are made together

ASSUME ScenarioAssumption ==
    \A s \in Scenarios :
        /\ DOMAIN s.lines \subseteq Proc
        /\ \A p \in DOMAIN s.lines : LET flags == s.lines[p].flags IN
              /\ Len(flags) \in Nat /\ DOMAIN flags = 1 .. Len(flags)
              /\ \A n \in DOMAIN flags :
                    /\ \A v, w \in flags[n].value : v = w
                    /\ flags[n].flag \in Range(OutFlag) => flags[n].value \subseteq Path
        /\ \A c \in DOMAIN s.requests : LET r == s.requests[c] IN
              /\ c \in Client
              /\ r.head \in Nat \ {0} /\ r.body \in Nat
              /\ r.path \in {"none", "index", "run", "other"}
              /\ \A a, b \in r.api : a = b

vars == <<cli_vars, server_vars>>

Init ==
    /\ \E s \in Scenarios : cmdline = s.lines /\ requests = s.requests
    /\ CliInit
    /\ ServerInit

ServesOn(p, port) == stage[p] = "serve" /\ \E c \in command[p] : c.port = port

\* run_server: TcpListener::bind fails if the port is in use.
Bind(p) ==
    /\ stage[p] = "bind"
    /\ \E c \in command[p] :
          LET taken == \E q \in Proc : ServesOn(q, c.port)
          IN  /\ Goto(p, IF taken THEN "err" ELSE "serve")
              /\ server' = IF ~taken /\ c.port = ClientPort THEN "up" ELSE server
    /\ UNCHANGED <<cmdline, command, written, files, runs>>
    /\ UNCHANGED <<requests, backlog, handled, got, step, phase, sent, ending, answers>>

\* The pipeline panics while it serves c, in the process that serves.
PanicOf(p, c) ==
    /\ ServesOn(p, ClientPort)
    /\ Panic(c)
    /\ Goto(p, "panic")
    /\ UNCHANGED <<cmdline, command, written, files, runs>>

\* A process is ended from outside, with what it serves.
EndProcess(p) ==
    /\ Kill(p)
    /\ IF ServesOn(p, ClientPort) THEN Stop ELSE UNCHANGED server_vars

ServerStep ==
    \/ (Accept \/ AcceptError \/ Handle) /\ UNCHANGED cli_vars
    \/ \E p \in Proc, c \in handled : PanicOf(p, c)

Next ==
    \/ CliNext /\ UNCHANGED server_vars
    \/ \E p \in Proc : Bind(p) \/ EndProcess(p)
    \/ ServerStep
    \/ \E c \in Client : (Connect(c) \/ ClientStep(c)) /\ UNCHANGED cli_vars

\* The server goes on, and a client that has not sent what its head announces
\* sends on, or sends no more.  One that does neither keeps all others waiting.
Fairness ==
    /\ WF_vars(ServerStep)
    /\ \A c \in Client :
          WF_vars(ClientStep(c) /\ ~IsWhole(c, sent[c]) /\ UNCHANGED cli_vars)

Spec == Init /\ [][Next]_vars /\ Fairness
=============================================================================
