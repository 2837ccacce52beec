--------------------------- MODULE MainProperties ---------------------------
(***************************************************************************)
(* What is to be expected of main.rs: the command line and the HTTP        *)
(* interface mean the same, the files that several runs leave are in order *)
(* of their ages, and clients are answered for what they asked, in turn.   *)
(***************************************************************************)
EXTENDS Main

SpecValues ==
    [kind : {"scalar"}, register : Reg] \cup
    [kind : {"array"}, ptr_register : Reg, length_register : Reg, elem_width : Width,
     signed : BOOLEAN]

\* The state is one of the program's, and a connection is open exactly as long
\* as it waits or is handled (main.rs:111-126).
TypeOK ==
    /\ \A p \in Proc :
          /\ stage[p] \in {"parse", "run", "bind", "open", "fill", "serve",
                           "ok", "err", "panic", "killed"}
          /\ \A c \in command[p] : c.type = "cli" => c.spec \in SpecValues
          /\ written[p] \in 0 .. 4
    /\ files \in [Path -> SUBSET Proc]
    /\ server \in {"down", "up"} /\ step \in {"read", "answer"}
    /\ got \in Nat
    /\ IsInjective(Waiting) /\ Range(Waiting) = {c \in Client : phase[c] = "open"}
    /\ \A c \in DOMAIN requests : sent[c] \in 0 .. Total(c)
    /\ \A c \in Client : answers[c] # "none" => phase[c] = "closed"

-----------------------------------------------------------------------------
(* Flags *)

KindOf(f) ==
    IF (f.flag = "--result-kind" /\ f.value = {"scalar"}) \/ f.flag = "--result-register"
    THEN "scalar" ELSE "array"

IsOfResult(f) ==
    f.flag \in {"--result-kind", "--result-register", "--result-ptr-register",
                "--result-length-register", "--result-elem-width", "--result-unsigned"}

\* Of the first n flags, those about the result that count: there is none of the
\* other kind behind them.
Counted(flags, n) ==
    LET rs == {k \in 1 .. n : IsOfResult(flags[k])}
    IN  {k \in rs : \A m \in rs : k <= m => KindOf(flags[m]) = KindOf(flags[k])}

Latest(ks) == CHOOSE k \in ks : \A m \in ks : m <= k

\* The value of the last of these flags with this name, if there is one.
LastOf(flags, ks, name) ==
    LET named == {k \in ks : flags[k].flag = name}
    IN  IF named = {} THEN {} ELSE flags[Latest(named)].value

\* The `result` of the request that says the same as the first n flags.
AsRequest(flags, n) ==
    LET ks == Counted(flags, n)
    IN  IF ks = {} THEN {}
        ELSE IF \A k \in ks : KindOf(flags[k]) = "scalar"
        THEN {[kind |-> "scalar", register |-> LastOf(flags, ks, "--result-register")]}
        ELSE {[kind |-> "array",
               ptr_register |-> LastOf(flags, ks, "--result-ptr-register"),
               length_register |-> LastOf(flags, ks, "--result-length-register"),
               elem_width |-> LastOf(flags, ks, "--result-elem-width"),
               signed |-> {FALSE : k \in {k \in ks : flags[k].flag = "--result-unsigned"}}]}

\* These register assignments, and the one of this flag if it has one.
Assigned(as, f) ==
    IF f.flag = "--reg" THEN Append(as, Split[CHOOSE w \in f.value : TRUE]) ELSE as

\* The register assignments among the first n flags, in order.
Assignments(flags, n) ==
    LET of[k \in 0 .. n] == IF k = 0 THEN <<>> ELSE Assigned(of[k - 1], flags[k])
    IN  of[n]

\* The words that may stand behind a flag.
Allowed(flag) ==
    CASE flag \in Range(OutFlag) -> Path
      [] flag = "--max-steps" -> Limit
      [] flag = "--reg" -> {w \in DOMAIN Split : ParseRegisterInput(Split[w]) # {}}
      [] flag = "--result-kind" -> {"scalar", "array"}
      [] flag \in {"--result-register", "--result-ptr-register", "--result-length-register"} -> Reg
      [] flag = "--result-elem-width" -> Width
      [] OTHER -> {}

Usable(f) == f.flag = "--result-unsigned" \/ f.value \cap Allowed(f.flag) # {}

\* A command line asks for what the request with the same settings does: for
\* the same interpretation of the result, the same register inputs in the same
\* order, and the last limit.  Of each setting of the result the last counts,
\* but a flag of the other kind of result drops those before it (Counted).
\* One flag that is no good, and nothing is run, wherever it stands.
\* (main.rs:333-465, against 140-149 and 273-291)
FlagsAgreeWithApi ==
    \A p \in DOMAIN cmdline : LET flags == cmdline[p].flags
                                 all   == Len(flags) IN
        /\ \A c \in command[p] : c.type = "cli" =>
              /\ {c.spec} = ParseApiResult(AsRequest(flags, all))
              /\ {c.inputs} = ParseRegisterInputs(Assignments(flags, all))
              /\ c.max_steps = Or(LastOf(flags, 1 .. all, "--max-steps"), DefaultMaxSteps)
        /\ (stage[p] # "parse" /\ cmdline[p].first \in DOMAIN Program \ {"serve"}) =>
              (command[p] # {} <=> \A n \in 1 .. all : Usable(flags[n]))

-----------------------------------------------------------------------------
(* Files *)

Writers == UNION Range(runs)

\* The files of a run, in the order in which it writes them.
Outputs(p) ==
    LET out == (CHOOSE c \in command[p] : TRUE).out
    IN  <<out["asm"], out["trace"], out["analysis"], out["result"]>>

\* The newest of the runs that the bytes of a file are of.
Age(path) ==
    LET of == {n \in DOMAIN runs : runs[n] \cap files[path] # {}}
    IN  IF of = {} THEN 0 ELSE CHOOSE n \in of : \A m \in of : m <= n

\* If runs go to the same four files, then however many fail or are killed on
\* the way, a file is never newer than the one before it; and the files of the
\* newest run, if it was alone, are whole as far as it came, all four of them
\* if it succeeded.  The files themselves do not say which run they are of.
\* (main.rs:82-109)
FilesAgeInOrder ==
    \A p \in Writers :
        (IsInjective(Outputs(p)) /\ \A q \in Writers : Outputs(q) = Outputs(p)) =>
            /\ \A m, n \in 1 .. 4 :
                  m < n /\ files[Outputs(p)[m]] # {}
                      => Age(Outputs(p)[n]) <= Age(Outputs(p)[m])
            /\ Last(runs) = {p} =>
                  /\ stage[p] = "ok" => written[p] = 4
                  /\ \A n \in 1 .. 4 : files[Outputs(p)[n]] = {p} <=> n <= written[p]

-----------------------------------------------------------------------------
(* The server *)

\* A client sends what its head announces, and a run request whole if any.
IsExact(c) ==
    /\ requests[c].length = {requests[c].body}
    /\ \A api \in requests[c].api : api.size = requests[c].body

Crashed == \E p \in Proc : stage[p] \in {"panic", "killed"}

\* The answer to a request that came whole.
Expected(r) ==
    CASE r.path = "index" -> {"page"}
      [] r.path = "other" -> {"not found"}
      [] r.path = "run" /\ \E api \in r.api : IsAccepted(api) -> {api.outcome : api \in r.api}
      [] OTHER -> {"none"}

\* Unless the server is ended, a client that sends an exact request and waits
\* for the answer gets that of the whole request, in whatever parts it was sent
\* and read, and whatever others send; and nobody gets that of another program.
\* (main.rs:128-225)
AnswersAreRight ==
    \A c \in DOMAIN requests : phase[c] = "closed" =>
        /\ (IsExact(c) /\ sent[c] = Total(c) /\ ending[c] # "gone" /\ ~Crashed)
               => answers[c] \in Expected(requests[c])
        /\ answers[c] \in Expected(requests[c]) \cup {"none"}

\* The server attends to its clients in the order in which they come, and with
\* every one of them it is done in the end, whatever their requests, and in
\* spite of being ended and started again.  (main.rs:111-126)
Attended == INSTANCE Service WITH
    queue <- Waiting, done <- {c \in Client : phase[c] = "closed"}

ImplementsService == Attended!Spec
=============================================================================
