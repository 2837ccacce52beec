-------------------------------- MODULE Cli --------------------------------
(***************************************************************************)
(* The command line of main.rs: parse_args, and run_cli with the four      *)
(* files it writes.  Processes run side by side on one file system, and    *)
(* one may be killed between any two of its steps.                         *)
(*                                                                         *)
(* A command line is its first argument and then flags, each with its      *)
(* value if it has one.  What the pipeline makes of an input is given.     *)
(***************************************************************************)
EXTENDS Inputs, Naturals, Sequences, Functions

CONSTANTS
    Proc,       \* the processes
    Path,       \* the files that outputs may go to
    Stem,       \* for each input, the file names that its outputs get
    Program,    \* for each input: "ok", "err", "panic", or "missing"
    Split,      \* the words with an "=", and the two words that it parts them into
    Limit,      \* the words that are a u64
    Width,      \* the words that are a u8
    Port        \* the words that are a u16

Artifact == <<"asm", "trace", "analysis", "result">>
DefaultMaxSteps == "10000"
DefaultPort     == "3000"

ASSUME CliAssumption ==
    /\ Stem \in [DOMAIN Program -> [Range(Artifact) -> Path]]
    /\ {"a0", "a1"} \subseteq Reg
    /\ "4" \in Width /\ DefaultMaxSteps \in Limit /\ DefaultPort \in Port

VARIABLES
    cmdline,    \* the arguments of each process that is started
    stage,      \* what each process is doing, or how it ended
    command,    \* what parse_args made of the arguments
    written,    \* how many outputs a process has written
    files,      \* for each path, whose output is in the file: {} if it is missing,
                \* empty, or cut short
    runs        \* the processes in the order in which they began to write; those
                \* that wrote side by side are together

cli_vars == <<cmdline, stage, command, written, files, runs>>

-----------------------------------------------------------------------------
(* parse_args *)

\* Faulty variant: every flag of an array starts from the defaults.
AsArrayAfresh(spec) == DefaultArray

\* A result spec as an array's: its fields if it is one, the defaults if not.
AsArray(spec) == IF spec.kind = "array" THEN spec ELSE DefaultArray

AsScalar(spec, r) == [DefaultScalar EXCEPT !.register = r]

\* What one flag of the result makes of the spec so far.
SpecFlag(spec, f) ==
    CASE f.flag = "--result-kind" ->
             IF f.value = {"scalar"}
             THEN {IF spec.kind = "scalar" THEN spec ELSE DefaultScalar}
             ELSE IF f.value = {"array"} THEN {AsArray(spec)} ELSE {}
      [] f.flag = "--result-register" ->
             {AsScalar(spec, r) : r \in f.value \cap Reg}
      [] f.flag = "--result-ptr-register" ->
             {[AsArray(spec) EXCEPT !.ptr_register = r] : r \in f.value \cap Reg}
      [] f.flag = "--result-length-register" ->
             {[AsArray(spec) EXCEPT !.length_register = r] : r \in f.value \cap Reg}
      [] f.flag = "--result-elem-width" ->
             {[AsArray(spec) EXCEPT !.elem_width = w] : w \in f.value \cap Width}
      [] f.flag = "--result-unsigned" ->
             {[AsArray(spec) EXCEPT !.signed = FALSE]}
      [] OTHER -> {}

\* The outputs' flags, and what each is the path of.
OutFlag == [asm |-> "--asm-out", trace |-> "--trace-out",
            analysis |-> "--analysis-out", result |-> "--result-out"]

\* The paths of the outputs once the one that the flag f is for is this.
SetOut(out, f, path) ==
    [a \in DOMAIN OutFlag |-> IF f.flag = OutFlag[a] THEN path ELSE out[a]]

\* One round of the loop over the arguments of a run: {} is an error, and so
\* is a flag that is unknown or for help, or whose value is missing.
CliFlag(c, f) ==
    CASE \E a \in DOMAIN OutFlag : f.flag = OutFlag[a] ->
             {[c EXCEPT !.out = SetOut(c.out, f, path)] : path \in f.value}
      [] f.flag = "--max-steps" -> {[c EXCEPT !.max_steps = n] : n \in f.value \cap Limit}
      [] f.flag = "--reg" ->
             {[c EXCEPT !.inputs = Append(@, i)] :
                 i \in UNION {ParseRegisterInput(Split[w]) : w \in f.value \cap DOMAIN Split}}
      [] OTHER -> {[c EXCEPT !.spec = s] : s \in SpecFlag(c.spec, f)}

ServeFlag(c, f) ==
    {[c EXCEPT !.port = p] : p \in {w \in f.value \cap Port : f.flag = "--port"}}

\* The command before its flags.
Bare(first) ==
    IF first = "serve" THEN {[type |-> "serve", port |-> DefaultPort]}
    ELSE {[type |-> "cli", input |-> input, out |-> Stem[input],
           max_steps |-> DefaultMaxSteps, inputs |-> <<>>, spec |-> DefaultScalar] :
             input \in {first} \cap DOMAIN Program}

\* What one more flag makes of it.
Flagged(parsed, f) ==
    UNION {IF c.type = "serve" THEN ServeFlag(c, f) ELSE CliFlag(c, f) : c \in parsed}

\* The command that the arguments stand for, if they are not an error.
ParseArgs(line) ==
    LET parsed[n \in 0 .. Len(line.flags)] ==
            IF n = 0 THEN Bare(line.first) ELSE Flagged(parsed[n - 1], line.flags[n])
    IN  parsed[Len(line.flags)]

-----------------------------------------------------------------------------
(* run, run_cli *)

Goto(p, s) == stage' = [stage EXCEPT ![p] = s]

\* run(): its errors are printed, and the exit code is 1.
Parse(p) ==
    /\ p \in DOMAIN cmdline /\ stage[p] = "parse"
    /\ command' = [command EXCEPT ![p] = ParseArgs(cmdline[p])]
    /\ Goto(p, CASE \E c \in command'[p] : c.type = "cli"   -> "run"
                 [] \E c \in command'[p] : c.type = "serve" -> "bind"
                 [] OTHER                                   -> "err")
    /\ UNCHANGED <<cmdline, written, files, runs>>

\* The input is read and run_pipeline called, before anything is written.
RunInput(p) ==
    /\ stage[p] = "run"
    /\ \E c \in command[p] :
          Goto(p, CASE Program[c.input] \in {"missing", "err"} -> "err"
                    [] Program[c.input] = "panic"              -> "panic"
                    [] OTHER                                   -> "open")
    /\ UNCHANGED <<cmdline, command, written, files, runs>>

\* Where the next output of p goes.
NextOut(p) == {c.out[Artifact[written[p] + 1]] : c \in command[p]}

Writing == {p \in Proc : stage[p] = "fill" \/ (stage[p] = "open" /\ written[p] > 0)}

\* p begins to write.
Begin(p) ==
    IF Writing = {} THEN Append(runs, {p})
    ELSE [runs EXCEPT ![Len(runs)] = @ \cup {p}]

\* fs::write, its first half: the file is created, or cut to nothing.
Open(p) ==
    /\ stage[p] = "open"
    /\ \E path \in NextOut(p) : files' = [files EXCEPT ![path] = {}]
    /\ runs' = IF written[p] = 0 THEN Begin(p) ELSE runs
    /\ Goto(p, "fill")
    /\ UNCHANGED <<cmdline, command, written>>

\* fs::write, its second half.  Bytes that another process has put there since
\* stay behind the end of these, if there are more of them.
Fill(p) ==
    /\ stage[p] = "fill"
    /\ \E path \in NextOut(p) : \E rest \in {{}, files[path]} :
          files' = [files EXCEPT ![path] = {p} \cup rest]
    /\ written' = [written EXCEPT ![p] = @ + 1]
    /\ Goto(p, IF written'[p] = Len(Artifact) THEN "ok" ELSE "open")
    /\ UNCHANGED <<cmdline, command, runs>>

\* Faulty variant: a file that cannot be written is passed over.
FailWriteGoesOn(p) ==
    /\ stage[p] \in {"open", "fill"}
    /\ written' = [written EXCEPT ![p] = @ + 1]
    /\ Goto(p, IF written'[p] = Len(Artifact) THEN "ok" ELSE "open")
    /\ UNCHANGED <<cmdline, command, files, runs>>

\* fs::write fails to open the file, or to write all of it.
FailWrite(p) ==
    /\ stage[p] \in {"open", "fill"}
    /\ Goto(p, "err")
    /\ UNCHANGED <<cmdline, command, written, files, runs>>

\* The process is ended from outside.
Kill(p) ==
    /\ stage[p] \in {"run", "open", "fill", "serve"}
    /\ Goto(p, "killed")
    /\ UNCHANGED <<cmdline, command, written, files, runs>>

CliInit ==
    /\ stage = [p \in Proc |-> "parse"]
    /\ command = [p \in Proc |-> {}]
    /\ written = [p \in Proc |-> 0]
    /\ files = [path \in Path |-> {}]
    /\ runs = <<>>

CliNext == \E p \in Proc : Parse(p) \/ RunInput(p) \/ Open(p) \/ Fill(p) \/ FailWrite(p)
=============================================================================
