# RizzV in TLA+

RizzV (`src/rizz-v`) assembles a small RISC-V-like language, executes it step
by step into a trace, analyses its control flow, and serves all of it through
a command line and a local HTTP server with a browser UI.  This directory
holds TLA+ modules translated from its source, the TLC configurations that
check them on small instances, and theorems about them that TLAPS checks.

## Inventory

| Component | Source | State | Operations | What makes it correct |
|---|---|---|---|---|
| Stack memory | `memory.rs` | sparse map address -> byte, at most the window `0x1000..0x2000` | `load8..64`, `store8..64` | behaves as a byte array; refuses exactly the misaligned and outlying accesses; refused accesses change nothing |
| Executor and trace | `executor.rs`, `state.rs`, `cpu.rs` | program counter, registers, memory, trace, step count | `execute` and one handler per instruction class | recorded states describe the machine; control follows the program; every outcome has its cause; every run ends |
| Instructions, registers | `instruction.rs`, `reg.rs` | 32 registers | `RegFile::get/set` | `zero` stays 0; one destination per instruction |
| Parser and assembler | `assembler.rs`, `grammar.pest` | program, label map, globals, pc | `assemble` per statement, `resolve`, `entry_pc`, `entry_label` | lowering preserves meaning; branches go where their label is; unknown labels are refused |
| Control-flow analysis | `analysis.rs` | none (pure) | `analyze`, `find_loops`, `dfs` | blocks partition the code; edges are the transfers the executor can make; loops are found |
| Pipeline, result decoding | `lib.rs` | none (pure) | `run_pipeline`, `interpret_result`, `decode_array`, input parsing | a decode error does not fail the run; results are read from the last state |
| Command line | `main.rs` | four output files | `parse_args`, `run_cli` | flags mean what the HTTP interface means; of the four files none is newer than one before it, however runs fail |
| HTTP server | `main.rs` | the accept queue, one connection | `run_server`, `handle_connection`, `read_request` | a request gets its own answer in whatever parts it comes; clients are attended to in turn, and every one is done with |
| Browser UI | `viz3.html` | text, fields, draft; trace, analysis, position, timer, `running` | edit, fill in, run, import, play, step, reload | what is asked for, sent, shown and saved belongs together |

Interaction: the CLI and the server call `run_pipeline` (`lib.rs:137`), which
calls parser, `Assembler::assemble`, `resolve`, `Executor::execute`,
`analyze`, `interpret_result` in turn.  The executor owns registers, memory
and trace, reads the assembler's instructions through `instruction_at_pc`, and
calls `Memory` and `RegFile`.  Nothing in the Rust process runs concurrently:
the interleavings are those of clients with the sequential server, of the
browser's callbacks, and of file writes with failures.

What is hard: error paths half-way through a step; arithmetic at the ends of
`i64` and of the address space, different in debug and release builds; the
order of limit, fetch and termination tests; programs that do not end; an
executor used again; a client that is slow or goes away; a process that is
ended between two of its four files; callbacks of a page in every order.  `PROJECT.json` lists
each hazard at its line with the properties that would catch it.

## Modules

| Module | Models |
|---|---|
| `Words` | fixed-width integers: casts, bytes of a word |
| `MemoryOps` | the methods of `Memory` as operators on its one field |
| `Memory` | `memory.rs` as a state machine with one client |
| `FlatMemory` | abstract: a total byte array that answers loads and stores |
| `Isa` | the instruction forms the assembler builds and what each computes |
| `Executor` | `Executor::execute`: the call, the loop, every handler and return |
| `ExecutorProperties` | what must be true of it |
| `TraceLog` | abstract: a run as a bounded, linked, append-only log |
| `Analysis` | `analyze` and `find_loops`, a pure function of program and entry |
| `AnalysisProperties` | reference definitions: transfers of control, reachability, natural loops |
| `Assembler` | `assemble` statement by statement, `resolve`, entry and labels |
| `AssemblerProperties` | what the text says, independently of the label map |
| `Pipeline` | `run_pipeline`: assembler, analysis, executor, `interpret_result` in one call |
| `PipelineProperties` | what must agree across the components |
| `InferenceProperties` | what must be true of what the UI reads out of a text, against the same pipeline |
| `Inputs` | register assignments and result requests as the command line and the HTTP interface take them |
| `Cli` | `parse_args`, `run_cli`: processes that write four files each on one file system |
| `Server` | `run_server`, `read_request`, `handle_connection`, and the clients |
| `Main` | `main`: both, with `bind`, panics and kills of the process that serves |
| `Service` | abstract: a queue of clients, each done with in turn |
| `MainProperties` | what must be true of the program |
| `Inference` | `inferredInputRegisters` of the UI, a pure function of the text |
| `Editor` | the UI's text, fields, run button, request and draft |
| `Player` | the UI's trace, analysis, result, position and timer |
| `Viewer` | both, with the run button's handler and reloads |
| `ViewerProperties` | what a user of the page relies on |
| `MCMemory`, `MCExecutor`, `MCAnalysis`, `MCAssembler`, `MCPipeline`, `MCMain`, `MCViewer` | small instances for TLC |
| `MemoryOpsProofs`, `MemoryProofs`, `ExecutorProofs`, `AssemblerProofs`, `AnalysisProofs`, `PipelineProofs`, `MainProofs`, `ViewerProofs` | lemmas and theorems |

`Executor` builds on `Isa` and `MemoryOps`; `Assembler` and `Analysis` share
`Isa` with it; `Pipeline` extends `Analysis` and takes the steps of instances
of `Assembler` and `Executor`.  `InferenceProperties` runs `Inference` on the
texts of `Pipeline`, and `MCViewer` takes from it what the page asks for.
`Main` extends `Cli` and `Server`, which share `Inputs`; `Viewer` extends
`Editor` and `Player`.  In `Cli` and `Server` the pipeline is its outcome, and
in `Viewer` the server is its answers: their own modules say the rest.

### Memory

`bytes` is `Memory::bytes`.  `Load`, `Store` and `Refuse` are the eight public
methods: `Fault` is `validate_alignment` then `validate_address` in the order
of the code, `LoadRaw` the shift-and-or of bytes that read 0 when absent,
`StoreRaw` the inserts, `PreviousValue` the sign-extended old contents that a
store answers with.  `FlatMemory` knows nothing of sparse maps, shifts or the
order of checks: a word is the number whose bytes are in the cells.

### Executor

| TLA+ | Rust |
|---|---|
| `job` | the arguments of `execute`: code, entry, input registers, limit |
| `pc`, `regs`, `memory`, `trace` | `Cpu::pc`, `RegFile`, `Memory`, `Trace` |
| `steps` | the local `steps` of `execute` |
| `status` | idle, running, or how the last call ended: ok, an `ExecErr`, or a panic |
| `Execute(j)` | `execute` up to its loop: reset, `sp`, inputs, first state |
| `ExceedLimit`, `LeaveCode` | the returns of `MaxStepsExceeded` and `InvalidPc` |
| `ExecuteR .. ExecuteJalr` | one iteration that completes, through `Retire` (write-back, pc, `Trace::add`, termination) |
| `MemoryFault`, `MissTarget`, `Panic` | one iteration that leaves through `?` or a panic |

An iteration of the loop is one action, because nothing can observe the
executor inside one except through the error it leaves with; the partial
effects of a failing iteration (registers, memory, trace, pc) are the point of
`Stop`, which changes the status only, as the code's `?` returns do.
`Execute` may be called again after a return: the struct is reusable, and
`execute` is public.  It may not after a panic, which unwinds through the
owner.

`OverflowChecks` is the build: `TRUE` for a debug build, where `+ - * <<`
panic out of range, `FALSE` for a release build, where they wrap.

### Analysis

`Analyze(code, entry)` is the function `analyze`: `Leaders`, `Blocks`,
`EdgesOf`, then `Loops`.  Leaders are in order, as in the code's `BTreeSet`, and edges a
sequence, for the depth-first search takes neighbours in their order; the
summaries stay as they were found, for the code sorts them last and nothing
depends on that.  `Dfs` is a recursive function, as `dfs` is: what the code
passes by mutable reference (`Search`) it is given and returns.
`Reach` of `AnalysisProperties` says where pairs of nodes lead as the least set
that is closed under them, without a search.
`AnalysisProperties` has a state machine of two states, call and return, over
all programs of an instance.

### Assembler

| TLA+ | Rust |
|---|---|
| `source`, `done` | the statements of the parse tree, and how many `assemble` has consumed |
| `program`, `pc` | `Assembler::program`, each instruction with the label its target stands for; `Assembler::pc` |
| `labels`, `globals` | `Assembler::labels`, `Assembler::globals` |
| `AssembleInstruction`, `AssembleDirective`, `AssembleLabel` | the arms of `assemble` |
| `RefuseStatement`, `RefuseTarget` | errors of `create_inst` and of `resolve` |
| `CreateInst` | `create_inst`: the instruction a mnemonic makes of its operands, or nothing |

A statement is what the grammar yields: its rule, register names (not all of
which are registers), an immediate of any size and a label.

### Pipeline

`stage` follows `run_pipeline` from one `?` to the next.  `Assemble` and
`RunProgram` are steps of the two instances, `AnalyzeProgram` and `Interpret`
are one step each.  `FailAllocation` is the one way in which `decode_array`
does not return: `Vec::with_capacity` of a length whose bytes are no `isize`,
at any scale, or beyond what the allocator has, `Allocatable`.  The 64 of the
runs is a bound of the scaled machine, where all of memory has 4096 addresses;
a real allocator has far more, and refuses later.

### Command line and server

| TLA+ | Rust |
|---|---|
| `cmdline`, `command` | the arguments, and the `Command` that `parse_args` makes of them |
| `stage`, `written` | where `run` is in a process, and how many of the four `write_json` are done |
| `files` | for each path, whose output it holds |
| `Open`, `Fill`, `FailWrite` | the two halves of `fs::write` and its failure |
| `backlog`, `handled` | the kernel's accept queue, and the stream of `handle_connection` |
| `got`, `step` | `buffer.len()` of `read_request`, and whether the loop is over |
| `Read`, `ReadEnd`, `FailRead` | a round of the loop; `bytes_read == 0`; every `?` in it and after it |
| `Respond`, `Panic` | the arms of `handle_connection` that return, and a panic of `run_pipeline` |
| `Send`, `End` | a client: any part of the rest arrives; it stops, or goes away |

A request is counted in units: so many for the head, with its empty line, so
many after it, and what its head announces.  The head may announce more, less,
nothing, or no number.  `runs` is a history variable: in which order runs began
to write, those that overlap in one group.  A file that is cut short counts as
nobody's.  `Bind` refuses the second server on a port, and after a panic or a
kill the other process may take it; clients that were waiting are gone, later
ones are served.

### Browser UI

A handler runs to its end before the next, so each is one action; a handler
that awaits is split there: `ClickRun` and `Answer` are the two halves of the
run button's, and an import changes nothing before it has its file.  `live` is
the set of intervals the browser has running, which is not always what the
page has in `timer`; `shown` and `controls` are what the page displayed when
it was last rendered.  A handler in which `inferredInputRegisters` throws stops
there.  `Reload` starts the script again from the draft.

`Inference` translates the data-flow analysis of the page, from its own
tokenisation of the text to the fixpoint; `InferenceProperties` compares it with
the registers that paths of the program read first, and with what the executor
does with them.  Its three loops (over `work`, over `reachable`, over `changed`)
are functions of the number of the step.  The search takes a step for every
instruction not seen yet, as those between push nothing; the rounds end with
the first that changes no output, for inputs are computed from outputs.

### Scaling

`ByteBits` is the number of bits in a byte, 8 in the program.  Widths stay 1,
2, 4 and 8 bytes, so everything that depends on widths, alignment, little-endian
order and sign extension is as in the program; with `ByteBits = 1` an `i64`
has the 256 values -128..127 and TLC can cover all boundaries.  `Pow2` is a
table, since the provers know nothing of exponentiation with a variable
exponent.  Instruction addresses keep the stride 4 (`WORD_SIZE`).  The window
is a constant; the runs take one double word (`memory_refinement`), two, or
the program's own 4096 bytes (`pipeline`).  `RegBits` must be a power
of two in a run, as shift amounts are masked; 8, 16 and 64 are.

## Runs

| Run | Question |
|---|---|
| `memory_refinement` | Is the sparse map a byte array (`ImplementsFlatMemory`)?  All widths at every address around the window and at the end of the address space, stores of distinguishing patterns. |
| `executor_debug` | Debug build.  All programs of three control instructions with labels inside and outside the code, limits around the length of the program, return addresses: does control follow the text, is the cause of every outcome true, is the trace a log, does every run end (`ImplementsTraceLog`)?  All operations on boundary operands: is what is recorded exact, addresses included, and does a run panic just where the exact result does not fit (`OverflowIsCaught`)? |
| `executor_release` | Release build, executor used again after every outcome.  Overlapping accesses of every width, legal and not: does the trace account for every byte and every loaded value, does a failing step leave nothing?  All operations on boundary operands: right modulo 2^64, panics only in the divisions? |
| `executor_explicit_errors` | Counterexample: `info.md:148` promises explicit errors of execution; `div` by zero panics. |
| `analysis_graph` | Programs of up to three instructions of every kind with every target and entry, and all of four branches: do blocks partition what can run, are edges the transfers of control, are loops natural, and is every cycle of blocks a loop? |
| `analysis_code_cycles` | Counterexample: `info.md:87` and `:96` promise loops of the code; a jump inside a block closes one that no summary has. |
| `assembler` | Texts of five statements that define (again), use and export two labels, with statements in error; every mnemonic with every kind of operands: do targets, entry, meaning and refusals follow from the text? |
| `pipeline` | Programs of twelve of the repository's tests; texts of three statements with an entry and a label anywhere or nowhere; arrays of every width, sign and length around both ends of the window: does the whole agree with the tests, the trace with the graph, the result with the trace? |
| | The same run asks of the UI's inference: is it exactly the registers that some path reads before it assigns them (`InferenceIsExact`), and does the executor never read another one before it is assigned (`InferredInputsSuffice`)? |
| `main` | Every command line of three flags of eighteen kinds, and of four flags about the result: does it ask for what the same settings in an HTTP request ask for?  Three runs on the same four files, side by side or not, that fail or are killed at any step: are the files in order of their ages (they carry no mark of their run)?  One or two servers and up to three clients with fourteen kinds of requests: are answers right, and is everyone done with in turn (`ImplementsService`)? |
| `viewer` | A user who types, fills in, has failing runs and reloads; one who has runs that succeed, imports and plays: in every order of handlers, answers and ticks, is the run button right, are requests complete, does what is loaded and shown belong together, is there one interval at most, does playing end, and does a reload keep the work? |
| `viewer_fields` | Counterexample: `viz3.html:328` says that the fields are the registers the program reads; for one whose entry is behind its last instruction the inference throws, and the fields stay those of the text before. |
| `pipeline_decode_errors` | Counterexample: `lib.rs:99` says an array that cannot be read leaves a decode error; a length the allocator cannot serve ends the process. |

Bounds.  Three instructions are enough for a loop, a call with a return and a
fall off the end; limits of 0, exactly and one less than the length of the run
are among those of `executor_debug`.  `memory_refinement` has a window of one
double word, with addresses on either side of it and up to the last of the
address space, where an access would overflow; the executor's runs have two
double words, so that an access of a double word has a neighbour as well.
Operands of the arithmetic are the ends of `i64`, -1, 0, 1 and amounts around
the shift mask.  Three instructions and four
branches are enough for nested, overlapping and unreachable loops, for a
target after the last instruction and for a jump in the middle of a block.
Five statements hold two definitions of a label, uses before and after them
and two directives.  In `main` a head and a body have two units each and a read
brings at most two, so that a request may come in four parts, the head's end
may fall anywhere, and a read may bring the end of the head with the start of
the body or less; three clients are enough for one to be handled, one to wait
and one to come.  Four flags are enough to change the kind of the result there
and back with a field set before.  In `viewer` traces have no, one, two or three
states, the smallest that cannot be shown, cannot be played, have only ends,
and have a middle; two interval handles are enough for one to be left over.
`pipeline` has two bits in a byte, so that the addresses
of the program's own window, `0x1000..0x2000`, are `i64` values and `sp`
starts where it does in the program; constants of the tests that do not fit
are smaller here (-1 for -100, say), and the array arithmetic is checked at
both ends of that window.  `CHECK_DEADLOCK` is off wherever a run of the
program ends.

Fairness.  The fairness of `TraceLog`, and that every run ends with it, rests on weak fairness of
`Iterate`: the loop of `execute` waits for nothing and takes no lock, so the
operating system's scheduling of the thread is all it needs.  No fairness is
assumed of `Execute`: nobody has to call it.  `ImplementsService`
assumes weak fairness of the server's steps, as above, and of a client that has
not sent what its head announces: it sends on, or sends no more.  The code has
no timeout that would make it, and a client that does neither keeps all others
waiting (`main.rs:115-118`), so the assumption is as weak as it can be; of a
client whose request is whole nothing is assumed.  `PlaybackReachesTheEnd`
assumes weak fairness of the callback of each interval by itself
(`\A t \in Timer : WF_vars(Playback(t))`), because `setInterval` promises calls
only to an interval that stays.  A change of speed stops the interval and
starts another, whose delay begins anew (`viz3.html:979`), so a user who keeps
changing it starves the playback: the property is about each interval, and
one that is stopped or replaced owes nothing.  Nothing is assumed of the user
or the server.
`Pipeline` claims no liveness of
its own: its other stages are loops over the text, the blocks and the length,
and the one stage that need not end is the executor's.

## Proofs

All theorems hold for every value of the constants under the named
assumptions: `WordsAssumption` (the table is one of powers of two),
`MemoryAssumption` (the window lies in the non-negative `i64` addresses and
holds the initial stack pointer), the typing of the jobs and of the calls of
`run_pipeline` (`PipelineAssumption`: a source is a sequence of statements whose
addresses are `u64`, inputs and the result spec are of their Rust types, and the
registers are among the names of registers), and for the samples
of the assembler `SamplesAssumption` (they are integers).  What is analysed has
its targets and its entry where labels can be (`ProgramsAssumption`), as
`AssemblerTypeCorrect` and `EntryCorrect` say of assembled texts.  For the program there
are `CliAssumption` (each input has a name for each of its four files; the
defaults, and the registers and width that a scalar result starts from, are
among the words there are) and `ScenarioAssumption` (lines belong to processes;
flags are a sequence, each with one value at most, and an output's is a path; a
request has a head, and is one run request at most); for the page there are
`EditorAssumption` (the inference throws or yields one set of
registers for a text: none for the blank one, and it does not throw for the
examples) and `ViewerAssumption` (a trace of a run has at least two states).
TLC evaluates all of them in the runs.

* `TypeCorrect` (`ExecutorProofs`): `Spec => []TypeOK`.  `TypeOK` is
  inductive.  The work is in the words: a load of width `w` is a `w`-byte
  number because two halves make a number of their joint size
  (`JoinedHalves`), a signed load of it is an `i64` because narrower types are
  inside wider ones (`WiderTypes`), a store without fault stays in the window
  (`StoreRawType`).
* `SnapshotsCorrect`: `Spec => []SnapshotsMatchMachine`, inductive
  together with `TypeOK`: handlers go through `Retire`, which records what it
  assigns, and all other returns through `Stop`, which assigns nothing.
* `ImplementsTraceLogSafety`: `Spec => Log!Safety`, the safety part of the
  refinement that `executor_debug` checks with its fairness.  The two invariants above
  give the link to the previous entry (its `next_pc` is `pc`) and the bound
  (one entry per step, after the first).

* `HistoryCorrect`: `Spec => []HistoryRuns`.  The
  properties of the trace look back over all of it, so the invariant is about
  each recorded state: its pc is where the one before goes on, its instruction
  is the program's at that pc, and it `RunsAs` that instruction from the
  registers of the state before.  `IterateRuns` shows it of the state that an
  iteration records, `RetireHistory` that it stays true of the others.
  `ControlExplained`, `DestinationsCorrect` and `ArithmeticCorrect` then need
  facts about `Isa` only, one lemma each: `DecisionIsRight` (the unsigned orders
  by sign), `QuotientRounds`, `ArithIsCongruent`.
* `OutcomesCorrect`, `PanicsAreDivisions`: an outcome is explained when a run
  stops, by the instruction at the pc, which is the one where the last state
  goes on (`SnapshotsMatchMachine`).  A quotient is out of `i64` only for the
  least value by -1 (`QuotientOverflows`).
* `OverflowCaught`: in a debug build `OverflowIsCaught`.  An operation lacks a
  result just if it overflows (`NoResultIfOverflows`), and what it has is exact.
  An address may be a negative sum cut to 64 bits, but then it is far above the
  stack and faults, so that of a recorded access is the sum (`AccessIsExact`).
  That a run which stops in an instruction tells whether it overflows is carried
  along as an invariant (`OutcomeTellsOverflow`), with the one instruction at
  the pc (`StuckIsOne`).
* `MemoryAccounted`: `Spec => []TraceAccountsForMemory`.  The invariant is the
  property, said of any sequence of states (`Accounts`): what a byte holds
  depends on the states so far (`SamePast`), and one more changes just the bytes
  it writes (`NextState`), so old events stay true; the new one is true because
  the memory is the replay of the stores before it (`AccessAccounted`).
* `InputsTaken`: the first state is never replaced (`StartsWithInputs`), and its
  registers, which `Executor` states as the value of the last input for each,
  are those of the loop over the inputs (`InputsInOrder`).

* `MemoryTypeCorrect`, `MemoryIsFlat` (`MemoryProofs`): the sparse map holds
  bytes of the window, and `Memory` refines `FlatMemory` under the mapping
  that reads an absent byte as 0.  A load is the number whose bytes are in the
  cells because division and remainder by powers of two take the joined halves
  apart again; a store answers with the sign-extended word it replaces.
* `AssemblerTypeCorrect` (`AssemblerProofs`): `Spec => []TypeOK` for every set
  of sources.  `TypeOK` says that an assembled program has an address of the
  program in every target, and is not inductive: `IInv` adds that there are no
  more instructions than statements so far (so that addresses stay `u64`) and
  that, until it is resolved, an entry has a label just when its instruction
  needs a target (so that `resolve` leaves no target open).
* `BranchesCorrect`, `RefusalsCorrect`, `EntryCorrect`, `LoweringCorrect`:
  from `TextIsAssembled`, which says of the text consumed so far that its n-th
  instruction statement made the n-th instruction, that every label stands for
  its last place, that the globals are those of the directives, and that nothing
  in it was out of order.
* `BlocksCorrect`, `EdgesCorrect` (`AnalysisProofs`): leaders are listed in
  increasing order (`InOrderLists`), so an address is in the range of one block at
  most, and of one if a leader is not after it (`OneHome`).  Code that control
  reaches is, for a transfer goes to a leader or straight on (`FlowStaysCovered`).
  An edge is then known by the way on from the last instruction of its block
  (`EdgesAre`), and a way on from any other instruction stays in the block, unless
  it is a jump (`LastInstruction`).
* `LoopsCorrect`, `CyclesCorrect` (`AnalysisProofs`): `dfs` is called for nodes
  not visited, and the nodes that edges lead to and that are not visited (`Left`)
  get fewer with every call within it.  By induction over their number there is
  such a function (`DfsExists`), it leaves the path as it was (`VisitKeeps`), and
  it keeps the search sound (`DfsSound`).  `Sound` is the invariant of the search:
  the path is one of edges, a back edge closes a cycle, and of the nodes that are
  visited and off the path (`Done`) every other edge leads to such nodes, and
  without a cycle.  At the end the path is empty, so that what is visited has no
  cycle without back edges and no edge leaves it.  The worklist is followed by the
  nodes that are not members yet: it collects the least set that has the source
  and all predecessors but the header (`CollectIs`, `CollectReaches`).
* `PipelineAssembles`, `PipelineExecutes` (`PipelineProofs`): the pipeline is a
  refinement of `Assembler`, with the sources of its calls, and of `Executor`
  without its fairness, with any job that is a program.  The second needs the
  first: that `StartProgram` gives the executor a program with its targets and
  entry inside it is a fact of the assembler's last state (`CodeIsAssembled`).
  The invariants of the two, and the theorems behind them, are cited from
  instances of `AssemblerProofs` and `ExecutorProofs`, so nothing is proved twice;
  where operators are reached through two instances, they are first shown to be
  the same (`SameBlocks`, `SameIteration` and the like).
* `TracesCorrect`: `Spec => []TraceFollowsGraph`.  `PInv` is what ties the parts
  together: past the assembler the program is whole and stays, it is that program
  which was analysed and that program, from its entry, which is run, and a result
  is what the last state decodes to.  A recorded step goes on to where its
  instruction leads (`StepsInCode`, from `HistoryRuns`), and control from an address
  in a block stays in it or takes an edge of that kind to the top of one
  (`ControlFollowsEdges`).
* `ArraysCorrect`: `Spec => []ArraysAreReadExactly`.  An element can be read
  exactly if it is aligned and in the window (`ElementFaults`, with the overflows
  of its offset and its address), all of them exactly if the first and the last can
  (`AllElements`); the bytes of one are those of the memory (`ElementIsRead`), and
  the memory is accounted for by the trace (`StepsAreAccounted`).
* `InferenceCorrect`: `Spec => []InferenceIsExact`.  The page and the assembler
  read the text apart, so first the two readings are compared, statement by
  statement: the tokens that the page takes for reads and writes are the
  registers of the instruction that `create_inst` makes (`StatementAgrees`), and
  its labels are the targets that `resolve` sets (`EachAgrees`), so both have the
  same ways from an instruction to the next (`SuccessorsAre`).  Then the loops
  are followed.  The search ends with just what the entry leads to (`ReachedIs`).
  A round only takes registers away (`RoundKeeps`), so one of them changes nothing,
  and what is left then is the greatest solution of the flow equations
  (`SettleIs`).  The registers that it lacks at an instruction are those that some
  way comes to without writing them, the least set with the entry that such
  a way does not leave (`UnwrittenIs`, `AssignedIs`).
* `InferredInputsCorrect`: `Spec => []InferredInputsSuffice`.  A step is at an
  instruction of the program, the first at its entry (`StepIsAt`), and the next
  is at one that may follow (`StepGoesOn`), if returns go to behind a call.  So a
  run that has not written a register stays within the ways that do not
  (`UnwrittenIs`), and what is read there is asked for.
* `ImplementsServiceSafety` (`MainProofs`): `Spec => Attended!Safety`, the
  safety part of the refinement that `main` checks with its fairness.
  `QueueInv` says that a client is open exactly while it is in the backlog or
  handled, and in one place only.  Every action is first reduced to what it
  does to the queue (`QueueStep`); a client that is accepted moves from the one
  to the other, which the service does not see.
* `AnswersRight`: `Spec => []AnswersAreRight`.  That looks at closed
  connections only; `AnswersInv` adds what `read_request` has in hand while it
  works: never more than was sent, and once it returns all that the head
  announces or all that there will ever be (`HasRead`).  For an exact request
  the two are the same.
* `MainTypeCorrect`: `Spec => []TypeOK` of the program; connections need
  `QueueInv` and `AnswersInv`, commands that `parse_args` yields values of the
  program for every line (`ArgsTyped`).
* `FilesAreInOrder`: `Spec => []FilesAgeInOrder`.  `ProcInv` says what a process
  has opened and written at each stage, `RunsInv` that those that write now are
  in the last group of `runs`.  `FilesInv` is about every set of processes that
  share their four paths: a file that one of the newest group has come to holds
  bytes of that group or none, no file is newer than one before it, and whoever
  writes alone has his files for himself.
* `FlagsMeanTheApi`: `Spec => []FlagsAgreeWithApi`.  `CommandInv` keeps a
  process's command the one of its arguments, so the work is about
  `parse_args`: by induction over the flags, what they make of the result is
  what the settings that count make of it (`SpecStep`, with the last kind of
  result deciding which settings those are), and a flag has no command exactly
  if it is unusable (`UsableIs`).
* `TypeCorrect`, `RunsStartRight`, `LoadedTogether`, `InspectorCurrent`,
  `NoIntervalIsLost`, `ReloadRestores` (`ViewerProofs`).  The editor and the
  player have an invariant each, and every handler of one leaves the other
  alone, but for a click on Run, its answer and a reload.  `EditorInv` adds
  that the draft is what is in the editor, and that a draft's fields are those
  of its own text, also while the editor holds a text that is not understood:
  without it a reload from there could not be followed.  `PlayerInv` adds that
  the position lies in the trace; `render` re-establishes it whatever was
  before (`Rendered`).

Inductions over the inputs of a run, the flags of a line, the calls of a
search and the rounds of the inference use `EveryNumber` or `Counting` (a set
with zero and the successors of its numbers has all of them), from the
well-foundedness of the numbers; the loops themselves are recursive functions,
whose existence is proved first (`LoopOverInputs`, `LoopOverFlags`,
`LoopOverAssignments`, `DfsExists`, `LoopRuns`).

Model-checked only: all that rests on fairness, which is the liveness of
`TraceLog` and `Service` and `PlaybackReachesTheEnd`; and `TestsAgree`, which is
about given programs.

## Not modelled, and the plan

What is left to do is rarer hazards of the server and the page:
`end + content_length` at the end of `usize`; a client that does not read a long
answer, which blocks `write_all`; an output path that is the input; two pages
that share a draft; numbers such as `1.5`, which the page takes and the API's
`i64` refuses.

Left out for good: wording of messages (`Display`, `format_raw_value`), JSON
layout, the markup and the drawing of the page, pest's character-level grammar
(statements are the unit), and recorded outputs and samples.  The grammar is
not a component with a state: it is generated code, and the assembler's texts
are what it yields.
