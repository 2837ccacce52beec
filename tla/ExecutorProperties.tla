------------------------- MODULE ExecutorProperties -------------------------
(***************************************************************************)
(* What must be true of the executor of Executor.tla.  Most properties are *)
(* about the trace, since it is all that the rest of the program sees of a *)
(* run; they hold of a failed run as well, up to its last recorded state.  *)
(***************************************************************************)
EXTENDS Executor

States    == trace.states
LastState == States[Len(States)]

\* The recorded steps, without the snapshot of step zero, and the registers
\* that a step started from.
Recorded  == 2 .. Len(States)
Before(k) == States[k - 1].reg_file

EventType == [kind : {"Load", "Store"}, opcode : LoadOpCode \cup StoreOpCode,
              register : Reg, address : U64, width : Widths,
              value : I64, register_value : I64, raw_value : U64,
              previous_value : Option(I64)]

StateType == [step : Nat, pc : U64, next_pc : U64, reg_file : [Reg -> I64],
              instr : Instruction \cup {Nil}, branch_taken : Option(BOOLEAN),
              memory_events : Seq(EventType), terminated : BOOLEAN]

TraceType == [entry_pc : U64, input_registers : Seq(InputType),
              states : Seq(StateType), count : Nat]

(* Type invariant.  The registers are i64 values, register zero is zero,   *)
(* the memory holds bytes of the stack window only, and the counter of the *)
(* trace (state.rs, Trace::add) is the number of its states.               *)
TypeOK ==
    /\ job \in Option(Jobs)
    /\ pc \in U64
    /\ regs \in [Reg -> I64] /\ regs["zero"] = 0
    /\ IsSparseMap(memory)
    /\ trace \in TraceType
    /\ trace.count = Len(trace.states)
    /\ steps \in Nat
    /\ status \in {"idle", "running"} \cup Ended
    /\ (status = "idle") = (job = {})

-----------------------------------------------------------------------------
(* A step that fails leaves no partial effect (executor.rs, the `?` and    *)
(* panicking arithmetic inside execute()): registers and pc are always the *)
(* ones of the last recorded state, and there is one state per counted     *)
(* step after the first, never more than the limit allows.                 *)
SnapshotsMatchMachine ==
    \A j \in job :
        /\ Len(States) = steps + 1
        /\ steps <= j.limit
        /\ LastState.step = steps
        /\ LastState.reg_file = regs
        /\ LastState.next_pc = pc
        /\ LastState.terminated = (status = "ok")
        /\ \A k \in 1 .. Len(States) - 1 : ~States[k].terminated

-----------------------------------------------------------------------------
\* The loop over config.input_registers at the head of execute().
InputsApplied(inputs) ==
    LET after[n \in 0 .. Len(inputs)] ==
            IF n = 0 THEN [r \in Reg |-> IF r = "sp" THEN InitialStackPointer ELSE 0]
            ELSE SetReg(after[n - 1], inputs[n].register, inputs[n].value)
    IN  after[Len(inputs)]

(* The snapshot of step zero shows the configured registers, applied in    *)
(* order over a register file with the stack pointer set (execute): the    *)
(* last input that names a register wins, and register zero stays zero.    *)
FirstSnapshotTakesInputs ==
    \A j \in job : States[1].reg_file = InputsApplied(j.inputs)

-----------------------------------------------------------------------------
(* The outcome of execute() names what really stopped the run, judged from *)
(* the last recorded state alone (execute(), instruction_at_pc,            *)
(* validate_alignment and validate_address, resolve_address).              *)
InCode(j, addr) == \E i \in DOMAIN j.code : addr = WordSize * (i - 1)
Stuck(j)        == {j.code[i] : i \in {i \in DOMAIN j.code :
                                          LastState.next_pc = WordSize * (i - 1)}}

\* The address that inst asks for, before it is cut to 64 bits.
Exact(inst) == LastState.reg_file[inst.address.register] + inst.address.offset

CauseOf(j) ==
    CASE status = "ok" ->
           LastState.next_pc = 0 /\ LastState.instr.type = "JALR"
      [] status = "MaxStepsExceeded" ->
           Len(States) = j.limit + 1
      [] status = "InvalidPc" ->
           ~InCode(j, LastState.next_pc)
      [] status = "UnresolvedTarget" ->
           \E inst \in Stuck(j) : inst.type \in {"B", "JAL"} /\ inst.target = {}
      [] status = "MisalignedMemory" ->
           \E inst \in Stuck(j) : /\ inst.type \in {"L", "S"}
                                  /\ Exact(inst) % Width(inst.op_code) # 0
      [] status = "InvalidMemAddr" ->
           \E inst \in Stuck(j) :
              /\ inst.type \in {"L", "S"}
              /\ Exact(inst) % Width(inst.op_code) = 0
              /\ ~(Span(Exact(inst), Width(inst.op_code)) \subseteq Window)
      [] OTHER -> TRUE

OutcomeMatchesHistory ==
    \A j \in job :
        /\ CauseOf(j)
        /\ status \in Ended \ {"ok", "MaxStepsExceeded"} => Len(States) <= j.limit

-----------------------------------------------------------------------------
(* Every recorded transfer of control is the one the program text asks     *)
(* for: states are linked by their pcs, run the instruction at that pc,    *)
(* and leave the straight line only by a taken branch or a jump (execute,  *)
(* execute_b, execute_j).  The unsigned orders are compared by sign here.  *)
Below(l, r) == IF (l < 0) = (r < 0) THEN l < r ELSE r < 0

Decision(op_code, l, r) ==
    CASE op_code = "BEQ"  -> l = r
      [] op_code = "BNE"  -> ~(l = r)
      [] op_code = "BLT"  -> l < r
      [] op_code = "BGE"  -> ~(l < r)
      [] op_code = "BLTU" -> Below(l, r)
      [] op_code = "BGEU" -> ~Below(l, r)

TransferIsExplained(s, rf) ==
    CASE s.instr.type = "B" ->
           /\ s.branch_taken = {Decision(s.instr.op_code, rf[s.instr.rs1], rf[s.instr.rs2])}
           /\ s.next_pc \in IF TRUE \in s.branch_taken
                            THEN s.instr.target ELSE {s.pc + WordSize}
      [] s.instr.type = "JAL" ->
           s.branch_taken = {TRUE} /\ s.next_pc \in s.instr.target
      [] s.instr.type = "JALR" ->
           /\ s.branch_taken = {TRUE}
           /\ (s.next_pc - rf[s.instr.address.register] - s.instr.address.offset)
                 % Modulus(8) = 0
      [] OTHER ->
           s.branch_taken = {} /\ s.next_pc = s.pc + WordSize

ControlTransfersAreExplained ==
    \A k \in Recorded :
        /\ States[k].pc = States[k - 1].next_pc
        /\ \A j \in job : States[k].instr = j.code[States[k].pc \div WordSize + 1]
        /\ TransferIsExplained(States[k], Before(k))

-----------------------------------------------------------------------------
(* A step writes at most the register its instruction names, never         *)
(* register zero, and a call leaves the address after it there             *)
(* (RegFile::set and the set_reg_value calls of the execute_* methods).    *)
WrittenBy(inst) ==
    IF inst.type \in {"R", "I", "L", "JAL", "JALR"} THEN {inst.rd} \ {"zero"} ELSE {}

OnlyDestinationChanges ==
    \A k \in Recorded :
        /\ \A r \in Reg \ WrittenBy(States[k].instr) :
              States[k].reg_file[r] = Before(k)[r]
        /\ States[k].instr.type \in {"JAL", "JALR"} =>
              \A r \in WrittenBy(States[k].instr) :
                  (States[k].reg_file[r] - States[k].pc - WordSize) % Modulus(8) = 0

-----------------------------------------------------------------------------
(* The trace explains the memory: a byte has the value that the last       *)
(* recorded store covering it wrote, or zero, and nothing an earlier run   *)
(* of the same executor or a failed step did (execute, execute_s,          *)
(* memory.rs).                                                             *)
Events(k)         == IF States[k].memory_events = <<>> THEN {} ELSE {States[k].memory_events[1]}
CoversByte(e, a)  == e.kind = "Store" /\ a \in Span(e.address, e.width)
Writers(a, upto)  == {k \in 1 .. upto : \E e \in Events(k) : CoversByte(e, a)}

ByteAfter(a, upto) ==
    LET ks == Writers(a, upto)
    IN  IF ks = {} THEN 0
        ELSE LET k == CHOOSE x \in ks : \A y \in ks : y <= x
                 e == States[k].memory_events[1]
             IN  ByteOf(e.raw_value, a - e.address)

MemoryIsReplayOfStores ==
    \A a \in Window : Load8(memory, a) = ByteAfter(a, Len(States))

(* What a load reads, and what a store says it overwrote, is what the      *)
(* stores before it wrote, sign-extended or not as the opcode says, and    *)
(* a load's value is what its register holds afterwards (execute_l,        *)
(* execute_s).                                                             *)
Extends(value, raw, op_code) ==
    IF op_code \in {"LBU", "LHU"}
    THEN value = raw
    ELSE value \in Signed(Width(op_code)) /\ (value - raw) % Modulus(Width(op_code)) = 0

SameBytes(raw, e, k) ==
    \A i \in 0 .. e.width - 1 : ByteOf(raw, i) = ByteAfter(e.address + i, k - 1)

EventsSeeEarlierStores ==
    \A k \in Recorded : \A e \in Events(k) :
        /\ e.raw_value \in Unsigned(e.width)
        /\ Extends(e.value, e.raw_value, e.opcode)
        /\ e.kind = "Load" =>
              /\ SameBytes(e.raw_value, e, k)
              /\ e.register # "zero" => States[k].reg_file[e.register] = e.value
        /\ e.kind = "Store" =>
              /\ e.register_value = Before(k)[e.register]
              /\ (e.register_value - e.value) % Modulus(e.width) = 0
              /\ \E old \in e.previous_value :
                    old \in Signed(e.width) /\ SameBytes(AsUnsigned(old, e.width), e, k)

(* Together: the trace accounts for the memory, byte by byte and event by  *)
(* event (execute, execute_l, execute_s).                                  *)
TraceAccountsForMemory == MemoryIsReplayOfStores /\ EventsSeeEarlierStores

-----------------------------------------------------------------------------
(* Arithmetic that completes is right modulo 2^64 in either build, and a   *)
(* quotient is exact up to its remainder, rounded toward zero (execute_r,  *)
(* execute_i).                                                             *)
Congruent(x, y) == (x - y) % Modulus(8) = 0

RoundsTowardZero(q, l, r) ==
    LET rest == l - q * r
    IN  Magnitude(rest) < Magnitude(r) /\ (rest = 0 \/ (rest < 0) = (l < 0))

ResultIsRight(inst, rf, value) ==
    CASE inst.type = "I" -> Congruent(value, rf[inst.rs] + inst.imm)
      [] inst.type = "R" ->
           LET l == rf[inst.rs1]
               r == rf[inst.rs2]
           IN  CASE inst.op_code = "ADD" -> Congruent(value, l + r)
                 [] inst.op_code = "SUB" -> Congruent(value, l - r)
                 [] inst.op_code = "MUL" -> Congruent(value, l * r)
                 [] inst.op_code = "SLL" -> Congruent(value, l * Pow2[r % RegBits])
                 [] inst.op_code = "DIV" -> RoundsTowardZero(value, l, r)

ArithmeticIsRight ==
    \A k \in Recorded :
        LET inst == States[k].instr
        IN  inst.type \in {"R", "I"} =>
               \A r \in WrittenBy(inst) :
                   ResultIsRight(inst, Before(k), States[k].reg_file[r])

DivisionOverflows(l, r) == r = 0 \/ (r = -1 /\ -l \notin I64)

(* In a release build only a division can panic (execute_r).               *)
PanicsOnlyInDivision ==
    status = "panic" =>
        \E j \in job : \E inst \in Stuck(j) :
            /\ inst.type = "R"
            /\ inst.op_code = "DIV"
            /\ DivisionOverflows(LastState.reg_file[inst.rs1], LastState.reg_file[inst.rs2])

\* The sum, difference or product that inst asks for, as an integer: its
\* result, or the address of its access or jump.
ExactOf(inst, rf) ==
    CASE inst.type = "R" ->
           LET l == rf[inst.rs1]
               r == rf[inst.rs2]
           IN  CASE inst.op_code = "ADD" -> {l + r}
                 [] inst.op_code = "SUB" -> {l - r}
                 [] inst.op_code = "MUL" -> {l * r}
                 [] OTHER                -> {}
      [] inst.type = "I" -> {rf[inst.rs] + inst.imm}
      [] inst.type \in {"L", "S", "JALR"} ->
           {rf[inst.address.register] + inst.address.offset}
      [] OTHER -> {}

Overflows(inst, rf) ==
    \/ ~(ExactOf(inst, rf) \subseteq I64)
    \/ /\ inst.type = "R" /\ inst.op_code = "DIV"
       /\ DivisionOverflows(rf[inst.rs1], rf[inst.rs2])
    \/ /\ inst.type = "R" /\ inst.op_code = "SLL"
       /\ rf[inst.rs2] \notin 0 .. RegBits - 1

\* What state k shows of the integer x that its instruction asked for.
ShowsExact(k, x) ==
    /\ States[k].instr.type \in {"R", "I"} =>
          \A r \in WrittenBy(States[k].instr) : States[k].reg_file[r] = x
    /\ States[k].instr.type \in {"L", "S"} =>
          \A e \in Events(k) : e.address = x

(* A debug build never goes on with a wrapped value: what it recorded is   *)
(* exact, the addresses of accesses included, though they are unsigned     *)
(* where the sum is signed; and a run that stops in an instruction panics  *)
(* if and only if that instruction overflows, whatever else is wrong with  *)
(* it, such as the address (execute_r, execute_i, resolve_address).        *)
OverflowIsCaught ==
    /\ \A k \in Recorded :
          /\ ~Overflows(States[k].instr, Before(k))
          /\ \A x \in ExactOf(States[k].instr, Before(k)) : ShowsExact(k, x)
    /\ \A j \in job :
          status \in Ended \ {"ok", "MaxStepsExceeded"} =>
             (status = "panic" <=>
                 \E inst \in Stuck(j) : Overflows(inst, LastState.reg_file))

(* info.md on reliability: execution returns explicit errors.              *)
ExecutionErrorsAreExplicit == status # "panic"

-----------------------------------------------------------------------------
(* A run is what TraceLog says of a run: a linked log that only grows, is  *)
(* bounded by the limit and ends once (execute, Trace::add); and it does   *)
(* end, whatever the program: the limit protects the caller from programs  *)
(* that do not, for a log that can only be recorded in comes to its limit. *)
Shown(s) == [step |-> s.step, pc |-> s.pc, next_pc |-> s.next_pc,
             terminated |-> s.terminated]

Log == INSTANCE TraceLog WITH
    Addresses <- U64,
    log       <- [k \in 1 .. Len(States) |-> Shown(States[k])],
    limit     <- {j.limit : j \in job},
    phase     <- CASE status = "idle"    -> "none"
                   [] status = "running" -> "open"
                   [] status = "ok"      -> "complete"
                   [] OTHER              -> "failed"

ImplementsTraceLog == Log!Spec
=============================================================================
