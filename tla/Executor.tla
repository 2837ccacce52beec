------------------------------ MODULE Executor ------------------------------
(***************************************************************************)
(* The executor (executor.rs) with the CPU, register file, memory and      *)
(* trace it owns: one action per way through an iteration of the loop of   *)
(* execute().  A job is what execute() is called with: the assembled       *)
(* program with its entry pc, the configured registers and the step limit. *)
(* An executor can be used again, for another job, once execute() returned.*)
(*                                                                         *)
(* Not in the trace records here: the entry label, the wording of opcodes  *)
(* and the hex renderings of addresses.                                    *)
(***************************************************************************)
EXTENDS Isa

CONSTANT Jobs   \* the jobs that callers of execute() may bring

InputType == [register : Reg, value : I64]   \* RegisterValue

JobType == [code   : Seq(Instruction),
            entry  : U64,
            inputs : Seq(InputType),
            limit  : Nat]

ASSUME JobsAssumption ==
    /\ Jobs \subseteq JobType
    /\ \A j \in Jobs : WordSize * Len(j.code) < Modulus(8)

VARIABLES
    job,        \* the arguments of the last call of execute(), if any
    pc, regs,   \* the CPU
    memory,     \* the sparse map of Memory
    trace,      \* the Trace
    steps,      \* the local counter of execute()
    status      \* "idle", "running", "ok", the ExecErr returned, or "panic"

vars == <<job, pc, regs, memory, trace, steps, status>>

Errors == {"MaxStepsExceeded", "InvalidPc", "UnresolvedTarget"} \cup MemFaults
Ended  == {"ok", "panic"} \cup Errors

-----------------------------------------------------------------------------
(* The register file and the trace. *)

\* RegFile::set ignores register zero.
SetReg(rf, rd, value) ==
    IF rd = "zero" THEN rf ELSE [rf EXCEPT ![rd] = value]

\* Faulty variant: the first input that names a register wins.
IsFirstFor(inputs, r, i) ==
    /\ i \in DOMAIN inputs
    /\ inputs[i].register = r
    /\ \A k \in DOMAIN inputs : inputs[k].register = r => k >= i

\* The registers of step zero: the last input that names a register wins.
IsLastFor(inputs, r, i) ==
    /\ i \in DOMAIN inputs
    /\ inputs[i].register = r
    /\ \A k \in DOMAIN inputs : inputs[k].register = r => k <= i

InitialRegs(inputs) ==
    [r \in Reg |->
        IF r = "zero" THEN 0
        ELSE IF \E i \in DOMAIN inputs : IsLastFor(inputs, r, i)
        THEN inputs[CHOOSE i \in DOMAIN inputs : IsLastFor(inputs, r, i)].value
        ELSE IF r = "sp" THEN InitialStackPointer ELSE 0]

\* State::initial
InitialState(entry, rf) ==
    [step |-> 0, pc |-> entry, next_pc |-> entry, reg_file |-> rf,
     instr |-> Nil, branch_taken |-> {}, memory_events |-> <<>>,
     terminated |-> FALSE]

EmptyTrace(entry, inputs) ==
    [entry_pc |-> entry, input_registers |-> inputs, states |-> <<>>, count |-> 0]

AddState(t, s) ==
    [entry_pc |-> t.entry_pc, input_registers |-> t.input_registers,
     states |-> Append(t.states, s), count |-> t.count + 1]

MemoryEvent(kind, inst, register, addr, value, full, previous) ==
    [kind |-> kind, opcode |-> inst.op_code, register |-> register,
     address |-> addr, width |-> Width(inst.op_code), value |-> value,
     register_value |-> full, raw_value |-> AsUnsigned(value, Width(inst.op_code)),
     previous_value |-> previous]

-----------------------------------------------------------------------------
Init ==
    /\ job = {}
    /\ pc = 0
    /\ regs = [r \in Reg |-> 0]
    /\ memory = NoBytes
    /\ trace = EmptyTrace(0, <<>>)
    /\ steps = 0
    /\ status = "idle"

\* The head of execute(): everything an earlier call left is replaced.
Execute(j) ==
    /\ status \notin {"running", "panic"}
    /\ job' = {j}
    /\ pc' = j.entry
    /\ regs' = InitialRegs(j.inputs)
    /\ memory' = NoBytes
    /\ trace' = AddState(EmptyTrace(j.entry, j.inputs), InitialState(j.entry, regs'))
    /\ steps' = 0
    /\ status' = "running"

\* Faulty variant: the limit is noticed one step late.
LimitPassed(j) == steps > j.limit

LimitReached(j) == steps >= j.limit

\* The instruction that the loop of execute() is about to run, if it gets to it.
Fetched ==
    IF status = "running"
    THEN UNION {IF LimitReached(j) THEN {} ELSE InstructionAt(j.code, pc) : j \in job}
    ELSE {}

\* Faulty variant: the pc moves on before the error returns.
StopPastInstruction(outcome) ==
    /\ status' = outcome
    /\ pc' = pc + WordSize
    /\ UNCHANGED <<job, regs, memory, trace, steps>>

\* `return Err(..)`, a `?`, or a panic: execute() leaves all as it is.
Stop(outcome) ==
    /\ status' = outcome
    /\ UNCHANGED <<job, pc, regs, memory, trace, steps>>

ExceedLimit ==
    /\ status = "running"
    /\ \E j \in job : LimitReached(j)
    /\ Stop("MaxStepsExceeded")

LeaveCode ==
    /\ status = "running"
    /\ \E j \in job : ~LimitReached(j) /\ InstructionAt(j.code, pc) = {}
    /\ Stop("InvalidPc")

\* The tail of an iteration that ran inst.
Retire(inst, next_pc, branch_taken, memory_events, terminated) ==
    /\ pc' = next_pc
    /\ steps' = steps + 1
    /\ trace' = AddState(trace,
          [step |-> steps + 1, pc |-> pc, next_pc |-> next_pc,
           reg_file |-> regs', instr |-> inst, branch_taken |-> branch_taken,
           memory_events |-> memory_events, terminated |-> terminated])
    /\ status' = IF terminated THEN "ok" ELSE "running"
    /\ UNCHANGED job

\* execute_r
ExecuteR ==
    \E inst \in Fetched :
        /\ inst.type = "R"
        /\ \E value \in RValue(inst.op_code, regs[inst.rs1], regs[inst.rs2]) :
              regs' = SetReg(regs, inst.rd, value)
        /\ Retire(inst, pc + WordSize, {}, <<>>, FALSE)
        /\ UNCHANGED memory

\* execute_i
ExecuteI ==
    \E inst \in Fetched :
        /\ inst.type = "I"
        /\ \E value \in Arith(regs[inst.rs] + inst.imm) :
              regs' = SetReg(regs, inst.rd, value)
        /\ Retire(inst, pc + WordSize, {}, <<>>, FALSE)
        /\ UNCHANGED memory

\* execute_l
ExecuteL ==
    \E inst \in Fetched :
        /\ inst.type = "L"
        /\ \E addr \in ResolveAddress(inst.address, regs) :
              LET w     == Width(inst.op_code)
                  value == LoadValue(inst.op_code, LoadRaw(memory, addr, w))
              IN  /\ Fault(addr, w) = {}
                  /\ regs' = SetReg(regs, inst.rd, value)
                  /\ Retire(inst, pc + WordSize, {},
                            <<MemoryEvent("Load", inst, inst.rd, addr, value,
                                          value, {})>>, FALSE)
        /\ UNCHANGED memory

\* execute_s
ExecuteS ==
    \E inst \in Fetched :
        /\ inst.type = "S"
        /\ \E addr \in ResolveAddress(inst.address, regs) :
              LET w      == Width(inst.op_code)
                  source == regs[inst.rs]
              IN  /\ Fault(addr, w) = {}
                  /\ memory' = StoreRaw(memory, addr, w, AsUnsigned(source, w))
                  /\ UNCHANGED regs
                  /\ Retire(inst, pc + WordSize, {},
                            <<MemoryEvent("Store", inst, inst.rs, addr,
                                          AsSigned(source, w), source,
                                          {PreviousValue(memory, addr, w)})>>, FALSE)

\* execute_b
ExecuteB ==
    \E inst \in Fetched :
        /\ inst.type = "B"
        /\ \E target \in inst.target :
              LET taken == BranchTaken(inst.op_code, regs[inst.rs1], regs[inst.rs2])
              IN  /\ UNCHANGED regs
                  /\ Retire(inst, IF taken THEN target ELSE pc + WordSize,
                            {taken}, <<>>, FALSE)
        /\ UNCHANGED memory

\* Faulty variant: a call links to itself.
ExecuteJalLinksItself ==
    \E inst \in Fetched :
        /\ inst.type = "JAL"
        /\ \E target \in inst.target :
              /\ regs' = SetReg(regs, inst.rd, AsSigned(pc, 8))
              /\ Retire(inst, target, {TRUE}, <<>>, FALSE)
        /\ UNCHANGED memory

\* execute_j, a direct jump
ExecuteJal ==
    \E inst \in Fetched :
        /\ inst.type = "JAL"
        /\ \E target \in inst.target :
              /\ regs' = SetReg(regs, inst.rd, AsSigned(pc + WordSize, 8))
              /\ Retire(inst, target, {TRUE}, <<>>, FALSE)
        /\ UNCHANGED memory

\* Faulty variant: every return ends the run.
ExecuteJalrAlwaysEnds ==
    \E inst \in Fetched :
        /\ inst.type = "JALR"
        /\ \E destination \in ResolveAddress(inst.address, regs) :
              /\ regs' = SetReg(regs, inst.rd, AsSigned(pc + WordSize, 8))
              /\ Retire(inst, destination, {TRUE}, <<>>, inst.rd = "zero")
        /\ UNCHANGED memory

\* execute_j, an indirect jump: the way out of the loop
ExecuteJalr ==
    \E inst \in Fetched :
        /\ inst.type = "JALR"
        /\ \E destination \in ResolveAddress(inst.address, regs) :
              /\ regs' = SetReg(regs, inst.rd, AsSigned(pc + WordSize, 8))
              /\ Retire(inst, destination, {TRUE}, <<>>,
                        inst.rd = "zero" /\ destination = 0)
        /\ UNCHANGED memory

\* The `?` after a load or a store
MemoryFault ==
    \E inst \in Fetched :
        /\ inst.type \in {"L", "S"}
        /\ \E addr \in ResolveAddress(inst.address, regs) :
              \E err \in Fault(addr, Width(inst.op_code)) : Stop(err)

\* The `?` after a branch, taken or not, or a direct jump
MissTarget ==
    \E inst \in Fetched :
        /\ inst.type \in {"B", "JAL"}
        /\ inst.target = {}
        /\ Stop("UnresolvedTarget")

\* Arithmetic without a result unwinds out of execute().
Panic ==
    \E inst \in Fetched :
        /\ \/ /\ inst.type = "R"
              /\ RValue(inst.op_code, regs[inst.rs1], regs[inst.rs2]) = {}
           \/ inst.type = "I" /\ Arith(regs[inst.rs] + inst.imm) = {}
           \/ /\ inst.type \in {"L", "S", "JALR"}
              /\ ResolveAddress(inst.address, regs) = {}
        /\ Stop("panic")

Iterate ==
    \/ ExceedLimit \/ LeaveCode
    \/ ExecuteR \/ ExecuteI \/ ExecuteL \/ ExecuteS
    \/ ExecuteB \/ ExecuteJal \/ ExecuteJalr
    \/ MemoryFault \/ MissTarget \/ Panic

Next == Iterate \/ \E j \in Jobs : Execute(j)

\* The loop waits for nothing, so a running executor goes on.
Spec == Init /\ [][Next]_vars /\ WF_vars(Iterate)
=============================================================================
