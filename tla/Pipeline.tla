------------------------------ MODULE Pipeline ------------------------------
(***************************************************************************)
(* run_pipeline() of lib.rs: one call assembles a source, analyses the     *)
(* program, executes it and decodes the result, with a fresh assembler and *)
(* a fresh executor.  Assembler.tla and Executor.tla take their steps in   *)
(* it; the analysis of Analysis.tla is one step.                           *)
(***************************************************************************)
EXTENDS Analysis

CONSTANTS
    Label, RegName, Directive,
    Requests,       \* the calls: records of source, inputs, limit and spec
    Allocatable     \* how many i64s the allocator has room for

SpecType ==
    [kind : {"scalar"}, register : Reg]
    \cup [kind : {"array"}, ptr_register : Reg, length_register : Reg,
          elem_width : 0 .. 255, signed : BOOLEAN]

VARIABLES
    request,        \* the arguments of the call
    stage,          \* what run_pipeline is doing, or how it ended
    analysis,       \* the ControlFlowAnalysis, once there is one
    result,         \* the FinalResult, once there is one
    source, done, program, asm_pc, labels, globals, phase,  \* the Assembler
    job, pc, regs, memory, trace, steps, status             \* the Executor

asm_vars == <<source, done, program, asm_pc, labels, globals, phase>>
exe_vars == <<job, pc, regs, memory, trace, steps, status>>
vars     == <<request, stage, analysis, result, asm_vars, exe_vars>>

Asm == INSTANCE Assembler WITH pc <- asm_pc, Sources <- {r.source : r \in Requests}
Exe == INSTANCE Executor WITH Jobs <- {}

\* What is asked of assembler and executor, and a limit and a spec.
ASSUME PipelineAssumption ==
    /\ Reg \subseteq RegName
    /\ Allocatable \in Nat
    /\ \A r \in Requests :
          /\ r.source \in Seq(Asm!StatementType)
          /\ WordSize * Len(r.source) < Modulus(8)
          /\ r.inputs \in Seq(Exe!InputType)
          /\ r.limit \in Nat
          /\ r.spec \in SpecType

-----------------------------------------------------------------------------
(* interpret_result *)

\* How the array at base cannot be read at one of its elements.
ElementFault(base, i, w) ==
    IF i * w \notin U64 THEN {"OffsetOverflow"}
    ELSE IF base + i * w \notin U64 THEN {"AddressOverflow"}
    ELSE Fault(base + i * w, w)

\* Faulty variant: every element is read where the first one is.
ElementAtBase(base, i, w, signed) ==
    LET raw == LoadRaw(memory, base, w)
    IN  IF signed \/ w = 8 THEN AsSigned(raw, w) ELSE raw

\* Eight bytes are an i64 whatever the spec says.
Element(base, i, w, signed) ==
    LET raw == LoadRaw(memory, base + i * w, w)
    IN  IF signed \/ w = 8 THEN AsSigned(raw, w) ELSE raw

\* decode_array: the values, or the error of the first check or element that
\* fails and no values.
DecodeArray(base, length, w, signed) ==
    LET faulty    == {i \in 0 .. length - 1 : ElementFault(base, i, w) # {}}
        Err(kind) == [values |-> <<>>, error |-> kind]
    IN  IF base < 0 THEN Err({"NegativePointer"})
        ELSE IF length < 0 THEN Err({"NegativeLength"})
        ELSE IF w \notin Widths THEN Err({"UnsupportedWidth"})
        ELSE IF faulty = {}
        THEN [values |-> [n \in 1 .. length |-> Element(base, n - 1, w, signed)],
              error  |-> {}]
        ELSE Err(ElementFault(base, CHOOSE i \in faulty : \A k \in faulty : i <= k, w))

\* final_state: the register file of the last state
FinalRegs == Last(trace.states).reg_file

\* Vec::with_capacity: a capacity beyond isize::MAX bytes panics, and one the
\* allocator refuses aborts.  Only lengths that pass the checks before it count.
Unallocatable ==
    /\ request.spec.kind = "array"
    /\ FinalRegs[request.spec.ptr_register] >= 0
    /\ request.spec.elem_width \in Widths
    /\ LET length == FinalRegs[request.spec.length_register]
       IN  length >= 0 /\ (8 * length \notin I64 \/ length > Allocatable)

InterpretResult ==
    IF request.spec.kind = "scalar"
    THEN [kind |-> "scalar", value |-> FinalRegs[request.spec.register]]
    ELSE LET base    == FinalRegs[request.spec.ptr_register]
             length  == FinalRegs[request.spec.length_register]
             decoded == DecodeArray(base, length, request.spec.elem_width, request.spec.signed)
         IN  [kind |-> "array", raw_pointer |-> base, length |-> length,
              values |-> decoded.values, error |-> decoded.error]

-----------------------------------------------------------------------------
(* run_pipeline *)

Init ==
    /\ request \in Requests
    /\ stage = "assemble"
    /\ analysis = {}
    /\ result = {}
    /\ Asm!Start(request.source)
    /\ Exe!Init

\* assemble_source, statement by statement; its errors are returned.
Assemble ==
    /\ stage = "assemble"
    /\ Asm!Next
    /\ stage' = CASE phase' = "assembled" -> "analyze"
                  [] phase' = "refused"   -> "err"
                  [] OTHER                -> stage
    /\ UNCHANGED <<request, analysis, result, exe_vars>>

AnalyzeProgram ==
    /\ stage = "analyze"
    /\ analysis' = {Analyze(Asm!Code, Asm!EntryPc)}
    /\ stage' = "execute"
    /\ UNCHANGED <<request, result, asm_vars, exe_vars>>

\* execute_program, up to the loop of execute()
StartProgram ==
    /\ stage = "execute"
    /\ status = "idle"
    /\ Exe!Execute([code |-> Asm!Code, entry |-> Asm!EntryPc,
                    inputs |-> request.inputs, limit |-> request.limit])
    /\ UNCHANGED <<request, stage, analysis, result, asm_vars>>

\* execute_program: an error of the executor is all that is returned, and the
\* executor with its trace is dropped.
RunProgram ==
    /\ stage = "execute"
    /\ Exe!Iterate
    /\ stage' = CASE status' = "ok"         -> "interpret"
                  [] status' = "panic"      -> "panic"
                  [] status' \in Exe!Errors -> "err"
                  [] OTHER                  -> stage
    /\ UNCHANGED <<request, analysis, result, asm_vars>>

Interpret ==
    /\ stage = "interpret"
    /\ ~Unallocatable
    /\ result' = {InterpretResult}
    /\ stage' = "ok"
    /\ UNCHANGED <<request, analysis, asm_vars, exe_vars>>

\* The vector for the values cannot be had: the call never returns.
FailAllocation ==
    /\ stage = "interpret"
    /\ Unallocatable
    /\ stage' = "panic"
    /\ UNCHANGED <<request, analysis, result, asm_vars, exe_vars>>

Next ==
    \/ Assemble \/ AnalyzeProgram \/ StartProgram \/ RunProgram
    \/ Interpret \/ FailAllocation

Spec == Init /\ [][Next]_vars
=============================================================================
