--------------------------- MODULE ExecutorProofs ---------------------------
(***************************************************************************)
(* Invariants of the executor, for every job, register set, stack window,  *)
(* number of bits in a byte, and either build.                             *)
(***************************************************************************)
EXTENDS ExecutorProperties, MemoryOpsProofs, SequenceTheorems

\* The constants that the types are built from.
LEMMA Bounds ==
    /\ Modulus(8) \in Nat \ {0}
    /\ I64 = {x \in Int : -Modulus(8) <= 2 * x /\ 2 * x < Modulus(8)}
    /\ U64 = 0 .. Modulus(8) - 1
    /\ 0 \in I64 /\ 0 \in U64
<1>1. Modulus(8) \in Nat \ {0}
    BY ModulusPositive
<1> QED BY <1>1 DEF I64, U64, Signed, Unsigned

-----------------------------------------------------------------------------
\* What one instruction computes has the type of a register or an address.
LEMMA ArithType ==
    ASSUME NEW x \in Int
    PROVE  Arith(x) \subseteq I64
BY AsSignedType DEF Arith, I64, Widths

LEMMA ShiftLeftType ==
    ASSUME NEW l \in I64, NEW r \in I64
    PROVE  ShiftLeft(l, r) \subseteq I64
<1>1. RegBits \in Nat \ {0} /\ l \in Int /\ r \in Int
    BY WordsAssumption, Bounds DEF RegBits
<1>2. r % RegBits \in 0 .. RegBits
    BY <1>1
<1>3. Pow2[r % RegBits] \in Nat
    BY <1>2, WordsAssumption
<1>4. l * Pow2[r % RegBits] \in Int
    BY <1>1, <1>3
<1>5. AsSigned(l * Pow2[r % RegBits], 8) \in I64
    BY <1>4, AsSignedType DEF I64, Widths
<1> QED BY <1>5 DEF ShiftLeft

LEMMA RValueType ==
    ASSUME NEW op \in ROpCode, NEW l \in I64, NEW r \in I64
    PROVE  RValue(op, l, r) \subseteq I64
<1>1. l \in Int /\ r \in Int
    BY Bounds
<1>2. l + r \in Int /\ l - r \in Int /\ l * r \in Int
    BY <1>1
<1>3. Div(l, r) \subseteq I64
    BY DEF Div, Quotient
<1> QED BY <1>2, <1>3, ArithType, ShiftLeftType DEF RValue, ROpCode

LEMMA ResolveAddressType ==
    ASSUME NEW ref \in MemoryRef, NEW rf \in [Reg -> I64]
    PROVE  ResolveAddress(ref, rf) \subseteq U64
<1>1. rf[ref.register] \in Int /\ ref.offset \in Int
    BY Bounds DEF MemoryRef, I32, Signed
<1>2. Arith(rf[ref.register] + ref.offset) \subseteq I64
    BY <1>1, ArithType
<1>3. \A x \in I64 : AsUnsigned(x, 8) \in U64
    BY Bounds, AsUnsignedType DEF U64, Widths
<1> QED BY <1>2, <1>3 DEF ResolveAddress

LEMMA WidthType ==
    ASSUME NEW op \in LoadOpCode \cup StoreOpCode
    PROVE  Width(op) \in Widths
BY DEF Width, Widths, LoadOpCode, StoreOpCode

LEMMA LoadValueType ==
    ASSUME NEW op \in LoadOpCode, NEW raw \in Unsigned(Width(op))
    PROVE  LoadValue(op, raw) \in I64
<1>1. Width(op) \in Widths /\ 8 \in Widths /\ Width(op) <= 8
    BY WidthType DEF Widths
<1>2. raw \in Int
    BY <1>1, WidthsAreByteCounts, ModulusPositive DEF Unsigned
<1>3. AsSigned(raw, Width(op)) \in Signed(8)
    BY <1>1, <1>2, AsSignedType, WiderTypes
<1>4. CASE op \in {"LBU", "LHU"}
    <2>1. Width(op) < 8
        BY <1>4 DEF Width
    <2> QED BY <1>1, <1>4, <2>1, WiderTypes DEF LoadValue, I64
<1>5. CASE op \notin {"LBU", "LHU"}
    BY <1>3, <1>5 DEF LoadValue, I64
<1> QED BY <1>4, <1>5

\* Writes keep the register file typed, and zero at zero.
RegFileOK(rf) == rf \in [Reg -> I64] /\ rf["zero"] = 0

LEMMA SetRegType ==
    ASSUME NEW rf, RegFileOK(rf), NEW rd \in Reg, NEW value \in I64
    PROVE  RegFileOK(SetReg(rf, rd, value))
BY IsaAssumption DEF RegFileOK, SetReg

LEMMA InitialRegsType ==
    ASSUME NEW inputs \in Seq(InputType)
    PROVE  RegFileOK(InitialRegs(inputs))
<1>1. InitialStackPointer \in I64
    BY MemoryAssumption, Bounds DEF InitialStackPointer, StackTop
<1>2. \A i \in DOMAIN inputs : inputs[i].value \in I64
    <2>1. DOMAIN inputs = 1 .. Len(inputs)
        OBVIOUS
    <2>2. \A i \in 1 .. Len(inputs) : inputs[i] \in InputType
        OBVIOUS
    <2> QED BY <2>1, <2>2 DEF InputType
<1>3. ASSUME NEW r \in Reg PROVE InitialRegs(inputs)[r] \in I64
    <2>1. CASE \E i \in DOMAIN inputs : IsLastFor(inputs, r, i)
        <3> DEFINE c == CHOOSE i \in DOMAIN inputs : IsLastFor(inputs, r, i)
        <3>1. c \in DOMAIN inputs
            BY <2>1
        <3>2. inputs[c].value \in I64
            BY <3>1, <1>2
        <3>3. InitialRegs(inputs)[r] = IF r = "zero" THEN 0 ELSE inputs[c].value
            BY <2>1 DEF InitialRegs
        <3> HIDE DEF c
        <3> QED BY <3>2, <3>3, Bounds
    <2>2. CASE ~\E i \in DOMAIN inputs : IsLastFor(inputs, r, i)
        BY <2>2, <1>1, Bounds DEF InitialRegs
    <2> QED BY <2>1, <2>2
<1>4. InitialRegs(inputs) \in [Reg -> I64]
    BY <1>3 DEF InitialRegs
<1>5. InitialRegs(inputs)["zero"] = 0
    BY IsaAssumption DEF InitialRegs
<1> QED BY <1>4, <1>5 DEF RegFileOK

-----------------------------------------------------------------------------
\* The instruction that is fetched, and the address after it.
LEMMA FetchedType ==
    ASSUME TypeOK, NEW inst \in Fetched
    PROVE  /\ status = "running"
           /\ inst \in Instruction
           /\ pc + WordSize \in U64
<1>1. status = "running"
    BY DEF Fetched
<1>2. PICK j \in job : ~LimitReached(j) /\ inst \in InstructionAt(j.code, pc)
    BY <1>1 DEF Fetched
<1>3. j \in JobType /\ WordSize * Len(j.code) < Modulus(8)
    BY JobsAssumption DEF TypeOK, Option
<1>4. /\ pc % WordSize = 0 /\ pc \div WordSize < Len(j.code)
      /\ inst = j.code[pc \div WordSize + 1]
    BY <1>2 DEF InstructionAt
<1>5. j.code \in Seq(Instruction) /\ Len(j.code) \in Nat
    BY <1>3 DEF JobType
<1>6. pc \in Nat /\ Modulus(8) \in Nat
    BY Bounds DEF TypeOK
<1>7. pc \div WordSize + 1 \in 1 .. Len(j.code)
    BY <1>4, <1>5, <1>6 DEF WordSize
<1>8. inst \in Instruction
    BY <1>4, <1>5, <1>7
<1>9. pc + WordSize < Modulus(8)
    BY <1>3, <1>4, <1>5, <1>6 DEF WordSize
<1> QED BY <1>1, <1>6, <1>8, <1>9, Bounds DEF WordSize

LEMMA BranchTakenType ==
    ASSUME NEW op \in BOpCode, NEW l, NEW r
    PROVE  BranchTaken(op, l, r) \in BOOLEAN
<1>1. CASE op = "BEQ"
    BY <1>1, Zenon DEF BranchTaken
<1>2. CASE op = "BNE"
    BY <1>2 DEF BranchTaken
<1>3. CASE op = "BLT"
    BY <1>3 DEF BranchTaken
<1>4. CASE op = "BGE"
    BY <1>4 DEF BranchTaken
<1>5. CASE op = "BLTU"
    BY <1>5 DEF BranchTaken
<1>6. CASE op = "BGEU"
    BY <1>6 DEF BranchTaken
<1> QED BY <1>1, <1>2, <1>3, <1>4, <1>5, <1>6 DEF BOpCode

LEMMA Singletons ==
    ASSUME NEW S, NEW x \in S
    PROVE  {x} \in Option(S) /\ {} \in Option(S)
BY DEF Option

\* Recording a state keeps the trace typed.
LEMMA AddStateType ==
    ASSUME NEW t \in TraceType, NEW s \in StateType, t.count = Len(t.states)
    PROVE  /\ AddState(t, s) \in TraceType
           /\ AddState(t, s).states = Append(t.states, s)
           /\ AddState(t, s).count = Len(AddState(t, s).states)
<1>1. t.states \in Seq(StateType) /\ t.count \in Nat
    BY DEF TraceType
<1>2. Append(t.states, s) \in Seq(StateType) /\ Len(Append(t.states, s)) = Len(t.states) + 1
    BY <1>1
<1>3. /\ t.entry_pc \in U64 /\ t.input_registers \in Seq(InputType)
      /\ t.count + 1 \in Nat
    BY DEF TraceType
<1> QED BY <1>1, <1>2, <1>3 DEF AddState, TraceType

\* The tail of an iteration keeps everything typed, when the rest of it did.
LEMMA RetireType ==
    ASSUME TypeOK, NEW inst \in Instruction, NEW next_pc \in U64,
           NEW branch_taken \in Option(BOOLEAN),
           NEW events \in Seq(EventType), NEW terminated \in BOOLEAN,
           Retire(inst, next_pc, branch_taken, events, terminated),
           RegFileOK(regs'), IsSparseMap(memory'), status = "running"
    PROVE  TypeOK'
<1> DEFINE s == [step |-> steps + 1, pc |-> pc, next_pc |-> next_pc,
                 reg_file |-> regs', instr |-> inst, branch_taken |-> branch_taken,
                 memory_events |-> events, terminated |-> terminated]
<1>1. s \in StateType
    BY DEF TypeOK, StateType, RegFileOK
<1>2. trace' = AddState(trace, s) /\ trace \in TraceType /\ trace.count = Len(trace.states)
    BY DEF Retire, TypeOK
<1>3. trace' \in TraceType /\ trace'.count = Len(trace'.states)
    <2> HIDE DEF s
    <2> QED BY <1>1, <1>2, AddStateType
<1>4. /\ pc' = next_pc /\ steps' = steps + 1 /\ job' = job
      /\ status' \in {"ok", "running"}
    BY DEF Retire
<1>5. job # {}
    BY DEF TypeOK
<1> QED BY <1>3, <1>4, <1>5 DEF TypeOK, RegFileOK, Ended

\* A memory event of an access that had no fault is typed.
LEMMA MemoryEventType ==
    ASSUME NEW inst \in LInst \cup SInst, NEW kind \in {"Load", "Store"},
           NEW r \in Reg, NEW addr \in U64, NEW value \in I64, NEW full \in I64,
           NEW previous \in Option(I64)
    PROVE  <<MemoryEvent(kind, inst, r, addr, value, full, previous)>> \in Seq(EventType)
<1>1. inst.op_code \in LoadOpCode \cup StoreOpCode
    BY DEF LInst, SInst
<1>2. Width(inst.op_code) \in Widths /\ 8 \in Widths /\ Width(inst.op_code) <= 8
    BY <1>1, WidthType DEF Widths
<1>3. value \in Int
    BY Bounds
<1>4. AsUnsigned(value, Width(inst.op_code)) \in U64
    BY <1>2, <1>3, AsUnsignedType, WiderTypes DEF U64
<1>5. MemoryEvent(kind, inst, r, addr, value, full, previous) \in EventType
    BY <1>1, <1>2, <1>4 DEF MemoryEvent, EventType
<1> QED BY <1>5

-----------------------------------------------------------------------------
(* Type correctness of the executor: registers stay i64 values with zero   *)
(* at zero, the memory holds bytes of the stack window only, and the trace *)
(* counts its states.                                                      *)
LEMMA InitTypeOK == Init => TypeOK
<1> SUFFICES ASSUME Init PROVE TypeOK
    OBVIOUS
<1>1. regs \in [Reg -> I64] /\ regs["zero"] = 0
    BY IsaAssumption, Bounds DEF Init
<1>2. IsSparseMap(memory)
    BY DEF Init, NoBytes, IsSparseMap
<1>3. trace \in TraceType /\ trace.count = Len(trace.states)
    BY Bounds DEF Init, EmptyTrace, TraceType
<1> QED BY <1>1, <1>2, <1>3, Bounds DEF Init, TypeOK, Option, Ended

LEMMA StopTypeOK ==
    ASSUME TypeOK, NEW outcome \in Ended, Stop(outcome), status = "running"
    PROVE  TypeOK'
BY DEF TypeOK, Stop, Ended, Errors, MemFaults

LEMMA ExecuteTypeOK ==
    ASSUME TypeOK, NEW j \in Jobs, Execute(j)
    PROVE  TypeOK'
<1>1. j \in JobType
    BY JobsAssumption
<1>2. j.entry \in U64 /\ j.inputs \in Seq(InputType)
    BY <1>1 DEF JobType
<1>3. RegFileOK(regs')
    BY <1>2, InitialRegsType DEF Execute
<1>4. InitialState(j.entry, regs') \in StateType
    BY <1>2, <1>3, Bounds DEF InitialState, StateType, RegFileOK, Option
<1>5. EmptyTrace(j.entry, j.inputs) \in TraceType
    BY <1>2 DEF EmptyTrace, TraceType
<1>6. EmptyTrace(j.entry, j.inputs).count = Len(EmptyTrace(j.entry, j.inputs).states)
    BY DEF EmptyTrace
<1>7. trace' \in TraceType /\ trace'.count = Len(trace'.states)
    BY <1>4, <1>5, <1>6, AddStateType DEF Execute
<1>8. IsSparseMap(memory')
    BY DEF Execute, NoBytes, IsSparseMap
<1>9. job' \in Option(Jobs) /\ job' # {}
    BY DEF Execute, Option
<1> QED BY <1>2, <1>3, <1>7, <1>8, <1>9 DEF Execute, TypeOK, RegFileOK

LEMMA IterateTypeOK ==
    ASSUME TypeOK, Iterate
    PROVE  TypeOK'
<1>1. RegFileOK(regs) /\ IsSparseMap(memory) /\ pc \in U64
    BY DEF TypeOK, RegFileOK
<1>2. {} \in Option(BOOLEAN) /\ {TRUE} \in Option(BOOLEAN) /\ <<>> \in Seq(EventType)
    <2>1. {} \in Option(BOOLEAN) /\ {TRUE} \in Option(BOOLEAN)
        BY Singletons
    <2>2. <<>> \in Seq(EventType)
        OBVIOUS
    <2> QED BY <2>1, <2>2
<1>3. ASSUME NEW x \in Int PROVE AsSigned(x, 8) \in I64
    BY AsSignedType DEF I64, Widths
<1>4. CASE ExceedLimit
    BY <1>4, StopTypeOK DEF ExceedLimit, Ended, Errors
<1>5. CASE LeaveCode
    BY <1>5, StopTypeOK DEF LeaveCode, Ended, Errors
<1>6. CASE ExecuteR
    <2>1. PICK inst \in Fetched : 
             /\ inst.type = "R"
             /\ \E value \in RValue(inst.op_code, regs[inst.rs1], regs[inst.rs2]) :
                   regs' = SetReg(regs, inst.rd, value)
             /\ Retire(inst, pc + WordSize, {}, <<>>, FALSE)
             /\ UNCHANGED memory
        BY <1>6 DEF ExecuteR
    <2>2. inst \in Instruction /\ pc + WordSize \in U64 /\ status = "running"
        BY FetchedType
    <2>3. inst.op_code \in ROpCode /\ inst.rd \in Reg /\ inst.rs1 \in Reg /\ inst.rs2 \in Reg
        BY <2>1, <2>2 DEF Instruction, RInst, IInst, LInst, SInst, BInst, JalInst, JalrInst
    <2>4. RegFileOK(regs')
        <3>1. PICK value \in RValue(inst.op_code, regs[inst.rs1], regs[inst.rs2]) :
                 regs' = SetReg(regs, inst.rd, value)
            BY <2>1
        <3>2. regs[inst.rs1] \in I64 /\ regs[inst.rs2] \in I64
            BY <1>1, <2>3 DEF RegFileOK
        <3>3. value \in I64
            BY <2>3, <3>1, <3>2, RValueType
        <3> QED BY <1>1, <2>3, <3>1, <3>3, SetRegType
    <2> QED BY <1>1, <1>2, <2>1, <2>2, <2>4, RetireType
<1>7. CASE ExecuteI
    <2>1. PICK inst \in Fetched :
             /\ inst.type = "I"
             /\ \E value \in Arith(regs[inst.rs] + inst.imm) :
                   regs' = SetReg(regs, inst.rd, value)
             /\ Retire(inst, pc + WordSize, {}, <<>>, FALSE)
             /\ UNCHANGED memory
        BY <1>7 DEF ExecuteI
    <2>2. inst \in Instruction /\ pc + WordSize \in U64 /\ status = "running"
        BY FetchedType
    <2>3. inst.rd \in Reg /\ inst.rs \in Reg /\ inst.imm \in I32
        BY <2>1, <2>2 DEF Instruction, RInst, IInst, LInst, SInst, BInst, JalInst, JalrInst
    <2>4. regs[inst.rs] + inst.imm \in Int
        BY <1>1, <2>3, Bounds DEF RegFileOK, I32, Signed
    <2>5. RegFileOK(regs')
        BY <1>1, <2>1, <2>3, <2>4, ArithType, SetRegType
    <2> QED BY <1>1, <1>2, <2>1, <2>2, <2>5, RetireType
<1>8. CASE ExecuteL
    <2>1. PICK inst \in Fetched :
             /\ inst.type = "L"
             /\ \E addr \in ResolveAddress(inst.address, regs) :
                   LET w     == Width(inst.op_code)
                       value == LoadValue(inst.op_code, LoadRaw(memory, addr, w))
                   IN  /\ Fault(addr, w) = {}
                       /\ regs' = SetReg(regs, inst.rd, value)
                       /\ Retire(inst, pc + WordSize, {},
                                 <<MemoryEvent("Load", inst, inst.rd, addr, value,
                                               value, {})>>, FALSE)
             /\ UNCHANGED memory
        BY <1>8 DEF ExecuteL
    <2>2. inst \in Instruction /\ pc + WordSize \in U64 /\ status = "running"
        BY FetchedType
    <2>3. inst \in LInst
        BY <2>1, <2>2 DEF Instruction, RInst, IInst, LInst, SInst, BInst, JalInst, JalrInst
    <2>4. inst.op_code \in LoadOpCode /\ inst.rd \in Reg /\ inst.address \in MemoryRef
        BY <2>3 DEF LInst
    <2> DEFINE w        == Width(inst.op_code)
               Value(a) == LoadValue(inst.op_code, LoadRaw(memory, a, w))
               Event(a) == <<MemoryEvent("Load", inst, inst.rd, a, Value(a), Value(a), {})>>
    <2>5. PICK addr \in ResolveAddress(inst.address, regs) :
             /\ Fault(addr, w) = {}
             /\ regs' = SetReg(regs, inst.rd, Value(addr))
             /\ Retire(inst, pc + WordSize, {}, Event(addr), FALSE)
        BY <2>1
    <2>6. addr \in U64 /\ addr \in Int
        BY <1>1, <2>4, <2>5, ResolveAddressType, Bounds DEF RegFileOK
    <2>7. w \in Widths
        BY <2>4, WidthType
    <2>8. Value(addr) \in I64
        BY <1>1, <2>4, <2>6, <2>7, LoadRawType, LoadValueType
    <2>9. Event(addr) \in Seq(EventType)
        BY <2>3, <2>4, <2>6, <2>8, MemoryEventType, Singletons DEF Option
    <2>10. RegFileOK(regs')
        BY <1>1, <2>4, <2>5, <2>8, SetRegType
    <2> HIDE DEF Event
    <2> QED BY <1>1, <1>2, <2>1, <2>2, <2>5, <2>9, <2>10, RetireType
<1>9. CASE ExecuteS
    <2>1. PICK inst \in Fetched :
             /\ inst.type = "S"
             /\ \E addr \in ResolveAddress(inst.address, regs) :
                   LET w      == Width(inst.op_code)
                       source == regs[inst.rs]
                   IN  /\ Fault(addr, w) = {}
                       /\ memory' = StoreRaw(memory, addr, w, AsUnsigned(source, w))
                       /\ UNCHANGED regs
                       /\ Retire(inst, pc + WordSize, {},
                                 <<MemoryEvent("Store", inst, inst.rs, addr,
                                               AsSigned(source, w), source,
                                               {PreviousValue(memory, addr, w)})>>, FALSE)
        BY <1>9 DEF ExecuteS
    <2>2. inst \in Instruction /\ pc + WordSize \in U64 /\ status = "running"
        BY FetchedType
    <2>3. inst \in SInst
        BY <2>1, <2>2 DEF Instruction, RInst, IInst, LInst, SInst, BInst, JalInst, JalrInst
    <2>4. inst.op_code \in StoreOpCode /\ inst.rs \in Reg /\ inst.address \in MemoryRef
        BY <2>3 DEF SInst
    <2> DEFINE w        == Width(inst.op_code)
               source   == regs[inst.rs]
               Event(a) == <<MemoryEvent("Store", inst, inst.rs, a, AsSigned(source, w),
                                         source, {PreviousValue(memory, a, w)})>>
    <2>5. PICK addr \in ResolveAddress(inst.address, regs) :
             /\ Fault(addr, w) = {}
             /\ memory' = StoreRaw(memory, addr, w, AsUnsigned(source, w))
             /\ UNCHANGED regs
             /\ Retire(inst, pc + WordSize, {}, Event(addr), FALSE)
        BY <2>1
    <2>6. addr \in U64 /\ addr \in Int
        BY <1>1, <2>4, <2>5, ResolveAddressType, Bounds DEF RegFileOK
    <2>7. w \in Widths /\ 8 \in Widths /\ w <= 8
        BY <2>4, WidthType DEF Widths
    <2>8. source \in I64 /\ source \in Int
        BY <1>1, <2>4, Bounds DEF RegFileOK
    <2>9. AsSigned(source, w) \in I64
        BY <2>7, <2>8, AsSignedType, WiderTypes DEF I64
    <2>10. PreviousValue(memory, addr, w) \in I64
        BY <1>1, <2>6, <2>7, PreviousValueType, WiderTypes DEF I64
    <2>11. Event(addr) \in Seq(EventType)
        BY <2>3, <2>4, <2>6, <2>8, <2>9, <2>10, MemoryEventType, Singletons
    <2>12. AsUnsigned(source, w) \in Int
        BY <2>7, <2>8, AsUnsignedType, WidthsAreByteCounts, ModulusPositive DEF Unsigned
    <2>13. IsSparseMap(memory')
        BY <1>1, <2>5, <2>6, <2>7, <2>12, StoreRawType
    <2> HIDE DEF Event, w, source
    <2> QED BY <1>1, <1>2, <2>2, <2>5, <2>11, <2>13, RetireType
<1>10. CASE ExecuteB
    <2>1. PICK inst \in Fetched :
             /\ inst.type = "B"
             /\ \E target \in inst.target :
                   LET taken == BranchTaken(inst.op_code, regs[inst.rs1], regs[inst.rs2])
                   IN  /\ UNCHANGED regs
                       /\ Retire(inst, IF taken THEN target ELSE pc + WordSize,
                                 {taken}, <<>>, FALSE)
             /\ UNCHANGED memory
        BY <1>10 DEF ExecuteB
    <2>2. inst \in Instruction /\ pc + WordSize \in U64 /\ status = "running"
        BY FetchedType
    <2>3. inst.op_code \in BOpCode /\ inst.target \subseteq U64
        BY <2>1, <2>2 DEF Instruction, RInst, IInst, LInst, SInst, BInst, JalInst, JalrInst,
                          Target, Option
    <2> DEFINE taken   == BranchTaken(inst.op_code, regs[inst.rs1], regs[inst.rs2])
               Goes(t) == IF taken THEN t ELSE pc + WordSize
    <2>4. PICK target \in inst.target :
             UNCHANGED regs /\ Retire(inst, Goes(target), {taken}, <<>>, FALSE)
        BY <2>1
    <2>5. {taken} \in Option(BOOLEAN)
        BY <2>3, BranchTakenType, Singletons
    <2>6. Goes(target) \in U64
        BY <2>2, <2>3, <2>4
    <2> HIDE DEF taken, Goes
    <2> QED BY <1>1, <1>2, <2>1, <2>2, <2>4, <2>5, <2>6, RetireType
<1>11. CASE ExecuteJal
    <2>1. PICK inst \in Fetched :
             /\ inst.type = "JAL"
             /\ \E target \in inst.target :
                   /\ regs' = SetReg(regs, inst.rd, AsSigned(pc + WordSize, 8))
                   /\ Retire(inst, target, {TRUE}, <<>>, FALSE)
             /\ UNCHANGED memory
        BY <1>11 DEF ExecuteJal
    <2>2. inst \in Instruction /\ pc + WordSize \in U64 /\ status = "running"
        BY FetchedType
    <2>3. inst.rd \in Reg /\ inst.target \subseteq U64
        BY <2>1, <2>2 DEF Instruction, RInst, IInst, LInst, SInst, BInst, JalInst, JalrInst,
                          Target, Option
    <2>4. RegFileOK(regs')
        <3>1. AsSigned(pc + WordSize, 8) \in I64
            BY <1>3, <2>2, Bounds
        <3>2. regs' = SetReg(regs, inst.rd, AsSigned(pc + WordSize, 8))
            BY <2>1
        <3> QED BY <1>1, <2>3, <3>1, <3>2, SetRegType
    <2> QED BY <1>1, <1>2, <2>1, <2>2, <2>3, <2>4, RetireType
<1>12. CASE ExecuteJalr
    <2>1. PICK inst \in Fetched :
             /\ inst.type = "JALR"
             /\ \E destination \in ResolveAddress(inst.address, regs) :
                   /\ regs' = SetReg(regs, inst.rd, AsSigned(pc + WordSize, 8))
                   /\ Retire(inst, destination, {TRUE}, <<>>,
                             inst.rd = "zero" /\ destination = 0)
             /\ UNCHANGED memory
        BY <1>12 DEF ExecuteJalr
    <2>2. inst \in Instruction /\ pc + WordSize \in U64 /\ status = "running"
        BY FetchedType
    <2>3. inst.rd \in Reg /\ inst.address \in MemoryRef
        BY <2>1, <2>2 DEF Instruction, RInst, IInst, LInst, SInst, BInst, JalInst, JalrInst
    <2>4. RegFileOK(regs')
        <3>1. AsSigned(pc + WordSize, 8) \in I64
            BY <1>3, <2>2, Bounds
        <3>2. regs' = SetReg(regs, inst.rd, AsSigned(pc + WordSize, 8))
            BY <2>1
        <3> QED BY <1>1, <2>3, <3>1, <3>2, SetRegType
    <2>5. ResolveAddress(inst.address, regs) \subseteq U64
        BY <1>1, <2>3, ResolveAddressType DEF RegFileOK
    <2>6. \A d : (inst.rd = "zero" /\ d = 0) \in BOOLEAN
        OBVIOUS
    <2> QED BY <1>1, <1>2, <2>1, <2>2, <2>4, <2>5, <2>6, RetireType
<1>13. CASE MemoryFault
    <2>1. \A a, w : Fault(a, w) \subseteq Ended
        BY DEF Fault, Ended, Errors, MemFaults
    <2> QED BY <1>13, <2>1, FetchedType, StopTypeOK DEF MemoryFault
<1>14. CASE MissTarget
    BY <1>14, FetchedType, StopTypeOK DEF MissTarget, Ended, Errors
<1>15. CASE Panic
    BY <1>15, FetchedType, StopTypeOK DEF Panic, Ended
<1> QED BY <1>4, <1>5, <1>6, <1>7, <1>8, <1>9, <1>10, <1>11, <1>12, <1>13,
           <1>14, <1>15 DEF Iterate

\* Spec without its fairness, which nothing here needs.
Steps == Init /\ [][Next]_vars

LEMMA StepsAreTyped == Steps => []TypeOK
<1>1. TypeOK /\ [Next]_vars => TypeOK'
    <2> SUFFICES ASSUME TypeOK, [Next]_vars PROVE TypeOK'
        OBVIOUS
    <2>1. CASE Iterate
        BY <2>1, IterateTypeOK
    <2>2. CASE \E j \in Jobs : Execute(j)
        BY <2>2, ExecuteTypeOK
    <2>3. CASE UNCHANGED vars
        BY <2>3 DEF vars, TypeOK
    <2> QED BY <2>1, <2>2, <2>3 DEF Next
<1> QED BY <1>1, InitTypeOK, PTL DEF Steps

(* The registers stay 64-bit values, register zero stays zero, the memory  *)
(* inside the stack window, and the trace counts its states (Trace::add).  *)
THEOREM TypeCorrect == Spec => []TypeOK
BY StepsAreTyped, PTL DEF Spec, Steps

-----------------------------------------------------------------------------
(* A failed step leaves no partial effect: registers and pc are always the *)
(* ones of the last recorded state (SnapshotsMatchMachine).  With TypeOK   *)
(* the property is inductive as it stands: an iteration either records its *)
(* state together with the registers, or stops and changes neither.        *)
LEMMA StopSnapshots ==
    ASSUME TypeOK, SnapshotsMatchMachine, status = "running",
           NEW outcome \in Ended \ {"ok"}, Stop(outcome)
    PROVE  SnapshotsMatchMachine'
BY DEF Stop, SnapshotsMatchMachine, States, LastState

LEMMA AppendedStates ==
    ASSUME NEW q \in Seq(StateType), NEW s \in StateType
    PROVE  /\ Len(Append(q, s)) = Len(q) + 1
           /\ Append(q, s)[Len(q) + 1] = s
           /\ \A k \in 1 .. Len(q) : Append(q, s)[k] = q[k]
OBVIOUS

\* The states that a recorded step leaves behind.
LEMMA RetireStates ==
    ASSUME TypeOK, TypeOK', NEW inst, NEW next_pc, NEW branch_taken,
           NEW events, NEW terminated,
           Retire(inst, next_pc, branch_taken, events, terminated)
    PROVE  /\ Len(States') = Len(States) + 1
           /\ LastState' = [step |-> steps + 1, pc |-> pc, next_pc |-> next_pc,
                            reg_file |-> regs', instr |-> inst,
                            branch_taken |-> branch_taken,
                            memory_events |-> events, terminated |-> terminated]
           /\ \A k \in 1 .. Len(States) : States'[k] = States[k]
           /\ Len(States) \in Nat
<1> DEFINE s == [step |-> steps + 1, pc |-> pc, next_pc |-> next_pc,
                 reg_file |-> regs', instr |-> inst, branch_taken |-> branch_taken,
                 memory_events |-> events, terminated |-> terminated]
<1>1. States' = Append(States, s)
    BY DEF Retire, AddState, States
<1>2. States \in Seq(StateType) /\ States' \in Seq(StateType)
    BY DEF TypeOK, TraceType, States
<1> HIDE DEF s
<1>3. /\ Len(States') = Len(States) + 1 /\ States'[Len(States) + 1] = s
      /\ \A k \in 1 .. Len(States) : States'[k] = States[k]
    BY <1>1, <1>2
<1>4. LastState' = s
    BY <1>3 DEF LastState
<1> QED BY <1>2, <1>3, <1>4 DEF s

LEMMA RetireSnapshots ==
    ASSUME TypeOK, TypeOK', SnapshotsMatchMachine, NEW inst \in Fetched,
           NEW next_pc, NEW branch_taken, NEW events, NEW terminated \in BOOLEAN,
           Retire(inst, next_pc, branch_taken, events, terminated)
    PROVE  SnapshotsMatchMachine'
<1> SUFFICES ASSUME NEW j \in job'
             PROVE  /\ Len(States') = steps' + 1
                    /\ steps' <= j.limit
                    /\ LastState'.step = steps'
                    /\ LastState'.reg_file = regs'
                    /\ LastState'.next_pc = pc'
                    /\ LastState'.terminated = (status' = "ok")
                    /\ \A k \in 1 .. Len(States') - 1 : ~States'[k].terminated
    BY DEF SnapshotsMatchMachine
<1>1. /\ pc' = next_pc /\ steps' = steps + 1 /\ job' = job
      /\ status' = IF terminated THEN "ok" ELSE "running"
    BY DEF Retire
<1>2. status = "running" /\ ~LimitReached(j)
    <2>1. PICK i \in job : ~LimitReached(i)
        BY DEF Fetched
    <2> QED BY <1>1, <2>1, FetchedType DEF TypeOK, Option
<1>3. j.limit \in Nat /\ steps \in Nat
    BY <1>1, JobsAssumption DEF TypeOK, Option, JobType
<1>4. steps + 1 <= j.limit
    BY <1>2, <1>3 DEF LimitReached
<1>5. /\ Len(States) = steps + 1 /\ ~LastState.terminated
      /\ \A k \in 1 .. Len(States) - 1 : ~States[k].terminated
    BY <1>1, <1>2 DEF SnapshotsMatchMachine
<1>6. /\ Len(States') = Len(States) + 1
      /\ LastState'.step = steps + 1 /\ LastState'.reg_file = regs'
      /\ LastState'.next_pc = next_pc /\ LastState'.terminated = terminated
      /\ \A k \in 1 .. Len(States) : States'[k] = States[k]
    BY RetireStates
<1>7. \A k \in 1 .. Len(States) : ~States[k].terminated
    BY <1>3, <1>5 DEF LastState
<1>8. LastState'.terminated = (status' = "ok")
    BY <1>1, <1>6
<1> QED BY <1>1, <1>3, <1>4, <1>5, <1>6, <1>7, <1>8

LEMMA ExecuteSnapshots ==
    ASSUME NEW j \in Jobs, Execute(j)
    PROVE  SnapshotsMatchMachine'
<1>1. States' = <<InitialState(j.entry, regs')>>
    BY DEF Execute, States, AddState, EmptyTrace
<1>2. Len(States') = 1 /\ LastState' = InitialState(j.entry, regs')
    BY <1>1 DEF LastState
<1>3. j.limit \in Nat
    BY JobsAssumption DEF JobType
<1>4. /\ job' = {j} /\ pc' = j.entry /\ steps' = 0 /\ status' = "running"
    BY DEF Execute
<1>5. /\ LastState'.step = 0 /\ LastState'.reg_file = regs'
      /\ LastState'.next_pc = j.entry /\ LastState'.terminated = FALSE
    BY <1>2 DEF InitialState
<1>6. LastState'.terminated = (status' = "ok")
    BY <1>4, <1>5
<1>7. steps' <= j.limit
    BY <1>3, <1>4
<1> QED BY <1>2, <1>4, <1>5, <1>6, <1>7 DEF SnapshotsMatchMachine

\* Every way through an iteration stops or retires the fetched instruction.
LEMMA IterateShape ==
    ASSUME Iterate
    PROVE  \/ \E outcome \in Ended \ {"ok"} : Stop(outcome) /\ status = "running"
           \/ \E inst \in Fetched : \E next_pc, branch_taken, events :
                 \E terminated \in BOOLEAN :
                    /\ Retire(inst, next_pc, branch_taken, events, terminated)
                    /\ terminated => next_pc = 0
<1>1. CASE ExceedLimit
    BY <1>1 DEF ExceedLimit, Ended, Errors
<1>2. CASE LeaveCode
    BY <1>2 DEF LeaveCode, Ended, Errors
<1>3. CASE ExecuteR
    BY <1>3 DEF ExecuteR
<1>4. CASE ExecuteI
    BY <1>4 DEF ExecuteI
<1>5. CASE ExecuteL
    BY <1>5 DEF ExecuteL
<1>6. CASE ExecuteS
    BY <1>6 DEF ExecuteS
<1>7. CASE ExecuteB
    BY <1>7 DEF ExecuteB
<1>8. CASE ExecuteJal
    BY <1>8 DEF ExecuteJal
<1>9. CASE ExecuteJalr
    <2>1. PICK inst \in Fetched : \E d :
             Retire(inst, d, {TRUE}, <<>>, inst.rd = "zero" /\ d = 0)
        BY <1>9 DEF ExecuteJalr
    <2>2. \A d : /\ (inst.rd = "zero" /\ d = 0) \in BOOLEAN
                /\ (inst.rd = "zero" /\ d = 0) => d = 0
        OBVIOUS
    <2> QED BY <2>1, <2>2
<1>10. CASE MemoryFault
    <2>1. \A a, w : Fault(a, w) \subseteq Ended \ {"ok"}
        BY DEF Fault, Ended, Errors, MemFaults
    <2>2. \E inst \in Fetched : TRUE
        BY <1>10 DEF MemoryFault
    <2>3. status = "running"
        BY <2>2 DEF Fetched
    <2> QED BY <1>10, <2>1, <2>3 DEF MemoryFault
<1>11. CASE MissTarget
    BY <1>11 DEF MissTarget, Fetched, Ended, Errors
<1>12. CASE Panic
    BY <1>12 DEF Panic, Fetched, Ended
<1> QED BY <1>1, <1>2, <1>3, <1>4, <1>5, <1>6, <1>7, <1>8, <1>9, <1>10, <1>11,
           <1>12 DEF Iterate

LEMMA StepsKeepSnapshots == Steps => []SnapshotsMatchMachine
<1>1. Init => SnapshotsMatchMachine
    BY DEF Init, SnapshotsMatchMachine
<1>2. TypeOK /\ TypeOK' /\ SnapshotsMatchMachine /\ [Next]_vars => SnapshotsMatchMachine'
    <2> SUFFICES ASSUME TypeOK, TypeOK', SnapshotsMatchMachine, [Next]_vars
                 PROVE  SnapshotsMatchMachine'
        OBVIOUS
    <2>1. CASE Iterate
        BY <2>1, IterateShape, StopSnapshots, RetireSnapshots
    <2>2. CASE \E j \in Jobs : Execute(j)
        BY <2>2, ExecuteSnapshots
    <2>3. CASE UNCHANGED vars
        BY <2>3 DEF vars, SnapshotsMatchMachine, States, LastState
    <2> QED BY <2>1, <2>2, <2>3 DEF Next
<1> QED BY <1>1, <1>2, StepsAreTyped, PTL DEF Steps

(* A failed step leaves no partial effect: registers and pc are the ones   *)
(* of the last recorded state (executor.rs, the `?` inside execute()).     *)
THEOREM SnapshotsCorrect == Spec => []SnapshotsMatchMachine
BY StepsKeepSnapshots, PTL DEF Spec, Steps

-----------------------------------------------------------------------------
(* The executor implements the trace log (TraceLog.tla), but for the       *)
(* fairness of the log, which stays with TLC: a call of execute() begins a *)
(* log, an iteration that runs an instruction records an entry linked to   *)
(* the one before it and within the limit, and a return with an error      *)
(* leaves the log as it is.                                                *)
Entries     == [k \in 1 .. Len(States) |-> Shown(States[k])]
Limits      == {j.limit : j \in job}
LogPhase    == CASE status = "idle"    -> "none"
                 [] status = "running" -> "open"
                 [] status = "ok"      -> "complete"
                 [] OTHER              -> "failed"

\* A function on 1 .. n is the sequence of its values.
LEMMA TableIsSequence ==
    ASSUME NEW n \in Nat, NEW f, f = [k \in 1 .. n |-> f[k]],
           NEW S, \A k \in 1 .. n : f[k] \in S
    PROVE  f \in Seq(S) /\ Len(f) = n
<1>1. f \in [1 .. n -> S]
    OBVIOUS
<1> QED BY <1>1, SeqDef

\* A sequence that agrees with s and goes on with e is s with e appended.
LEMMA Prolonged ==
    ASSUME NEW S, NEW s \in Seq(S), NEW t \in Seq(S), NEW e \in S,
           Len(t) = Len(s) + 1, \A k \in 1 .. Len(s) : t[k] = s[k],
           t[Len(s) + 1] = e
    PROVE  t = Append(s, e)
<1>1. /\ Append(s, e) \in Seq(S) /\ Len(Append(s, e)) = Len(s) + 1
      /\ Len(s) \in Nat
    OBVIOUS
<1>2. \A k \in 1 .. Len(s) + 1 : Append(s, e)[k] = t[k]
    OBVIOUS
<1> QED BY <1>1, <1>2, SeqEqual

\* A table with one entry is the sequence of that entry.
LEMMA TableOfOne ==
    ASSUME NEW f, f = [k \in 1 .. 1 |-> f[k]]
    PROVE  f = <<f[1]>>
<1> DEFINE e == f[1]
           S == {e}
<1>1. \A k \in 1 .. 1 : f[k] \in S
    OBVIOUS
<1> HIDE DEF e
<1>2. f \in Seq(S) /\ Len(f) = 1
    BY <1>1, TableIsSequence
<1>3. <<e>> \in Seq(S) /\ Len(<<e>>) = 1 /\ <<e>>[1] = e
    OBVIOUS
<1>4. f = <<e>>
    BY <1>2, <1>3, SeqEqual DEF e
<1> QED BY <1>4 DEF e
\* What a log shows of a sequence of states.
LEMMA EntriesType ==
    ASSUME NEW t \in Seq(StateType),
           NEW shown, shown = [k \in 1 .. Len(t) |-> Shown(t[k])]
    PROVE  /\ shown \in Seq(Log!Entry) /\ Len(shown) = Len(t)
           /\ Len(t) \in Nat
           /\ \A k \in 1 .. Len(t) : shown[k] = Shown(t[k])
<1>1. \A k \in 1 .. Len(t) : Shown(t[k]) \in Log!Entry
    <2> SUFFICES ASSUME NEW k \in 1 .. Len(t) PROVE Shown(t[k]) \in Log!Entry
        OBVIOUS
    <2>1. t[k] \in StateType
        OBVIOUS
    <2>2. /\ t[k].step \in Nat /\ t[k].pc \in U64
          /\ t[k].next_pc \in U64 /\ t[k].terminated \in BOOLEAN
        BY <2>1 DEF StateType
    <2> QED BY <2>2 DEF Shown, Log!Entry
<1>2. shown \in [1 .. Len(t) -> Log!Entry]
    BY <1>1
<1> QED BY <1>2, SeqDef

LEMMA StopFailsLog ==
    ASSUME status = "running", NEW outcome \in Ended \ {"ok"}, Stop(outcome)
    PROVE  Log!Fail
<1>1. LogPhase = "open" /\ LogPhase' = "failed"
    BY DEF Stop, LogPhase, Ended, Errors, MemFaults
<1>2. Entries' = Entries /\ Limits' = Limits
    BY DEF Stop, Entries, States, Limits
<1> QED BY <1>1, <1>2 DEF Log!Fail, LogPhase, Entries, Limits

LEMMA ExecuteBeginsLog ==
    ASSUME NEW j \in Jobs, Execute(j)
    PROVE  Log!Begin
<1>1. LogPhase # "open" /\ LogPhase' = "open"
    BY DEF Execute, LogPhase
<1>2. States' = <<InitialState(j.entry, regs')>>
    BY DEF Execute, States, AddState, EmptyTrace
<1>3. Shown(InitialState(j.entry, regs')) =
         [step |-> 0, pc |-> j.entry, next_pc |-> j.entry, terminated |-> FALSE]
    BY DEF Shown, InitialState
<1>4. Entries' = <<[step |-> 0, pc |-> j.entry, next_pc |-> j.entry, terminated |-> FALSE]>>
    <2>1. Len(States') = 1 /\ States'[1] = InitialState(j.entry, regs')
        BY <1>2
    <2>2. Entries' = [k \in 1 .. 1 |-> Shown(States'[k])]
        BY <2>1 DEF Entries
    <2>3. Entries' = [k \in 1 .. 1 |-> Entries'[k]]
        BY <2>2
    <2>4. Entries'[1] = [step |-> 0, pc |-> j.entry, next_pc |-> j.entry,
                         terminated |-> FALSE]
        BY <2>1, <2>2, <1>3
    <2> QED BY <2>3, <2>4, TableOfOne
<1>5. j.entry \in U64 /\ j.limit \in Nat
    BY JobsAssumption DEF JobType
<1>6. Limits' = {j.limit}
    BY DEF Execute, Limits
<1> QED BY <1>1, <1>4, <1>5, <1>6 DEF Log!Begin, LogPhase, Entries, Limits

LEMMA RetireRecordsLog ==
    ASSUME TypeOK, TypeOK', SnapshotsMatchMachine, SnapshotsMatchMachine',
           NEW inst \in Fetched, NEW next_pc, NEW branch_taken, NEW events,
           NEW terminated \in BOOLEAN, terminated => next_pc = 0,
           Retire(inst, next_pc, branch_taken, events, terminated)
    PROVE  Log!Record
<1> DEFINE e == [step |-> Len(Entries), pc |-> Log!Newest(Entries).next_pc,
                 next_pc |-> next_pc, terminated |-> terminated]
<1>1. PICK j \in job : inst \in InstructionAt(j.code, pc)
    BY DEF Fetched
<1>2. /\ status = "running" /\ job' = job /\ pc' = next_pc
      /\ status' = IF terminated THEN "ok" ELSE "running"
    BY FetchedType DEF Retire
<1>3. /\ Len(States) = steps + 1 /\ LastState.next_pc = pc
      /\ steps + 1 <= j.limit /\ steps \in Nat /\ j.limit \in Nat
    BY <1>1, <1>2, JobsAssumption
    DEF SnapshotsMatchMachine, Retire, TypeOK, Option, JobType
<1>4. /\ Len(States') = Len(States) + 1 /\ Len(States) \in Nat
      /\ \A k \in 1 .. Len(States) : States'[k] = States[k]
      /\ Shown(LastState') = [step |-> steps + 1, pc |-> pc, next_pc |-> next_pc,
                              terminated |-> terminated]
    BY RetireStates DEF Shown
<1>5. Len(Entries) = Len(States) /\ DOMAIN Entries = 1 .. Len(States)
    BY <1>4 DEF Entries
<1>6. Log!Newest(Entries).next_pc = pc
    <2>1. Entries[Len(States)] = Shown(LastState)
        BY <1>3 DEF Entries, LastState
    <2> QED BY <1>3, <1>5, <2>1 DEF Log!Newest, Shown
<1>7. e = Shown(LastState')
    BY <1>3, <1>4, <1>5, <1>6
<1>8. Entries' = Append(Entries, e)
    <2>1. States \in Seq(StateType) /\ States' \in Seq(StateType)
        BY DEF TypeOK, TraceType, States
    <2>2. /\ Entries \in Seq(Log!Entry) /\ Len(Entries) = Len(States)
          /\ \A k \in 1 .. Len(States) : Entries[k] = Shown(States[k])
        BY <2>1, EntriesType DEF Entries
    <2>3. /\ Entries' \in Seq(Log!Entry) /\ Len(Entries') = Len(States')
          /\ \A k \in 1 .. Len(States') : Entries'[k] = Shown(States'[k])
        BY <2>1, EntriesType DEF Entries
    <2>4. /\ Len(Entries') = Len(Entries) + 1
          /\ \A k \in 1 .. Len(Entries) : Entries'[k] = Entries[k]
        BY <1>4, <2>2, <2>3
    <2>5. Entries'[Len(Entries) + 1] = e
        BY <1>4, <1>7, <2>2, <2>3 DEF LastState
    <2>6. e \in Log!Entry
        BY <1>4, <2>2, <2>3, <2>4, <2>5
    <2> HIDE DEF e
    <2> QED BY <2>2, <2>3, <2>4, <2>5, <2>6, Prolonged
<1>9. next_pc \in U64
    BY <1>2 DEF TypeOK
<1>10. LogPhase = "open" /\ LogPhase' = IF terminated THEN "complete" ELSE "open"
    BY <1>2 DEF LogPhase
<1>11. Limits' = Limits /\ j.limit \in Limits /\ Len(Entries) <= j.limit
    BY <1>1, <1>2, <1>3, <1>5 DEF Limits
<1> QED BY <1>8, <1>9, <1>10, <1>11 DEF Log!Record, LogPhase, Entries, Limits

THEOREM ImplementsTraceLogSafety == Spec => Log!Safety
<1>1. Init => Log!Init
    <2> SUFFICES ASSUME Init PROVE Log!Init
        OBVIOUS
    <2>1. Entries = <<>> /\ Limits = {} /\ LogPhase = "none"
        <3>1. Len(States) = 0
            BY DEF Init, States, EmptyTrace
        <3> QED BY <3>1 DEF Init, Entries, Limits, LogPhase
    <2> QED BY <2>1 DEF Log!Init, Entries, Limits, LogPhase
<1>2. TypeOK /\ TypeOK' /\ SnapshotsMatchMachine /\ SnapshotsMatchMachine' /\ [Next]_vars
         => [Log!Next]_Log!vars
    <2> SUFFICES ASSUME TypeOK, TypeOK', SnapshotsMatchMachine, SnapshotsMatchMachine',
                        [Next]_vars
                 PROVE  [Log!Next]_Log!vars
        OBVIOUS
    <2>1. CASE Iterate
        BY <2>1, IterateShape, StopFailsLog, RetireRecordsLog DEF Log!Next
    <2>2. CASE \E j \in Jobs : Execute(j)
        BY <2>2, ExecuteBeginsLog DEF Log!Next
    <2>3. CASE UNCHANGED vars
        <3>1. Entries' = Entries /\ Limits' = Limits /\ LogPhase' = LogPhase
            BY <2>3 DEF vars, Entries, Limits, LogPhase, States
        <3> QED BY <3>1 DEF Log!vars, Entries, Limits, LogPhase
    <2> QED BY <2>1, <2>2, <2>3 DEF Next
<1> QED BY <1>1, <1>2, TypeCorrect, SnapshotsCorrect, PTL DEF Spec, Log!Safety

-----------------------------------------------------------------------------
(* What the trace of a run says is what happened.  RunsAs relates a        *)
(* recorded state to the registers before it, one disjunct per kind of     *)
(* instruction; that every recorded state RunsAs its instruction is an     *)
(* invariant.  The properties of control, of destinations and of           *)
(* arithmetic then follow from RunsAs by facts about the operators of      *)
(* Isa.tla alone.                                                          *)

(* The recorded step.  Each operator says what execute_r, execute_i, ...   *)
(* record in s when they run s.instr with the registers rf.                *)
GoesOn(s) == s.branch_taken = {} /\ s.next_pc = s.pc + WordSize

RunsR(s, rf) ==
    /\ s.instr \in RInst
    /\ GoesOn(s)
    /\ \E value \in RValue(s.instr.op_code, rf[s.instr.rs1], rf[s.instr.rs2]) :
          s.reg_file = SetReg(rf, s.instr.rd, value)

RunsI(s, rf) ==
    /\ s.instr \in IInst
    /\ GoesOn(s)
    /\ \E value \in Arith(rf[s.instr.rs] + s.instr.imm) :
          s.reg_file = SetReg(rf, s.instr.rd, value)

\* The event of an access tells the address that it was made at.
Accesses(s, rf) ==
    \E addr \in ResolveAddress(s.instr.address, rf) :
        /\ Fault(addr, Width(s.instr.op_code)) = {}
        /\ s.memory_events # <<>> /\ s.memory_events[1].address = addr

RunsL(s, rf) ==
    /\ s.instr \in LInst
    /\ GoesOn(s)
    /\ \E value \in I64 : s.reg_file = SetReg(rf, s.instr.rd, value)
    /\ Accesses(s, rf)

RunsS(s, rf) ==
    /\ s.instr \in SInst
    /\ GoesOn(s)
    /\ s.reg_file = rf
    /\ Accesses(s, rf)

RunsB(s, rf) ==
    /\ s.instr \in BInst
    /\ s.reg_file = rf
    /\ \E target \in s.instr.target :
          LET taken == BranchTaken(s.instr.op_code, rf[s.instr.rs1], rf[s.instr.rs2])
          IN  /\ s.branch_taken = {taken}
              /\ s.next_pc = IF taken THEN target ELSE s.pc + WordSize

LinksNext(s, rf) ==
    s.reg_file = SetReg(rf, s.instr.rd, AsSigned(s.pc + WordSize, 8))

RunsJal(s, rf) ==
    /\ s.instr \in JalInst
    /\ s.branch_taken = {TRUE}
    /\ s.next_pc \in s.instr.target
    /\ LinksNext(s, rf)

RunsJalr(s, rf) ==
    /\ s.instr \in JalrInst
    /\ s.branch_taken = {TRUE}
    /\ s.next_pc \in ResolveAddress(s.instr.address, rf)
    /\ LinksNext(s, rf)

RunsAs(s, rf) ==
    /\ s.pc \in Nat
    /\ rf \in [Reg -> I64]
    /\ \/ RunsR(s, rf) \/ RunsI(s, rf) \/ RunsL(s, rf) \/ RunsS(s, rf)
       \/ RunsB(s, rf) \/ RunsJal(s, rf) \/ RunsJalr(s, rf)

\* State k starts where the one before it pointed, at its instruction.
IsLinked(k) ==
    /\ States[k].pc = States[k - 1].next_pc
    /\ \A j \in job : States[k].instr \in InstructionAt(j.code, States[k].pc)

HistoryRuns ==
    \A k \in Recorded : IsLinked(k) /\ RunsAs(States[k], Before(k))

-----------------------------------------------------------------------------
\* The kinds of instructions are told apart by their type.
LEMMA InstructionKinds ==
    ASSUME NEW inst \in Instruction
    PROVE  /\ inst.type = "R"    => inst \in RInst
           /\ inst.type = "I"    => inst \in IInst
           /\ inst.type = "L"    => inst \in LInst
           /\ inst.type = "S"    => inst \in SInst
           /\ inst.type = "B"    => inst \in BInst
           /\ inst.type = "JAL"  => inst \in JalInst
           /\ inst.type = "JALR" => inst \in JalrInst
BY DEF Instruction, RInst, IInst, LInst, SInst, BInst, JalInst, JalrInst

LEMMA KindTypes ==
    ASSUME NEW inst
    PROVE  /\ inst \in RInst    => inst.type = "R"
           /\ inst \in IInst    => inst.type = "I"
           /\ inst \in LInst    => inst.type = "L"
           /\ inst \in SInst    => inst.type = "S"
           /\ inst \in BInst    => inst.type = "B"
           /\ inst \in JalInst  => inst.type = "JAL"
           /\ inst \in JalrInst => inst.type = "JALR"
BY DEF RInst, IInst, LInst, SInst, BInst, JalInst, JalrInst

\* What an iteration records when it runs inst.
Recording(inst, next_pc, branch_taken, events, terminated) ==
    [step |-> steps + 1, pc |-> pc, next_pc |-> next_pc,
     reg_file |-> regs', instr |-> inst, branch_taken |-> branch_taken,
     memory_events |-> events, terminated |-> terminated]

\* Every iteration stops, or runs the fetched instruction and records that.
LEMMA IterateRuns ==
    ASSUME TypeOK, Iterate
    PROVE  \/ \E outcome \in Ended \ {"ok"} : Stop(outcome) /\ status = "running"
           \/ \E inst \in Fetched : \E next_pc, branch_taken, events :
                 \E terminated \in BOOLEAN :
                    /\ Retire(inst, next_pc, branch_taken, events, terminated)
                    /\ RunsAs(Recording(inst, next_pc, branch_taken, events, terminated),
                              regs)
                    /\ terminated => next_pc = 0 /\ inst.type = "JALR"
<1>1. pc \in Nat /\ regs \in [Reg -> I64]
    BY Bounds DEF TypeOK
<1>2. CASE ExecuteR
    <2>1. PICK inst \in Fetched :
             /\ inst.type = "R"
             /\ \E value \in RValue(inst.op_code, regs[inst.rs1], regs[inst.rs2]) :
                   regs' = SetReg(regs, inst.rd, value)
             /\ Retire(inst, pc + WordSize, {}, <<>>, FALSE)
        BY <1>2 DEF ExecuteR
    <2>2. inst \in RInst
        BY <2>1, FetchedType, InstructionKinds
    <2>3. RunsR(Recording(inst, pc + WordSize, {}, <<>>, FALSE), regs)
        BY <2>1, <2>2 DEF RunsR, GoesOn, Recording
    <2>4. RunsAs(Recording(inst, pc + WordSize, {}, <<>>, FALSE), regs)
        BY <1>1, <2>3 DEF RunsAs, Recording
    <2> QED BY <2>1, <2>4
<1>3. CASE ExecuteI
    <2>1. PICK inst \in Fetched :
             /\ inst.type = "I"
             /\ \E value \in Arith(regs[inst.rs] + inst.imm) :
                   regs' = SetReg(regs, inst.rd, value)
             /\ Retire(inst, pc + WordSize, {}, <<>>, FALSE)
        BY <1>3 DEF ExecuteI
    <2>2. inst \in IInst
        BY <2>1, FetchedType, InstructionKinds
    <2>3. RunsI(Recording(inst, pc + WordSize, {}, <<>>, FALSE), regs)
        BY <2>1, <2>2 DEF RunsI, GoesOn, Recording
    <2>4. RunsAs(Recording(inst, pc + WordSize, {}, <<>>, FALSE), regs)
        BY <1>1, <2>3 DEF RunsAs, Recording
    <2> QED BY <2>1, <2>4
<1>4. CASE ExecuteL
    <2>1. PICK inst \in Fetched :
             /\ inst.type = "L"
             /\ \E addr \in ResolveAddress(inst.address, regs) :
                   LET w     == Width(inst.op_code)
                       value == LoadValue(inst.op_code, LoadRaw(memory, addr, w))
                   IN  /\ Fault(addr, w) = {}
                       /\ regs' = SetReg(regs, inst.rd, value)
                       /\ Retire(inst, pc + WordSize, {},
                                 <<MemoryEvent("Load", inst, inst.rd, addr, value,
                                               value, {})>>, FALSE)
        BY <1>4 DEF ExecuteL
    <2>2. inst \in LInst
        BY <2>1, FetchedType, InstructionKinds
    <2> DEFINE w        == Width(inst.op_code)
               Value(a) == LoadValue(inst.op_code, LoadRaw(memory, a, w))
               Event(a) == <<MemoryEvent("Load", inst, inst.rd, a, Value(a), Value(a), {})>>
    <2>3. PICK addr \in ResolveAddress(inst.address, regs) :
             /\ Fault(addr, w) = {}
             /\ regs' = SetReg(regs, inst.rd, Value(addr))
             /\ Retire(inst, pc + WordSize, {}, Event(addr), FALSE)
        BY <2>1
    <2>4. Value(addr) \in I64
        <3>1. inst.op_code \in LoadOpCode /\ inst.address \in MemoryRef
            BY <2>2 DEF LInst
        <3>2. w \in Widths
            BY <3>1, WidthType
        <3>3. addr \in Int
            BY <1>1, <2>3, <3>1, ResolveAddressType, Bounds
        <3>4. LoadRaw(memory, addr, w) \in Unsigned(w)
            BY <3>2, <3>3, LoadRawType DEF TypeOK
        <3> QED BY <3>1, <3>4, LoadValueType
    <2>5. Event(addr) # <<>> /\ Event(addr)[1].address = addr
        BY DEF MemoryEvent
    <2> HIDE DEF Event, Value
    <2>6. Accesses(Recording(inst, pc + WordSize, {}, Event(addr), FALSE), regs)
        BY <2>3, <2>5 DEF Accesses, Recording
    <2>7. RunsL(Recording(inst, pc + WordSize, {}, Event(addr), FALSE), regs)
        BY <2>2, <2>3, <2>4, <2>6 DEF RunsL, GoesOn, Recording
    <2>8. RunsAs(Recording(inst, pc + WordSize, {}, Event(addr), FALSE), regs)
        BY <1>1, <2>7 DEF RunsAs, Recording
    <2> QED BY <2>1, <2>3, <2>8
<1>5. CASE ExecuteS
    <2>1. PICK inst \in Fetched :
             /\ inst.type = "S"
             /\ \E addr \in ResolveAddress(inst.address, regs) :
                   LET w      == Width(inst.op_code)
                       source == regs[inst.rs]
                   IN  /\ Fault(addr, w) = {}
                       /\ UNCHANGED regs
                       /\ Retire(inst, pc + WordSize, {},
                                 <<MemoryEvent("Store", inst, inst.rs, addr,
                                               AsSigned(source, w), source,
                                               {PreviousValue(memory, addr, w)})>>, FALSE)
        BY <1>5 DEF ExecuteS
    <2>2. inst \in SInst
        BY <2>1, FetchedType, InstructionKinds
    <2> DEFINE w        == Width(inst.op_code)
               source   == regs[inst.rs]
               Event(a) == <<MemoryEvent("Store", inst, inst.rs, a, AsSigned(source, w),
                                         source, {PreviousValue(memory, a, w)})>>
    <2>3. PICK addr \in ResolveAddress(inst.address, regs) :
             /\ Fault(addr, w) = {}
             /\ regs' = regs
             /\ Retire(inst, pc + WordSize, {}, Event(addr), FALSE)
        BY <2>1
    <2>4. Event(addr) # <<>> /\ Event(addr)[1].address = addr
        BY DEF MemoryEvent
    <2> HIDE DEF Event, source
    <2>5. Accesses(Recording(inst, pc + WordSize, {}, Event(addr), FALSE), regs)
        BY <2>3, <2>4 DEF Accesses, Recording
    <2>6. RunsS(Recording(inst, pc + WordSize, {}, Event(addr), FALSE), regs)
        BY <2>2, <2>3, <2>5 DEF RunsS, GoesOn, Recording
    <2>7. RunsAs(Recording(inst, pc + WordSize, {}, Event(addr), FALSE), regs)
        BY <1>1, <2>6 DEF RunsAs, Recording
    <2> QED BY <2>1, <2>3, <2>7
<1>6. CASE ExecuteB
    <2>1. PICK inst \in Fetched :
             /\ inst.type = "B"
             /\ \E target \in inst.target :
                   LET taken == BranchTaken(inst.op_code, regs[inst.rs1], regs[inst.rs2])
                   IN  /\ UNCHANGED regs
                       /\ Retire(inst, IF taken THEN target ELSE pc + WordSize,
                                 {taken}, <<>>, FALSE)
        BY <1>6 DEF ExecuteB
    <2>2. inst \in BInst
        BY <2>1, FetchedType, InstructionKinds
    <2> DEFINE taken   == BranchTaken(inst.op_code, regs[inst.rs1], regs[inst.rs2])
               Goes(t) == IF taken THEN t ELSE pc + WordSize
    <2>3. PICK target \in inst.target :
             regs' = regs /\ Retire(inst, Goes(target), {taken}, <<>>, FALSE)
        BY <2>1
    <2>4. RunsB(Recording(inst, Goes(target), {taken}, <<>>, FALSE), regs)
        BY <2>2, <2>3 DEF RunsB, Recording
    <2>5. RunsAs(Recording(inst, Goes(target), {taken}, <<>>, FALSE), regs)
        BY <1>1, <2>4 DEF RunsAs, Recording
    <2> HIDE DEF taken, Goes
    <2> QED BY <2>3, <2>5
<1>7. CASE ExecuteJal
    <2>1. PICK inst \in Fetched : inst.type = "JAL" /\ \E target \in inst.target :
             /\ regs' = SetReg(regs, inst.rd, AsSigned(pc + WordSize, 8))
             /\ Retire(inst, target, {TRUE}, <<>>, FALSE)
        BY <1>7 DEF ExecuteJal
    <2>2. inst \in JalInst
        BY <2>1, FetchedType, InstructionKinds
    <2>3. PICK target \in inst.target :
             /\ regs' = SetReg(regs, inst.rd, AsSigned(pc + WordSize, 8))
             /\ Retire(inst, target, {TRUE}, <<>>, FALSE)
        BY <2>1
    <2>4. RunsJal(Recording(inst, target, {TRUE}, <<>>, FALSE), regs)
        BY <2>2, <2>3 DEF RunsJal, LinksNext, Recording
    <2>5. RunsAs(Recording(inst, target, {TRUE}, <<>>, FALSE), regs)
        BY <1>1, <2>4 DEF RunsAs, Recording
    <2> QED BY <2>3, <2>5
<1>8. CASE ExecuteJalr
    <2>1. PICK inst \in Fetched :
             /\ inst.type = "JALR"
             /\ \E destination \in ResolveAddress(inst.address, regs) :
                   /\ regs' = SetReg(regs, inst.rd, AsSigned(pc + WordSize, 8))
                   /\ Retire(inst, destination, {TRUE}, <<>>,
                             inst.rd = "zero" /\ destination = 0)
        BY <1>8 DEF ExecuteJalr
    <2>2. inst \in JalrInst
        BY <2>1, FetchedType, InstructionKinds
    <2>3. PICK d \in ResolveAddress(inst.address, regs) :
             /\ regs' = SetReg(regs, inst.rd, AsSigned(pc + WordSize, 8))
             /\ Retire(inst, d, {TRUE}, <<>>, inst.rd = "zero" /\ d = 0)
        BY <2>1
    <2> DEFINE ends == inst.rd = "zero" /\ d = 0
    <2>4. RunsJalr(Recording(inst, d, {TRUE}, <<>>, ends), regs)
        BY <2>2, <2>3 DEF RunsJalr, LinksNext, Recording
    <2>5. RunsAs(Recording(inst, d, {TRUE}, <<>>, ends), regs)
        BY <1>1, <2>4 DEF RunsAs, Recording
    <2>6. /\ ends \in BOOLEAN /\ Retire(inst, d, {TRUE}, <<>>, ends)
          /\ ends => d = 0
        BY <2>3
    <2> HIDE DEF ends
    <2> QED BY <2>1, <2>5, <2>6
<1>9. CASE ExceedLimit \/ LeaveCode \/ MemoryFault \/ MissTarget \/ Panic
    <2>1. \A a, w : Fault(a, w) \subseteq Ended \ {"ok"}
        BY DEF Fault, Ended, Errors, MemFaults
    <2>2. status = "running"
        BY <1>9 DEF ExceedLimit, LeaveCode, MemoryFault, MissTarget, Panic, Fetched
    <2>3. \E outcome \in Ended \ {"ok"} : Stop(outcome)
        BY <1>9, <2>1 DEF ExceedLimit, LeaveCode, MemoryFault, MissTarget, Panic,
                          Ended, Errors
    <2> QED BY <2>2, <2>3
<1> QED BY <1>2, <1>3, <1>4, <1>5, <1>6, <1>7, <1>8, <1>9 DEF Iterate

-----------------------------------------------------------------------------
\* What one more recorded state adds to the history.
LEMMA RetireHistory ==
    ASSUME TypeOK, TypeOK', SnapshotsMatchMachine, HistoryRuns, NEW inst \in Fetched,
           NEW next_pc, NEW branch_taken, NEW events, NEW terminated \in BOOLEAN,
           Retire(inst, next_pc, branch_taken, events, terminated),
           RunsAs(Recording(inst, next_pc, branch_taken, events, terminated), regs)
    PROVE  HistoryRuns'
<1> DEFINE n == Len(States)
<1>1. PICK j \in job : inst \in InstructionAt(j.code, pc)
    BY DEF Fetched
<1>2. job = {j} /\ job' = job
    BY <1>1 DEF TypeOK, Option, Retire
<1>3. inst \in InstructionAt(j.code, pc)
    BY <1>1
<1>4. /\ n \in Nat /\ n >= 1 /\ n = steps + 1
      /\ States[n].reg_file = regs /\ States[n].next_pc = pc
    BY <1>1 DEF SnapshotsMatchMachine, LastState, TypeOK
<1>5. /\ Len(States') = n + 1
      /\ States'[n + 1] = Recording(inst, next_pc, branch_taken, events, terminated)
      /\ \A k \in 1 .. n : States'[k] = States[k]
    BY RetireStates DEF LastState, Recording
<1> SUFFICES ASSUME NEW k \in Recorded'
             PROVE  /\ States'[k].pc = States'[k - 1].next_pc
                    /\ \A i \in job' : States'[k].instr \in InstructionAt(i.code, States'[k].pc)
                    /\ RunsAs(States'[k], States'[k - 1].reg_file)
    BY DEF HistoryRuns, IsLinked, Before
<1> HIDE DEF n
<1>6. k \in 2 .. n + 1 /\ k - 1 \in 1 .. n /\ States'[k - 1] = States[k - 1]
    BY <1>4, <1>5 DEF Recorded
<1>7. CASE k = n + 1
    <2>1. States'[k] = Recording(inst, next_pc, branch_taken, events, terminated)
        BY <1>5, <1>7
    <2>2. States'[k].pc = pc /\ States'[k].instr = inst
        BY <2>1 DEF Recording
    <2>3. States'[k - 1] = States[n]
        BY <1>4, <1>6, <1>7
    <2> QED BY <1>2, <1>3, <1>4, <2>1, <2>2, <2>3
<1>8. CASE k # n + 1
    <2>1. k \in Recorded /\ States'[k] = States[k]
        BY <1>4, <1>5, <1>6, <1>8 DEF Recorded, n
    <2> QED BY <1>2, <1>6, <2>1 DEF HistoryRuns, IsLinked, Before
<1> QED BY <1>7, <1>8

LEMMA StepsKeepHistory == Steps => []HistoryRuns
<1>1. Init => HistoryRuns
    <2> SUFFICES ASSUME Init PROVE Recorded = {}
        BY DEF HistoryRuns
    <2>1. Len(States) = 0
        BY DEF Init, EmptyTrace, States
    <2> QED BY <2>1 DEF Recorded
<1>2. TypeOK /\ TypeOK' /\ SnapshotsMatchMachine /\ HistoryRuns /\ [Next]_vars
         => HistoryRuns'
    <2> SUFFICES ASSUME TypeOK, TypeOK', SnapshotsMatchMachine, HistoryRuns, [Next]_vars
                 PROVE  HistoryRuns'
        OBVIOUS
    <2>1. CASE UNCHANGED <<trace, job>>
        BY <2>1 DEF HistoryRuns, Recorded, IsLinked, Before, States
    <2>2. CASE Iterate
        <3>1. CASE \E outcome : Stop(outcome)
            BY <2>1, <3>1 DEF Stop
        <3> QED BY <2>2, <3>1, IterateRuns, RetireHistory
    <2>3. CASE \E j \in Jobs : Execute(j)
        <3>1. Len(States') = 1
            BY <2>3 DEF Execute, States, AddState, EmptyTrace
        <3>2. Recorded' = {}
            BY <3>1 DEF Recorded
        <3> QED BY <3>2 DEF HistoryRuns
    <2> QED BY <2>1, <2>2, <2>3 DEF Next, vars
<1> QED BY <1>1, <1>2, StepsAreTyped, StepsKeepSnapshots, PTL DEF Steps

(* Every recorded state is what running its instruction with the registers *)
(* before it gives, at the place the state before it pointed to (execute). *)
THEOREM HistoryCorrect == Spec => []HistoryRuns
BY StepsKeepHistory, PTL DEF Spec, Steps

-----------------------------------------------------------------------------
(* Control.  An unsigned comparison of two i64 values is one of their      *)
(* signs first, and a sum that wrapped is off by a multiple of 2^64.       *)
LEMMA DecisionIsRight ==
    ASSUME NEW op \in BOpCode, NEW l \in I64, NEW r \in I64
    PROVE  BranchTaken(op, l, r) = Decision(op, l, r)
<1> DEFINE m == Modulus(8)
<1>1. m \in Nat \ {0} /\ l \in Int /\ r \in Int
    BY Bounds
<1>2. -m <= 2 * l /\ 2 * l < m /\ -m <= 2 * r /\ 2 * r < m
    BY Bounds
<1>3. /\ AsUnsigned(l, 8) = IF l < 0 THEN l + m ELSE l
      /\ AsUnsigned(r, 8) = IF r < 0 THEN r + m ELSE r
    BY UnsignedOfI64
<1> HIDE DEF m
<1>4. (AsUnsigned(l, 8) < AsUnsigned(r, 8)) = Below(l, r)
    BY <1>1, <1>2, <1>3 DEF Below
<1>5. (AsUnsigned(l, 8) >= AsUnsigned(r, 8)) = ~Below(l, r)
    BY <1>1, <1>2, <1>3 DEF Below
<1>6. (l >= r) = ~(l < r) /\ (l # r) = ~(l = r)
    BY <1>1
<1>7. CASE op = "BEQ"
    BY <1>7, Zenon DEF BranchTaken, Decision
<1>8. CASE op = "BNE"
    BY <1>6, <1>8 DEF BranchTaken, Decision
<1>9. CASE op = "BLT"
    BY <1>9 DEF BranchTaken, Decision
<1>10. CASE op = "BGE"
    BY <1>6, <1>10 DEF BranchTaken, Decision
<1>11. CASE op = "BLTU"
    BY <1>4, <1>11 DEF BranchTaken, Decision
<1>12. CASE op = "BGEU"
    BY <1>5, <1>12 DEF BranchTaken, Decision
<1> QED BY <1>7, <1>8, <1>9, <1>10, <1>11, <1>12 DEF BOpCode

LEMMA ArithIsCongruent ==
    ASSUME NEW x \in Int, NEW y \in Arith(x)
    PROVE  /\ y \in I64 /\ y \in Int
           /\ \E n \in Int : y = x + n * Modulus(8)
           /\ x \in I64 => y = x
<1>1. y \in I64 /\ y \in Int
    BY ArithType, Bounds
<1>2. y = x \/ y = AsSigned(x, 8)
    BY DEF Arith
<1>3. x = x + 0 * Modulus(8)
    BY Bounds
<1>4. \E n \in Int : y = x + n * Modulus(8)
    BY <1>2, <1>3, CastsAreCongruent DEF Widths
<1> QED BY <1>1, <1>4 DEF Arith

\* An address is the exact sum, but for a multiple of 2^64.
LEMMA AddressIsCongruent ==
    ASSUME NEW ref \in MemoryRef, NEW rf \in [Reg -> I64],
           NEW addr \in ResolveAddress(ref, rf), NEW exact,
           exact = rf[ref.register] + ref.offset
    PROVE  /\ addr \in U64 /\ addr \in Nat
           /\ exact \in Int
           /\ \E n \in Int : addr = exact + n * Modulus(8)
           /\ exact \in I64 /\ exact >= 0 => addr = exact
<1> DEFINE m == Modulus(8)
<1>1. /\ rf[ref.register] \in Int /\ ref.offset \in Int
      /\ m \in Nat \ {0}
    BY Bounds DEF MemoryRef, I32, Signed
<1>2. exact \in Int
    BY <1>1
<1>3. PICK x \in Arith(exact) : addr = AsUnsigned(x, 8)
    BY DEF ResolveAddress
<1>4. PICK n \in Int : x = exact + n * m
    BY <1>2, ArithIsCongruent
<1>5. x \in I64 /\ x \in Int
    BY <1>2, ArithIsCongruent
<1>6. PICK k \in Int : addr = x + k * m
    BY <1>3, <1>5, CastsAreCongruent DEF Widths
<1>7. addr \in U64 /\ addr \in Nat
    BY ResolveAddressType, Bounds
<1>8. ASSUME exact \in I64, exact >= 0 PROVE addr = exact
    <2>1. x = exact
        BY <1>2, <1>8, ArithIsCongruent
    <2> QED BY <1>2, <1>3, <1>8, <2>1, UnsignedOfI64
<1> HIDE DEF m
<1>9. n + k \in Int /\ addr = exact + (n + k) * m
    BY <1>1, <1>2, <1>4, <1>6
<1> QED BY <1>2, <1>7, <1>8, <1>9 DEF m

LEMMA TransferFromStep ==
    ASSUME NEW s, NEW rf, RunsAs(s, rf)
    PROVE  TransferIsExplained(s, rf)
<1>1. rf \in [Reg -> I64]
    BY DEF RunsAs
<1>2. ASSUME GoesOn(s), s.instr.type \notin {"B", "JAL", "JALR"}
      PROVE  TransferIsExplained(s, rf)
    BY <1>2 DEF GoesOn, TransferIsExplained
<1>3. CASE RunsR(s, rf) \/ RunsI(s, rf) \/ RunsL(s, rf) \/ RunsS(s, rf)
    BY <1>2, <1>3, KindTypes DEF RunsR, RunsI, RunsL, RunsS
<1>4. CASE RunsB(s, rf)
    <2>1. s.instr.type = "B"
        BY <1>4, KindTypes DEF RunsB
    <2>2. s.instr.op_code \in BOpCode /\ s.instr.rs1 \in Reg /\ s.instr.rs2 \in Reg
        BY <1>4 DEF RunsB, BInst
    <2> DEFINE taken == BranchTaken(s.instr.op_code, rf[s.instr.rs1], rf[s.instr.rs2])
    <2>3. taken = Decision(s.instr.op_code, rf[s.instr.rs1], rf[s.instr.rs2])
        BY <1>1, <2>2, DecisionIsRight
    <2>4. taken \in BOOLEAN
        BY <2>2, BranchTakenType
    <2>5. PICK target \in s.instr.target :
             s.branch_taken = {taken} /\ s.next_pc = IF taken THEN target ELSE s.pc + WordSize
        BY <1>4 DEF RunsB
    <2> HIDE DEF taken
    <2>6. s.next_pc \in IF TRUE \in s.branch_taken THEN s.instr.target ELSE {s.pc + WordSize}
        <3>1. CASE taken
            <4>1. TRUE \in s.branch_taken /\ s.next_pc \in s.instr.target
                BY <2>4, <2>5, <3>1
            <4> QED BY <4>1
        <3>2. CASE ~taken
            <4>1. TRUE \notin s.branch_taken /\ s.next_pc = s.pc + WordSize
                BY <2>4, <2>5, <3>2
            <4> QED BY <4>1
        <3> QED BY <3>1, <3>2
    <2> QED BY <2>1, <2>3, <2>5, <2>6 DEF TransferIsExplained
<1>5. CASE RunsJal(s, rf)
    BY <1>5, KindTypes DEF RunsJal, TransferIsExplained
<1>6. CASE RunsJalr(s, rf)
    <2>1. s.instr.type = "JALR" /\ s.instr.address \in MemoryRef
        BY <1>6, KindTypes DEF RunsJalr, JalrInst
    <2> DEFINE base  == rf[s.instr.address.register]
               off   == s.instr.address.offset
               m     == Modulus(8)
    <2>2. base \in Int /\ off \in Int /\ m \in Nat \ {0}
        BY <1>1, <2>1, Bounds DEF MemoryRef, I32, Signed
    <2>3. s.next_pc \in ResolveAddress(s.instr.address, rf)
        BY <1>6 DEF RunsJalr
    <2>4. s.next_pc \in Nat /\ \E n \in Int : s.next_pc = (base + off) + n * m
        BY <1>1, <2>1, <2>3, AddressIsCongruent
    <2>5. s.branch_taken = {TRUE}
        BY <1>6 DEF RunsJalr
    <2> HIDE DEF base, off, m
    <2>6. PICK n \in Int : s.next_pc = (base + off) + n * m
        BY <2>4
    <2>7. n * m \in Int
        BY <2>2
    <2>8. s.next_pc - base - off = n * m
        BY <2>2, <2>4, <2>6, <2>7
    <2>9. (s.next_pc - base - off) % m = 0
        BY <2>2, <2>8, MultipleMod
    <2> QED BY <2>1, <2>5, <2>9 DEF TransferIsExplained, base, off, m
<1> QED BY <1>3, <1>4, <1>5, <1>6 DEF RunsAs

LEMMA HistoryExplainsControl == HistoryRuns => ControlTransfersAreExplained
<1> SUFFICES ASSUME HistoryRuns, NEW k \in Recorded
             PROVE  /\ States[k].pc = States[k - 1].next_pc
                    /\ \A j \in job : States[k].instr = j.code[States[k].pc \div WordSize + 1]
                    /\ TransferIsExplained(States[k], Before(k))
    BY DEF ControlTransfersAreExplained
<1>1. IsLinked(k) /\ RunsAs(States[k], Before(k))
    BY DEF HistoryRuns
<1> QED BY <1>1, TransferFromStep DEF IsLinked, InstructionAt

(* Every recorded transfer of control is the one the program text asks for *)
(* (execute, execute_b, execute_j).                                        *)
THEOREM ControlExplained == Spec => []ControlTransfersAreExplained
BY HistoryExplainsControl, HistoryCorrect, PTL

\* What a caller that knows the program can tell of the steps: state s runs an
\* instruction of code, and state t the one that s went on to.
RunsIn(code, s) ==
    /\ s.pc \in Nat /\ s.pc % WordSize = 0 /\ s.pc \div WordSize < Len(code)
    /\ s.instr = code[s.pc \div WordSize + 1]

GoesOnTo(s, t) ==
    \/ s.instr.type = "B" /\ s.branch_taken = {TRUE} /\ t.pc \in s.instr.target
    \/ s.instr.type = "B" /\ s.branch_taken = {FALSE} /\ t.pc = s.pc + WordSize
    \/ s.instr.type = "JAL" /\ t.pc \in s.instr.target
    \/ s.instr.type = "JALR" /\ t.pc = s.next_pc
    \/ s.instr.type \in {"R", "I", "L", "S"} /\ s.branch_taken = {} /\ t.pc = s.pc + WordSize

LEMMA StepsInCode ==
    ASSUME HistoryRuns, NEW j \in job
    PROVE  /\ \A k \in 2 .. Len(States) : RunsIn(j.code, States[k])
           /\ \A k \in 3 .. Len(States) : GoesOnTo(States[k - 1], States[k])
<1>1. ASSUME NEW k \in 2 .. Len(States)
      PROVE  RunsIn(j.code, States[k])
    <2>1. IsLinked(k) /\ RunsAs(States[k], Before(k))
        BY DEF HistoryRuns, Recorded
    <2> QED BY <2>1 DEF IsLinked, RunsAs, RunsIn, InstructionAt
<1>2. ASSUME NEW k \in 3 .. Len(States)
      PROVE  GoesOnTo(States[k - 1], States[k])
    <2> DEFINE s == States[k - 1]
               t == States[k]
               rf == Before(k - 1)
    <2>1. k - 1 \in Recorded /\ k \in Recorded
        BY DEF Recorded
    <2>2. RunsAs(s, rf) /\ t.pc = s.next_pc
        BY <2>1 DEF HistoryRuns, IsLinked
    <2> HIDE DEF s, t, rf
    <2>3. ASSUME RunsB(s, rf)
          PROVE  GoesOnTo(s, t)
        <3>1. s.instr.type = "B" /\ s.instr.op_code \in BOpCode
            BY <2>3, KindTypes DEF RunsB, BInst
        <3> DEFINE taken == BranchTaken(s.instr.op_code, rf[s.instr.rs1], rf[s.instr.rs2])
        <3>2. taken \in BOOLEAN
            BY <3>1, BranchTakenType
        <3>3. PICK target \in s.instr.target :
                 s.branch_taken = {taken} /\ s.next_pc = IF taken THEN target ELSE s.pc + WordSize
            BY <2>3 DEF RunsB
        <3> HIDE DEF taken
        <3>4. taken = TRUE \/ taken = FALSE
            BY <3>2, Zenon
        <3>5. CASE taken = TRUE
            BY <2>2, <3>1, <3>3, <3>5 DEF GoesOnTo
        <3>6. CASE taken = FALSE
            BY <2>2, <3>1, <3>3, <3>6 DEF GoesOnTo
        <3> QED BY <3>4, <3>5, <3>6
    <2>4. ASSUME RunsJal(s, rf)
          PROVE  GoesOnTo(s, t)
        BY <2>2, <2>4, KindTypes DEF RunsJal, GoesOnTo
    <2>5. ASSUME RunsJalr(s, rf)
          PROVE  GoesOnTo(s, t)
        <3>1. s.instr \in JalrInst /\ t.pc = s.next_pc
            BY <2>2, <2>5 DEF RunsJalr
        <3> QED BY <3>1, KindTypes DEF GoesOnTo
    <2>6. ASSUME RunsR(s, rf) \/ RunsI(s, rf) \/ RunsL(s, rf) \/ RunsS(s, rf)
          PROVE  GoesOnTo(s, t)
        <3>1. s.instr.type \in {"R", "I", "L", "S"}
            BY <2>6, KindTypes DEF RunsR, RunsI, RunsL, RunsS
        <3>2. s.branch_taken = {} /\ s.next_pc = s.pc + WordSize
            BY <2>6 DEF RunsR, RunsI, RunsL, RunsS, GoesOn
        <3> QED BY <2>2, <3>1, <3>2 DEF GoesOnTo
    <2> QED BY <2>2, <2>3, <2>4, <2>5, <2>6 DEF RunsAs, s, t
<1> QED BY <1>1, <1>2

-----------------------------------------------------------------------------
(* Destinations.  RegFile::set writes one register, and none when it is    *)
(* register zero.                                                          *)
LEMMA WrittenRegister ==
    ASSUME NEW inst, inst.type \in {"R", "I", "L", "JAL", "JALR"}, inst.rd \in Reg,
           NEW rf \in [Reg -> I64], NEW value
    PROVE  /\ \A r \in Reg \ WrittenBy(inst) : SetReg(rf, inst.rd, value)[r] = rf[r]
           /\ \A r \in WrittenBy(inst) : SetReg(rf, inst.rd, value)[r] = value
<1>1. WrittenBy(inst) = {inst.rd} \ {"zero"}
    BY DEF WrittenBy
<1>2. CASE inst.rd = "zero"
    BY <1>1, <1>2 DEF SetReg
<1>3. CASE inst.rd # "zero"
    BY <1>1, <1>3 DEF SetReg
<1> QED BY <1>2, <1>3

LEMMA DestinationTypes ==
    ASSUME NEW s, NEW rf, RunsAs(s, rf)
    PROVE  /\ s.instr.type \in {"R", "I", "L", "JAL", "JALR"} => s.instr.rd \in Reg
           /\ s.instr.type \in {"R", "I", "L", "S", "B", "JAL", "JALR"}
BY KindTypes DEF RunsAs, RunsR, RunsI, RunsL, RunsS, RunsB, RunsJal, RunsJalr,
                 RInst, IInst, LInst, JalInst, JalrInst

\* A difference by a multiple of the modulus leaves no remainder.
LEMMA CongruentBy ==
    ASSUME NEW x \in Int, NEW y, NEW n \in Int, y = x + n * Modulus(8)
    PROVE  Congruent(y, x) /\ y \in Int
<1>1. y \in Int
    BY Bounds
<1>2. (y - x) % Modulus(8) = 0
    BY DifferenceMod DEF Widths
<1> QED BY <1>1, <1>2 DEF Congruent

DestinationOnly(s, rf) ==
    /\ \A r \in Reg \ WrittenBy(s.instr) : s.reg_file[r] = rf[r]
    /\ s.instr.type \in {"JAL", "JALR"} =>
          \A r \in WrittenBy(s.instr) :
              (s.reg_file[r] - s.pc - WordSize) % Modulus(8) = 0

LEMMA DestinationFromStep ==
    ASSUME NEW s, NEW rf, RunsAs(s, rf)
    PROVE  DestinationOnly(s, rf)
<1>1. rf \in [Reg -> I64]
    BY DEF RunsAs
<1>2. CASE RunsS(s, rf) \/ RunsB(s, rf)
    <2>1. s.reg_file = rf /\ s.instr.type \in {"S", "B"}
        BY <1>2, KindTypes DEF RunsS, RunsB
    <2> QED BY <2>1 DEF DestinationOnly
<1>3. CASE RunsR(s, rf) \/ RunsI(s, rf) \/ RunsL(s, rf)
    <2>1. s.instr.type \in {"R", "I", "L"}
        BY <1>3, KindTypes DEF RunsR, RunsI, RunsL
    <2>2. PICK value : s.reg_file = SetReg(rf, s.instr.rd, value)
        BY <1>3 DEF RunsR, RunsI, RunsL
    <2>3. s.instr.type \in {"R", "I", "L", "JAL", "JALR"} /\ s.instr.rd \in Reg
        BY <2>1, DestinationTypes
    <2>4. \A r \in Reg \ WrittenBy(s.instr) : s.reg_file[r] = rf[r]
        BY <1>1, <2>2, <2>3, WrittenRegister
    <2> QED BY <2>1, <2>4 DEF DestinationOnly
<1>4. CASE RunsJal(s, rf) \/ RunsJalr(s, rf)
    <2>1. s.instr.type \in {"R", "I", "L", "JAL", "JALR"} /\ s.instr.rd \in Reg
        BY <1>4, KindTypes, DestinationTypes DEF RunsJal, RunsJalr
    <2>2. PICK link : /\ link = AsSigned(s.pc + WordSize, 8)
                      /\ s.reg_file = SetReg(rf, s.instr.rd, link)
        BY <1>4 DEF RunsJal, RunsJalr, LinksNext
    <2>3. /\ \A r \in Reg \ WrittenBy(s.instr) : s.reg_file[r] = rf[r]
          /\ \A r \in WrittenBy(s.instr) : s.reg_file[r] = link
        <3>1. s.reg_file = SetReg(rf, s.instr.rd, link)
            BY <2>2
        <3>2. \A r \in Reg \ WrittenBy(s.instr) : s.reg_file[r] = rf[r]
            BY <1>1, <2>1, <3>1, WrittenRegister
        <3>3. \A r \in WrittenBy(s.instr) : s.reg_file[r] = link
            BY <1>1, <2>1, <3>1, WrittenRegister
        <3> QED BY <3>2, <3>3
    <2>4. (link - s.pc - WordSize) % Modulus(8) = 0
        <3>1. s.pc \in Int /\ s.pc + WordSize \in Int
            BY DEF RunsAs, WordSize
        <3>2. \E n \in Int : link = (s.pc + WordSize) + n * Modulus(8)
            BY <2>2, <3>1, CastsAreCongruent DEF Widths
        <3>3. Congruent(link, s.pc + WordSize) /\ link \in Int
            BY <3>1, <3>2, CongruentBy
        <3>4. link - (s.pc + WordSize) = link - s.pc - WordSize
            BY <3>1, <3>3 DEF WordSize
        <3> QED BY <3>3, <3>4 DEF Congruent
    <2> QED BY <2>3, <2>4 DEF DestinationOnly
<1> QED BY <1>2, <1>3, <1>4 DEF RunsAs

(* A step writes at most the register its instruction names, never         *)
(* register zero, and a call leaves the address after it there             *)
(* (RegFile::set, the execute_* methods).                                  *)
THEOREM DestinationsCorrect == Spec => []OnlyDestinationChanges
<1>1. HistoryRuns => OnlyDestinationChanges
    BY DestinationFromStep DEF HistoryRuns, DestinationOnly, OnlyDestinationChanges
<1> QED BY <1>1, HistoryCorrect, PTL

-----------------------------------------------------------------------------
(* Arithmetic.  A quotient of magnitudes with the sign put back rounds     *)
(* toward zero.                                                            *)
LEMMA QuotientRounds ==
    ASSUME NEW l \in Int, NEW r \in Int, r # 0, NEW value \in Quotient(l, r)
    PROVE  RoundsTowardZero(value, l, r)
<1> DEFINE a == Magnitude(l)
           b == Magnitude(r)
           q == a \div b
           d == a % b
<1>1. a \in Nat /\ b \in Nat \ {0}
    BY DEF Magnitude
<1>2. (l < 0 => l = -a) /\ (l >= 0 => l = a) /\ (r < 0 => r = -b) /\ (r > 0 => r = b)
    BY DEF Magnitude
<1>3. /\ (l < 0) = (r < 0) => value = q
      /\ (l < 0) # (r < 0) => value = -q
    BY DEF Quotient
<1> HIDE DEF a, b
<1>4. q \in Int /\ d \in 0 .. b - 1 /\ d = a - b * q
    BY <1>1, DivisionSplits
<1> HIDE DEF q, d
<1> DEFINE p    == b * q
           rest == l - value * r
<1>5. p \in Int /\ value * r = IF l < 0 THEN -p ELSE p
    <2>1. p \in Int /\ q * r = (IF r < 0 THEN -p ELSE p) /\ (-q) * r = (IF r < 0 THEN p ELSE -p)
        BY <1>1, <1>2, <1>4
    <2> HIDE DEF p
    <2>2. CASE (l < 0) = (r < 0)
        BY <1>3, <2>1, <2>2
    <2>3. CASE (l < 0) # (r < 0)
        BY <1>3, <2>1, <2>3
    <2> QED BY <2>1, <2>2, <2>3
<1>6. rest = IF l < 0 THEN -d ELSE d
    BY <1>1, <1>2, <1>4, <1>5
<1>7. Magnitude(rest) = d
    BY <1>4, <1>6 DEF Magnitude
<1>8. d < b /\ (rest = 0 \/ (rest < 0) = (l < 0))
    BY <1>1, <1>4, <1>6
<1> HIDE DEF p, rest
<1> QED BY <1>7, <1>8 DEF RoundsTowardZero, b, rest

\* What the operators of Isa.tla return is right.
LEMMA ShiftIsCongruent ==
    ASSUME NEW l \in I64, NEW r \in I64, NEW value \in ShiftLeft(l, r)
    PROVE  Congruent(value, l * Pow2[r % RegBits])
<1>1. RegBits \in Nat \ {0} /\ l \in Int /\ r \in Int
    BY WordsAssumption, Bounds DEF RegBits
<1>2. r % RegBits \in 0 .. RegBits
    BY <1>1
<1>3. Pow2[r % RegBits] \in Nat
    BY <1>2, WordsAssumption
<1> DEFINE x == l * Pow2[r % RegBits]
<1>4. x \in Int
    BY <1>1, <1>3
<1>5. value = AsSigned(x, 8)
    BY DEF ShiftLeft
<1> HIDE DEF x
<1>6. \E n \in Int : value = x + n * Modulus(8)
    BY <1>4, <1>5, CastsAreCongruent DEF Widths
<1> QED BY <1>4, <1>6, CongruentBy DEF x

LEMMA ArithCongruent ==
    ASSUME NEW x \in Int, NEW value \in Arith(x)
    PROVE  Congruent(value, x)
<1>1. \E n \in Int : value = x + n * Modulus(8)
    BY ArithIsCongruent
<1> QED BY <1>1, CongruentBy

ValueIsRight(op_code, l, r, value) ==
    CASE op_code = "ADD" -> Congruent(value, l + r)
      [] op_code = "SUB" -> Congruent(value, l - r)
      [] op_code = "MUL" -> Congruent(value, l * r)
      [] op_code = "SLL" -> Congruent(value, l * Pow2[r % RegBits])
      [] op_code = "DIV" -> RoundsTowardZero(value, l, r)

LEMMA RValueIsRight ==
    ASSUME NEW op \in ROpCode, NEW l \in I64, NEW r \in I64,
           NEW value \in RValue(op, l, r)
    PROVE  ValueIsRight(op, l, r, value)
<1>1. l \in Int /\ r \in Int
    BY Bounds
<1>2. l + r \in Int /\ l - r \in Int /\ l * r \in Int
    BY <1>1
<1>3. CASE op = "ADD"
    BY <1>2, <1>3, ArithCongruent DEF RValue, ValueIsRight
<1>4. CASE op = "SUB"
    BY <1>2, <1>4, ArithCongruent DEF RValue, ValueIsRight
<1>5. CASE op = "MUL"
    BY <1>2, <1>5, ArithCongruent DEF RValue, ValueIsRight
<1>6. CASE op = "SLL"
    BY <1>6, ShiftIsCongruent DEF RValue, ValueIsRight
<1>7. CASE op = "DIV"
    <2>1. r # 0 /\ value \in Quotient(l, r)
        BY <1>7 DEF RValue, Div
    <2>2. RoundsTowardZero(value, l, r)
        BY <1>1, <2>1, QuotientRounds
    <2> QED BY <1>7, <2>2 DEF ValueIsRight
<1> QED BY <1>3, <1>4, <1>5, <1>6, <1>7 DEF ROpCode

\* The register that an operation leaves its result in holds that result.
LEMMA ResultInRegister ==
    ASSUME NEW s, NEW rf, RunsAs(s, rf), NEW r \in WrittenBy(s.instr)
    PROVE  /\ RunsR(s, rf) =>
                s.reg_file[r] \in RValue(s.instr.op_code, rf[s.instr.rs1], rf[s.instr.rs2])
           /\ RunsI(s, rf) => s.reg_file[r] \in Arith(rf[s.instr.rs] + s.instr.imm)
<1>1. rf \in [Reg -> I64]
    BY DEF RunsAs
<1>2. s.instr.type \in {"R", "I", "L", "JAL", "JALR"}
    BY DEF WrittenBy
<1>3. s.instr.rd \in Reg /\ r = s.instr.rd /\ r # "zero"
    BY <1>2, DestinationTypes DEF WrittenBy
<1>4. ASSUME NEW value, s.reg_file = SetReg(rf, s.instr.rd, value)
      PROVE  s.reg_file[r] = value
    <2>1. SetReg(rf, r, value)[r] = value
        BY <1>1, <1>3 DEF SetReg
    <2> QED BY <1>3, <1>4, <2>1
<1> QED BY <1>4 DEF RunsR, RunsI

LEMMA ArithmeticFromStep ==
    ASSUME NEW s, NEW rf, RunsAs(s, rf), s.instr.type \in {"R", "I"},
           NEW r \in WrittenBy(s.instr)
    PROVE  ResultIsRight(s.instr, rf, s.reg_file[r])
<1>1. rf \in [Reg -> I64]
    BY DEF RunsAs
<1> DEFINE value == s.reg_file[r]
<1>2. CASE RunsR(s, rf)
    <2>1. value \in RValue(s.instr.op_code, rf[s.instr.rs1], rf[s.instr.rs2])
        BY <1>2, ResultInRegister
    <2>2. /\ s.instr.op_code \in ROpCode /\ s.instr.type = "R"
          /\ rf[s.instr.rs1] \in I64 /\ rf[s.instr.rs2] \in I64
        BY <1>1, <1>2, KindTypes DEF RunsR, RInst
    <2>3. ValueIsRight(s.instr.op_code, rf[s.instr.rs1], rf[s.instr.rs2], value)
        BY <2>1, <2>2, RValueIsRight
    <2> QED BY <2>2, <2>3 DEF ResultIsRight, ValueIsRight
<1>3. CASE RunsI(s, rf)
    <2>1. value \in Arith(rf[s.instr.rs] + s.instr.imm)
        BY <1>3, ResultInRegister
    <2>2. s.instr.type = "I" /\ rf[s.instr.rs] + s.instr.imm \in Int
        BY <1>1, <1>3, KindTypes, Bounds DEF RunsI, IInst, I32, Signed
    <2>3. Congruent(value, rf[s.instr.rs] + s.instr.imm)
        BY <2>1, <2>2, ArithCongruent
    <2> QED BY <2>2, <2>3 DEF ResultIsRight
<1>4. CASE ~RunsR(s, rf) /\ ~RunsI(s, rf)
    BY <1>4, KindTypes DEF RunsAs, RunsL, RunsS, RunsB, RunsJal, RunsJalr
<1> QED BY <1>2, <1>3, <1>4

(* Arithmetic that completes is right modulo 2^64 in either build, and a   *)
(* quotient rounds toward zero (execute_r, execute_i).                     *)
THEOREM ArithmeticCorrect == Spec => []ArithmeticIsRight
<1>1. HistoryRuns => ArithmeticIsRight
    BY ArithmeticFromStep DEF HistoryRuns, ArithmeticIsRight
<1> QED BY <1>1, HistoryCorrect, PTL

-----------------------------------------------------------------------------
(* Outcomes.  What is said of status in CauseOf, of any outcome.           *)
CauseIs(outcome, j) ==
    CASE outcome = "ok" ->
           LastState.next_pc = 0 /\ LastState.instr.type = "JALR"
      [] outcome = "MaxStepsExceeded" ->
           Len(States) = j.limit + 1
      [] outcome = "InvalidPc" ->
           ~InCode(j, LastState.next_pc)
      [] outcome = "UnresolvedTarget" ->
           \E inst \in Stuck(j) : inst.type \in {"B", "JAL"} /\ inst.target = {}
      [] outcome = "MisalignedMemory" ->
           \E inst \in Stuck(j) : /\ inst.type \in {"L", "S"}
                                  /\ Exact(inst) % Width(inst.op_code) # 0
      [] outcome = "InvalidMemAddr" ->
           \E inst \in Stuck(j) :
              /\ inst.type \in {"L", "S"}
              /\ Exact(inst) % Width(inst.op_code) = 0
              /\ ~(Span(Exact(inst), Width(inst.op_code)) \subseteq Window)
      [] OTHER -> TRUE

IsExplained(outcome, j) ==
    /\ CauseIs(outcome, j)
    /\ outcome \in Ended \ {"ok", "MaxStepsExceeded"} => Len(States) <= j.limit

\* The instruction that is fetched is the one at the pc of the last state.
LEMMA FetchedIsStuck ==
    ASSUME TypeOK, SnapshotsMatchMachine, NEW inst \in Fetched, NEW j \in job
    PROVE  /\ inst \in Stuck(j)
           /\ LastState.reg_file = regs
           /\ Len(States) <= j.limit
<1>1. ~LimitReached(j) /\ inst \in InstructionAt(j.code, pc)
    BY DEF Fetched, TypeOK, Option
<1>2. j \in JobType
    BY JobsAssumption DEF TypeOK, Option
<1>3. j.code \in Seq(Instruction) /\ Len(j.code) \in Nat /\ j.limit \in Nat
    BY <1>2 DEF JobType
<1>4. pc \in Nat /\ steps \in Nat
    BY Bounds DEF TypeOK
<1>5. /\ pc % WordSize = 0 /\ pc \div WordSize < Len(j.code)
      /\ inst = j.code[pc \div WordSize + 1]
    BY <1>1 DEF InstructionAt
<1> DEFINE i == pc \div WordSize + 1
<1>6. i \in 1 .. Len(j.code) /\ pc = WordSize * (i - 1)
    BY <1>3, <1>4, <1>5 DEF WordSize
<1>7. /\ LastState.next_pc = pc /\ LastState.reg_file = regs
      /\ Len(States) = steps + 1
    BY DEF SnapshotsMatchMachine
<1>8. Len(States) <= j.limit
    BY <1>1, <1>3, <1>4, <1>7 DEF LimitReached
<1>9. inst \in Stuck(j)
    <2> HIDE DEF i
    <2>1. i \in DOMAIN j.code /\ LastState.next_pc = WordSize * (i - 1)
        BY <1>3, <1>6, <1>7
    <2> QED BY <1>5, <2>1 DEF Stuck, i
<1> QED BY <1>7, <1>8, <1>9

\* A fault is one of the address before it is cut to 64 bits.
LEMMA FaultOfExact ==
    ASSUME NEW ref \in MemoryRef, NEW rf \in [Reg -> I64],
           NEW addr \in ResolveAddress(ref, rf), NEW w \in Widths,
           NEW err \in Fault(addr, w), NEW exact,
           exact = rf[ref.register] + ref.offset
    PROVE  /\ err \in MemFaults
           /\ err = "MisalignedMemory" => exact % w # 0
           /\ err = "InvalidMemAddr" =>
                exact % w = 0 /\ ~(Span(exact, w) \subseteq Window)
<1>1. /\ addr \in Nat /\ exact \in Int
      /\ exact \in I64 /\ exact >= 0 => addr = exact
      /\ \E n \in Int : addr = exact + n * Modulus(8)
    BY AddressIsCongruent
<1>2. addr % w = exact % w
    BY <1>1, CastKeepsAlignment
<1>3. w \in 1 .. 8
    BY DEF Widths
<1>4. CASE Misaligned(addr, w)
    BY <1>2, <1>4 DEF Fault, Misaligned, MemFaults
<1>5. CASE ~Misaligned(addr, w)
    <2>1. OutsideWindow(addr, w) /\ err = "InvalidMemAddr"
        BY <1>5 DEF Fault
    <2>2. exact % w = 0
        BY <1>2, <1>5 DEF Misaligned
    <2>3. ASSUME Span(exact, w) \subseteq Window PROVE FALSE
        <3>1. exact \in Span(exact, w)
            BY <1>1, <1>3 DEF Span
        <3>2. StackBase <= exact /\ exact < StackTop
            BY <1>1, <2>3, <3>1, MemoryAssumption DEF Window, StackTop
        <3>3. exact \in I64 /\ exact >= 0
            BY <1>1, <3>2, MemoryAssumption, Bounds DEF StackTop
        <3>4. addr = exact
            BY <1>1, <3>3
        <3> QED BY <1>1, <1>3, <2>1, <2>3, <3>4, OutsideLeavesWindow
    <2> QED BY <2>1, <2>2, <2>3 DEF MemFaults
<1> QED BY <1>4, <1>5

\* Whatever stops an iteration is a true cause.
LEMMA StopIsExplained ==
    ASSUME TypeOK, SnapshotsMatchMachine, NEW j \in job, NEW outcome,
           \/ outcome = "MaxStepsExceeded" /\ ExceedLimit
           \/ outcome = "InvalidPc" /\ LeaveCode
           \/ outcome = "UnresolvedTarget" /\ MissTarget
           \/ outcome = "panic" /\ Panic
           \/ outcome \in MemFaults /\ MemoryFault /\ status' = outcome
    PROVE  IsExplained(outcome, j)
<1>1. job = {j} /\ j \in JobType /\ steps \in Nat /\ pc \in Nat
    BY JobsAssumption, Bounds DEF TypeOK, Option
<1>2. j.limit \in Nat /\ j.code \in Seq(Instruction) /\ Len(j.code) \in Nat
    BY <1>1 DEF JobType
<1>3. /\ Len(States) = steps + 1 /\ steps <= j.limit
      /\ LastState.next_pc = pc /\ LastState.reg_file = regs
    BY DEF SnapshotsMatchMachine
<1>4. CASE outcome = "MaxStepsExceeded" /\ ExceedLimit
    <2>1. steps >= j.limit
        BY <1>1, <1>4 DEF ExceedLimit, LimitReached
    <2>2. Len(States) = j.limit + 1
        BY <1>1, <1>2, <1>3, <2>1
    <2> QED BY <1>4, <2>2 DEF IsExplained, CauseIs
<1>5. CASE outcome = "InvalidPc" /\ LeaveCode
    <2>1. ~LimitReached(j) /\ InstructionAt(j.code, pc) = {}
        BY <1>1, <1>5 DEF LeaveCode
    <2>2. Len(States) <= j.limit
        BY <1>1, <1>2, <1>3, <2>1 DEF LimitReached
    <2>3. ASSUME NEW i \in DOMAIN j.code, pc = WordSize * (i - 1) PROVE FALSE
        <3>1. i \in 1 .. Len(j.code)
            BY <1>2
        <3>2. pc % WordSize = 0 /\ pc \div WordSize < Len(j.code)
            BY <1>2, <2>3, <3>1 DEF WordSize
        <3> QED BY <2>1, <3>2 DEF InstructionAt
    <2>4. ~InCode(j, LastState.next_pc)
        BY <1>3, <2>3 DEF InCode
    <2> QED BY <1>5, <2>2, <2>4 DEF IsExplained, CauseIs
<1>6. CASE outcome = "UnresolvedTarget" /\ MissTarget
    <2>1. PICK inst \in Fetched : inst.type \in {"B", "JAL"} /\ inst.target = {}
        BY <1>6 DEF MissTarget
    <2>2. inst \in Stuck(j) /\ Len(States) <= j.limit
        BY FetchedIsStuck
    <2> QED BY <1>6, <2>1, <2>2 DEF IsExplained, CauseIs
<1>7. CASE outcome = "panic" /\ Panic
    <2>1. \E inst \in Fetched : TRUE
        BY <1>7 DEF Panic
    <2>2. Len(States) <= j.limit
        BY <2>1, FetchedIsStuck
    <2> QED BY <1>7, <2>2 DEF IsExplained, CauseIs
<1>8. CASE outcome \in MemFaults /\ MemoryFault /\ status' = outcome
    <2>1. PICK inst \in Fetched :
             /\ inst.type \in {"L", "S"}
             /\ \E addr \in ResolveAddress(inst.address, regs) :
                   outcome \in Fault(addr, Width(inst.op_code))
        BY <1>8 DEF MemoryFault, Stop
    <2>2. inst \in Stuck(j) /\ Len(States) <= j.limit
        BY FetchedIsStuck
    <2>3. /\ inst.op_code \in LoadOpCode \cup StoreOpCode
          /\ inst.address \in MemoryRef
        BY <2>1, FetchedType, InstructionKinds DEF LInst, SInst
    <2>4. Width(inst.op_code) \in Widths /\ regs \in [Reg -> I64]
        BY <2>3, WidthType DEF TypeOK
    <2>5. Exact(inst) = regs[inst.address.register] + inst.address.offset
        BY <1>3 DEF Exact
    <2>6. /\ outcome = "MisalignedMemory" => Exact(inst) % Width(inst.op_code) # 0
          /\ outcome = "InvalidMemAddr" =>
                /\ Exact(inst) % Width(inst.op_code) = 0
                /\ ~(Span(Exact(inst), Width(inst.op_code)) \subseteq Window)
        BY <2>1, <2>3, <2>4, <2>5, FaultOfExact
    <2> QED BY <1>8, <2>1, <2>2, <2>6 DEF IsExplained, CauseIs, MemFaults
<1> QED BY <1>4, <1>5, <1>6, <1>7, <1>8

LEMMA StopMatchesHistory ==
    ASSUME NEW outcome, Stop(outcome), \A j \in job : IsExplained(outcome, j)
    PROVE  OutcomeMatchesHistory'
<1>1. trace' = trace /\ job' = job /\ status' = outcome
    BY DEF Stop
<1>2. States' = States /\ LastState' = LastState
    BY <1>1 DEF States, LastState
<1>3. ASSUME NEW j \in job' PROVE CauseOf(j)'
    <2>1. CauseIs(outcome, j)
        BY <1>1, <1>3 DEF IsExplained
    <2>2. Stuck(j)' = Stuck(j) /\ \A inst : Exact(inst)' = Exact(inst)
        BY <1>2 DEF Stuck, Exact
    <2> QED BY <1>1, <1>2, <2>1, <2>2 DEF CauseOf, CauseIs
<1>4. ASSUME NEW j \in job'
      PROVE  status' \in Ended \ {"ok", "MaxStepsExceeded"} => Len(States') <= j.limit
    BY <1>1, <1>2, <1>4 DEF IsExplained
<1> QED BY <1>3, <1>4 DEF OutcomeMatchesHistory

LEMMA RetireMatchesHistory ==
    ASSUME TypeOK, TypeOK', NEW inst, NEW next_pc, NEW branch_taken, NEW events,
           NEW terminated \in BOOLEAN,
           Retire(inst, next_pc, branch_taken, events, terminated),
           terminated => next_pc = 0 /\ inst.type = "JALR"
    PROVE  OutcomeMatchesHistory'
<1>1. status' = IF terminated THEN "ok" ELSE "running"
    BY DEF Retire
<1>2. LastState'.next_pc = next_pc /\ LastState'.instr = inst
    BY RetireStates
<1>3. ASSUME NEW j \in job' PROVE CauseOf(j)'
    <2>1. CASE terminated
        BY <1>1, <1>2, <2>1 DEF CauseOf
    <2>2. CASE ~terminated
        BY <1>1, <2>2 DEF CauseOf
    <2> QED BY <2>1, <2>2
<1>4. status' \notin Ended \ {"ok", "MaxStepsExceeded"}
    BY <1>1 DEF Ended, Errors, MemFaults
<1> QED BY <1>3, <1>4 DEF OutcomeMatchesHistory

(* The outcome of execute() names what really stopped the run (execute(),  *)
(* instruction_at_pc, validate_alignment, validate_address).               *)
THEOREM OutcomesCorrect == Spec => []OutcomeMatchesHistory
<1>1. Init => OutcomeMatchesHistory
    BY DEF Init, OutcomeMatchesHistory
<1>2. TypeOK /\ TypeOK' /\ SnapshotsMatchMachine /\ OutcomeMatchesHistory /\ [Next]_vars
         => OutcomeMatchesHistory'
    <2> SUFFICES ASSUME TypeOK, TypeOK', SnapshotsMatchMachine, OutcomeMatchesHistory,
                        [Next]_vars
                 PROVE  OutcomeMatchesHistory'
        OBVIOUS
    <2>1. CASE ExceedLimit
        <3>1. Stop("MaxStepsExceeded") /\ \A j \in job : IsExplained("MaxStepsExceeded", j)
            BY <2>1, StopIsExplained DEF ExceedLimit
        <3> QED BY <3>1, StopMatchesHistory
    <2>2. CASE LeaveCode
        <3>1. Stop("InvalidPc") /\ \A j \in job : IsExplained("InvalidPc", j)
            BY <2>2, StopIsExplained DEF LeaveCode
        <3> QED BY <3>1, StopMatchesHistory
    <2>3. CASE MissTarget
        <3>1. Stop("UnresolvedTarget") /\ \A j \in job : IsExplained("UnresolvedTarget", j)
            BY <2>3, StopIsExplained DEF MissTarget
        <3> QED BY <3>1, StopMatchesHistory
    <2>4. CASE Panic
        <3>1. Stop("panic") /\ \A j \in job : IsExplained("panic", j)
            BY <2>4, StopIsExplained DEF Panic
        <3> QED BY <3>1, StopMatchesHistory
    <2>5. CASE MemoryFault
        <3>1. \A a, w : Fault(a, w) \subseteq MemFaults
            BY DEF Fault, MemFaults
        <3>2. PICK outcome \in MemFaults : Stop(outcome)
            BY <2>5, <3>1 DEF MemoryFault
        <3>3. status' = outcome
            BY <3>2 DEF Stop
        <3>4. \A j \in job : IsExplained(outcome, j)
            BY <2>5, <3>2, <3>3, StopIsExplained
        <3> QED BY <3>2, <3>4, StopMatchesHistory
    <2>6. CASE \E inst, next_pc, branch_taken, events : \E terminated \in BOOLEAN :
                  /\ Retire(inst, next_pc, branch_taken, events, terminated)
                  /\ terminated => next_pc = 0 /\ inst.type = "JALR"
        BY <2>6, RetireMatchesHistory
    <2>7. CASE Iterate
        <3>1. CASE \E outcome \in Ended \ {"ok"} : Stop(outcome) /\ status = "running"
            <4>1. ASSUME NEW inst, NEW next_pc, NEW branch_taken, NEW events,
                         NEW terminated,
                         Retire(inst, next_pc, branch_taken, events, terminated)
                  PROVE  FALSE
                <5>1. steps' = steps + 1 /\ steps \in Nat
                    BY <4>1 DEF Retire, TypeOK
                <5> QED BY <3>1, <5>1 DEF Stop
            <4>2. ExceedLimit \/ LeaveCode \/ MissTarget \/ Panic \/ MemoryFault
                BY <2>7, <4>1 DEF Iterate, ExecuteR, ExecuteI, ExecuteL, ExecuteS,
                                  ExecuteB, ExecuteJal, ExecuteJalr
            <4> QED BY <2>1, <2>2, <2>3, <2>4, <2>5, <4>2
        <3> QED BY <2>6, <2>7, <3>1, IterateRuns
    <2>8. CASE \E j \in Jobs : Execute(j)
        <3>1. status' = "running"
            BY <2>8 DEF Execute
        <3>2. \A j : CauseOf(j)'
            BY <3>1 DEF CauseOf
        <3> QED BY <3>1, <3>2 DEF OutcomeMatchesHistory, Ended, Errors, MemFaults
    <2>9. CASE UNCHANGED vars
        <3>1. /\ trace' = trace /\ job' = job /\ status' = status
              /\ States' = States /\ LastState' = LastState
            BY <2>9 DEF vars, States, LastState
        <3>2. ASSUME NEW j \in job' PROVE CauseOf(j)'
            <4>1. CauseOf(j)
                BY <3>1, <3>2 DEF OutcomeMatchesHistory
            <4>2. Stuck(j)' = Stuck(j) /\ \A inst : Exact(inst)' = Exact(inst)
                BY <3>1 DEF Stuck, Exact
            <4> QED BY <3>1, <4>1, <4>2 DEF CauseOf
        <3> QED BY <3>1, <3>2 DEF OutcomeMatchesHistory
    <2> QED BY <2>7, <2>8, <2>9 DEF Next
<1> QED BY <1>1, <1>2, TypeCorrect, SnapshotsCorrect, PTL DEF Spec

-----------------------------------------------------------------------------
(* Panics.  Without overflow checks every sum, difference, product and     *)
(* shift has a result, and a quotient has one but for MIN / -1.            *)
LEMMA ReleaseArithTotal ==
    ASSUME ~OverflowChecks, NEW x
    PROVE  Arith(x) # {}
BY DEF Arith

\* A quotient by anything else than 1 or -1 is at most half the dividend.
LEMMA QuotientOverflows ==
    ASSUME NEW l \in I64, NEW r \in I64, r # 0, Quotient(l, r) = {}
    PROVE  r = -1 /\ -l \notin I64
<1> DEFINE a == Magnitude(l)
           b == Magnitude(r)
           q == a \div b
           m == Modulus(8)
<1>1. /\ m \in Nat \ {0} /\ l \in Int /\ r \in Int
      /\ -m <= 2 * l /\ 2 * l < m
      /\ \A x \in Int : -m <= 2 * x /\ 2 * x < m => x \in I64
    BY Bounds
<1>2. q \notin I64 \/ -q \notin I64
    BY DEF Quotient
<1>3. (l < 0) = (r < 0) => q \notin I64
    BY DEF Quotient
<1>4. (l < 0) # (r < 0) => -q \notin I64
    BY DEF Quotient
<1>5. /\ a \in Nat /\ b \in Nat \ {0}
      /\ a = (IF l < 0 THEN -l ELSE l) /\ b = IF r < 0 THEN -r ELSE r
    BY <1>1 DEF Magnitude
<1> HIDE DEF a, b
<1> DEFINE d == a % b
<1>6. q \in Int /\ d \in Int /\ a = b * q + d /\ 0 <= d /\ d < b
    <2>1. q \in Int /\ d = a - b * q
        <3>1. a \in Int /\ b \in Nat \ {0}
            BY <1>5
        <3> QED BY <3>1, DivisionSplits
    <2>2. d \in 0 .. b - 1
        BY <1>5
    <2> HIDE DEF q, d
    <2>3. b * q \in Int
        BY <1>5, <2>1
    <2> QED BY <1>5, <2>1, <2>2, <2>3
<1> HIDE DEF q, d
<1>7. q >= 0
    <2>1. ASSUME q <= -1 PROVE FALSE
        <3>1. b * q <= b * (-1)
            BY <1>5, <1>6, <2>1
        <3> QED BY <1>5, <1>6, <3>1
    <2> QED BY <1>6, <2>1
<1>8. CASE b >= 2
    <2>1. b * q >= 2 * q
        <3>1. (b - 2) * q >= 0 /\ (b - 2) * q = b * q - 2 * q /\ b * q \in Int
            BY <1>5, <1>6, <1>7, <1>8
        <3> QED BY <1>6, <3>1
    <2>2. 2 * q <= a
        BY <1>5, <1>6, <2>1
    <2>3. 2 * a <= m
        BY <1>1, <1>5
    <2>4. q \in I64 /\ -q \in I64
        <3> HIDE DEF m
        <3>1. /\ -q \in Int /\ -m <= 2 * q /\ 2 * q < m
              /\ -m <= 2 * (-q) /\ 2 * (-q) < m
            BY <1>1, <1>5, <1>6, <1>7, <2>2, <2>3
        <3> QED BY <1>1, <1>6, <3>1
    <2> QED BY <1>2, <2>4
<1>9. CASE b = 1
    <2>1. q = a
        BY <1>5, <1>6, <1>9
    <2>2. CASE r = 1
        <3>1. l \in I64 /\ (l < 0 => -q = l) /\ (l >= 0 => q = l)
            BY <1>1, <1>5, <2>1
        <3> QED BY <1>1, <1>3, <1>4, <2>2, <3>1
    <2>3. CASE r = -1
        <3>1. (l < 0 => q = -l) /\ (l >= 0 => -q = -l)
            BY <1>1, <1>5, <2>1
        <3> QED BY <1>1, <1>3, <1>4, <2>3, <3>1
    <2> QED BY <1>1, <1>5, <1>9, <2>2, <2>3
<1> QED BY <1>5, <1>8, <1>9

LEMMA PanicIsDivision ==
    ASSUME ~OverflowChecks, TypeOK, SnapshotsMatchMachine, Panic, NEW j \in job
    PROVE  \E inst \in Stuck(j) :
              /\ inst.type = "R"
              /\ inst.op_code = "DIV"
              /\ DivisionOverflows(LastState.reg_file[inst.rs1], LastState.reg_file[inst.rs2])
<1>1. PICK inst \in Fetched :
         \/ inst.type = "R" /\ RValue(inst.op_code, regs[inst.rs1], regs[inst.rs2]) = {}
         \/ inst.type = "I" /\ Arith(regs[inst.rs] + inst.imm) = {}
         \/ inst.type \in {"L", "S", "JALR"} /\ ResolveAddress(inst.address, regs) = {}
    BY DEF Panic
<1>2. \A x : Arith(x) # {}
    BY ReleaseArithTotal
<1>3. \A ref : ResolveAddress(ref, regs) # {}
    BY <1>2 DEF ResolveAddress
<1>4. inst \in RInst /\ inst.type = "R"
    BY <1>1, <1>2, <1>3, FetchedType, InstructionKinds
<1> DEFINE l == regs[inst.rs1]
           r == regs[inst.rs2]
<1>5. RValue(inst.op_code, l, r) = {}
    BY <1>1, <1>4
<1>6. inst.op_code \in ROpCode /\ l \in I64 /\ r \in I64
    BY <1>4 DEF RInst, TypeOK
<1>7. ShiftLeft(l, r) # {}
    BY DEF ShiftLeft
<1>8. inst.op_code = "DIV"
    BY <1>2, <1>5, <1>6, <1>7 DEF RValue, ROpCode
<1>9. Div(l, r) = {}
    BY <1>5, <1>8 DEF RValue
<1>10. DivisionOverflows(l, r)
    BY <1>6, <1>9, QuotientOverflows DEF Div, DivisionOverflows
<1>11. inst \in Stuck(j) /\ LastState.reg_file = regs
    BY FetchedIsStuck
<1> QED BY <1>4, <1>8, <1>10, <1>11

(* In a release build only a division can panic (execute_r).               *)
THEOREM PanicsAreDivisions == Spec => [](~OverflowChecks => PanicsOnlyInDivision)
<1>1. Init => PanicsOnlyInDivision
    BY DEF Init, PanicsOnlyInDivision
<1>2. TypeOK /\ SnapshotsMatchMachine /\ (~OverflowChecks => PanicsOnlyInDivision)
         /\ [Next]_vars => (~OverflowChecks => PanicsOnlyInDivision)'
    <2> SUFFICES ASSUME TypeOK, SnapshotsMatchMachine, PanicsOnlyInDivision,
                        ~OverflowChecks, [Next]_vars, status' = "panic"
                 PROVE  PanicsOnlyInDivision'
        BY DEF PanicsOnlyInDivision
    <2>1. CASE UNCHANGED vars
        <3>1. /\ job' = job /\ status' = status
              /\ States' = States /\ LastState' = LastState
            BY <2>1 DEF vars, States, LastState
        <3>2. \A j : Stuck(j)' = Stuck(j)
            BY <3>1 DEF Stuck
        <3> QED BY <3>1, <3>2 DEF PanicsOnlyInDivision
    <2>2. CASE Panic
        <3>1. job' = job /\ States' = States /\ LastState' = LastState
            BY <2>2 DEF Panic, Stop, States, LastState
        <3>2. \A j : Stuck(j)' = Stuck(j)
            BY <3>1 DEF Stuck
        <3>3. \E j \in job : TRUE
            BY <2>2 DEF Panic, Fetched
        <3> QED BY <2>2, <3>1, <3>2, <3>3, PanicIsDivision DEF PanicsOnlyInDivision
    <2>3. CASE Next /\ ~Panic
        <3>1. \A a, w : "panic" \notin Fault(a, w)
            BY DEF Fault
        <3>2. status' # "panic"
            BY <2>3, <3>1 DEF Next, Iterate, ExceedLimit, LeaveCode, MissTarget,
                  MemoryFault, Stop, ExecuteR, ExecuteI, ExecuteL, ExecuteS, ExecuteB,
                  ExecuteJal, ExecuteJalr, Retire, Execute
        <3> QED BY <3>2
    <2> QED BY <2>1, <2>2, <2>3
<1> QED BY <1>1, <1>2, TypeCorrect, SnapshotsCorrect, PTL DEF Spec

-----------------------------------------------------------------------------
(* Overflow.  With overflow checks an operation has a result exactly if it *)
(* does not overflow, and the result is the exact one.                     *)
LEMMA CheckedArith ==
    ASSUME OverflowChecks, NEW x
    PROVE  Arith(x) = IF x \in I64 THEN {x} ELSE {}
BY DEF Arith

LEMMA QuotientMissing ==
    ASSUME NEW l \in I64, NEW r \in I64
    PROVE  Div(l, r) = {} <=> DivisionOverflows(l, r)
<1>1. /\ Modulus(8) \in Nat \ {0} /\ l \in Int /\ r \in Int
      /\ -Modulus(8) <= 2 * l /\ 2 * l < Modulus(8)
      /\ \A x \in Int : -Modulus(8) <= 2 * x /\ 2 * x < Modulus(8) => x \in I64
    BY Bounds
<1>2. ASSUME Div(l, r) = {} PROVE DivisionOverflows(l, r)
    BY <1>2, QuotientOverflows DEF Div, DivisionOverflows
<1>3. ASSUME r = -1, -l \notin I64 PROVE Quotient(l, r) = {}
    <2>1. l < 0
        <3>1. ASSUME l >= 0 PROVE FALSE
            <4>1. -l \in Int /\ -Modulus(8) <= 2 * (-l) /\ 2 * (-l) < Modulus(8)
                BY <1>1, <3>1
            <4> QED BY <1>1, <1>3, <4>1
        <3>2. l \in Int
            BY <1>1
        <3> QED BY <3>1, <3>2
    <2>2. Magnitude(l) = -l /\ Magnitude(r) = 1
        <3>1. l \in Int /\ r \in Int
            BY <1>1
        <3>2. r + 1 = 0
            BY <1>3
        <3>3. r < 0 /\ -r = 1
            BY <3>1, <3>2
        <3> QED BY <2>1, <3>1, <3>3 DEF Magnitude
    <2>3. Magnitude(l) \div Magnitude(r) = -l
        BY <1>1, <2>1, <2>2
    <2> QED BY <1>3, <2>1, <2>3 DEF Quotient
<1>4. ASSUME DivisionOverflows(l, r) PROVE Div(l, r) = {}
    BY <1>3, <1>4 DEF Div, DivisionOverflows
<1> QED BY <1>2, <1>4

\* That inst cannot complete: the guard of Panic.
HasNoResult(inst, rf) ==
    \/ inst.type = "R" /\ RValue(inst.op_code, rf[inst.rs1], rf[inst.rs2]) = {}
    \/ inst.type = "I" /\ Arith(rf[inst.rs] + inst.imm) = {}
    \/ inst.type \in {"L", "S", "JALR"} /\ ResolveAddress(inst.address, rf) = {}

LEMMA NoResultIfOverflows ==
    ASSUME OverflowChecks, NEW inst \in Instruction, NEW rf \in [Reg -> I64]
    PROVE  HasNoResult(inst, rf) <=> Overflows(inst, rf)
<1>1. CASE inst.type = "R"
    <2> DEFINE l == rf[inst.rs1]
               r == rf[inst.rs2]
               op == inst.op_code
    <2>1. op \in ROpCode /\ l \in I64 /\ r \in I64
        BY <1>1, InstructionKinds DEF RInst
    <2>2. HasNoResult(inst, rf) <=> RValue(op, l, r) = {}
        BY <1>1 DEF HasNoResult
    <2>3. Overflows(inst, rf) <=>
             \/ ~(ExactOf(inst, rf) \subseteq I64)
             \/ op = "DIV" /\ DivisionOverflows(l, r)
             \/ op = "SLL" /\ r \notin 0 .. RegBits - 1
        BY <1>1 DEF Overflows
    <2>4. ExactOf(inst, rf) = CASE op = "ADD" -> {l + r}
                                [] op = "SUB" -> {l - r}
                                [] op = "MUL" -> {l * r}
                                [] OTHER      -> {}
        BY <1>1 DEF ExactOf
    <2> HIDE DEF l, r, op
    <2>5. CASE op \in {"ADD", "SUB", "MUL"}
        BY <2>2, <2>3, <2>4, <2>5, CheckedArith DEF RValue
    <2>6. CASE op = "DIV"
        BY <2>1, <2>2, <2>3, <2>4, <2>6, QuotientMissing DEF RValue
    <2>7. CASE op = "SLL"
        BY <2>2, <2>3, <2>4, <2>7 DEF RValue, ShiftLeft
    <2> QED BY <2>1, <2>5, <2>6, <2>7 DEF ROpCode
<1>2. CASE inst.type = "I"
    BY <1>2, CheckedArith DEF HasNoResult, Overflows, ExactOf
<1>3. CASE inst.type \in {"L", "S", "JALR"}
    <2> DEFINE x == rf[inst.address.register] + inst.address.offset
    <2>1. ResolveAddress(inst.address, rf) = {} <=> x \notin I64
        BY CheckedArith DEF ResolveAddress
    <2>2. HasNoResult(inst, rf) <=> ResolveAddress(inst.address, rf) = {}
        BY <1>3 DEF HasNoResult
    <2>3. ExactOf(inst, rf) = {x}
        BY <1>3 DEF ExactOf
    <2>4. Overflows(inst, rf) <=> x \notin I64
        BY <1>3, <2>3 DEF Overflows
    <2> QED BY <2>1, <2>2, <2>4
<1>4. CASE inst.type \in {"B", "JAL"}
    BY <1>4 DEF HasNoResult, Overflows, ExactOf
<1> QED BY <1>1, <1>2, <1>3, <1>4, InstructionKinds
        DEF Instruction, RInst, IInst, LInst, SInst, BInst, JalInst, JalrInst

\* An access within the stack is at its exact address: one that is negative
\* as a sum is far above the stack as an address.
LEMMA AccessIsExact ==
    ASSUME OverflowChecks, NEW ref \in MemoryRef, NEW rf \in [Reg -> I64],
           NEW w \in Widths, NEW addr \in ResolveAddress(ref, rf), Fault(addr, w) = {}
    PROVE  addr = rf[ref.register] + ref.offset
<1> DEFINE x == rf[ref.register] + ref.offset
<1>1. /\ addr \in Nat /\ x \in Int
      /\ x \in I64 /\ x >= 0 => addr = x
    BY AddressIsCongruent
<1> HIDE DEF x
<1>2. x \in I64 /\ addr = AsUnsigned(x, 8)
    BY CheckedArith DEF ResolveAddress, x
<1>3. ASSUME x < 0 PROVE FALSE
    <2>1. addr = x + Modulus(8) /\ -Modulus(8) <= 2 * x
        BY <1>2, <1>3, UnsignedOfI64, Bounds
    <2>2. Span(addr, w) \subseteq Window
        BY <1>1, NoFaultInWindow
    <2>3. addr \in Span(addr, w)
        BY <1>1 DEF Span, Widths
    <2>4. addr < StackTop
        BY <2>2, <2>3, MemoryAssumption DEF Window, StackTop
    <2> QED BY <1>1, <2>1, <2>4, MemoryAssumption, Bounds DEF StackTop
<1>4. addr = x
    BY <1>1, <1>2, <1>3
<1> QED BY <1>4 DEF x

\* What a recorded step shows of its instruction.
ExactInState(s, rf) ==
    /\ ~Overflows(s.instr, rf)
    /\ \A x \in ExactOf(s.instr, rf) :
          /\ s.instr.type \in {"R", "I"} => \A r \in WrittenBy(s.instr) : s.reg_file[r] = x
          /\ s.instr.type \in {"L", "S"} =>
                \A e \in IF s.memory_events = <<>> THEN {} ELSE {s.memory_events[1]} :
                    e.address = x

LEMMA StepIsExact ==
    ASSUME OverflowChecks, NEW s, NEW rf, RunsAs(s, rf)
    PROVE  ExactInState(s, rf)
<1>1. rf \in [Reg -> I64]
    BY DEF RunsAs
<1>2. CASE RunsR(s, rf)
    <2>1. /\ s.instr \in Instruction /\ s.instr.type = "R" /\ s.instr.op_code \in ROpCode
          /\ RValue(s.instr.op_code, rf[s.instr.rs1], rf[s.instr.rs2]) # {}
        BY <1>2, KindTypes DEF RunsR, RInst, Instruction
    <2>2. ~Overflows(s.instr, rf)
        BY <1>1, <2>1, NoResultIfOverflows DEF HasNoResult
    <2>3. ASSUME NEW x \in ExactOf(s.instr, rf), NEW r \in WrittenBy(s.instr)
          PROVE  s.reg_file[r] = x
        <3>1. s.reg_file[r] \in RValue(s.instr.op_code, rf[s.instr.rs1], rf[s.instr.rs2])
            BY <1>2, ResultInRegister
        <3>2. RValue(s.instr.op_code, rf[s.instr.rs1], rf[s.instr.rs2]) = Arith(x)
            BY <2>1, <2>3 DEF ExactOf, RValue
        <3> QED BY <3>1, <3>2, CheckedArith
    <2> QED BY <2>1, <2>2, <2>3 DEF ExactInState
<1>3. CASE RunsI(s, rf)
    <2>1. /\ s.instr \in Instruction /\ s.instr.type = "I"
          /\ Arith(rf[s.instr.rs] + s.instr.imm) # {}
        BY <1>3, KindTypes DEF RunsI, Instruction
    <2>2. ~Overflows(s.instr, rf)
        BY <1>1, <2>1, NoResultIfOverflows DEF HasNoResult
    <2>3. ASSUME NEW x \in ExactOf(s.instr, rf), NEW r \in WrittenBy(s.instr)
          PROVE  s.reg_file[r] = x
        <3>1. s.reg_file[r] \in Arith(rf[s.instr.rs] + s.instr.imm)
            BY <1>3, ResultInRegister
        <3>2. x = rf[s.instr.rs] + s.instr.imm
            BY <2>1, <2>3 DEF ExactOf
        <3> QED BY <3>1, <3>2, CheckedArith
    <2> QED BY <2>1, <2>2, <2>3 DEF ExactInState
<1>4. CASE RunsL(s, rf) \/ RunsS(s, rf)
    <2>1. /\ s.instr \in Instruction /\ s.instr.type \in {"L", "S"}
          /\ s.instr.address \in MemoryRef /\ Width(s.instr.op_code) \in Widths
        BY <1>4, KindTypes, WidthType DEF RunsL, RunsS, LInst, SInst, Instruction
    <2>2. PICK addr \in ResolveAddress(s.instr.address, rf) :
             /\ Fault(addr, Width(s.instr.op_code)) = {}
             /\ s.memory_events # <<>> /\ s.memory_events[1].address = addr
        BY <1>4 DEF RunsL, RunsS, Accesses
    <2>3. ~Overflows(s.instr, rf)
        BY <1>1, <2>1, <2>2, NoResultIfOverflows DEF HasNoResult
    <2>4. addr = rf[s.instr.address.register] + s.instr.address.offset
        BY <1>1, <2>1, <2>2, AccessIsExact
    <2>5. ExactOf(s.instr, rf) = {addr}
        BY <2>1, <2>4 DEF ExactOf
    <2> QED BY <2>1, <2>2, <2>3, <2>5 DEF ExactInState
<1>5. CASE RunsB(s, rf) \/ RunsJal(s, rf)
    <2>1. s.instr.type \in {"B", "JAL"}
        BY <1>5, KindTypes DEF RunsB, RunsJal
    <2> QED BY <2>1 DEF ExactInState, Overflows, ExactOf
<1>6. CASE RunsJalr(s, rf)
    <2>1. /\ s.instr \in Instruction /\ s.instr.type = "JALR"
          /\ ResolveAddress(s.instr.address, rf) # {}
        BY <1>6, KindTypes DEF RunsJalr, Instruction
    <2>2. ~Overflows(s.instr, rf)
        BY <1>1, <2>1, NoResultIfOverflows DEF HasNoResult
    <2> QED BY <2>1, <2>2 DEF ExactInState
<1> QED BY <1>2, <1>3, <1>4, <1>5, <1>6 DEF RunsAs

\* A run that stopped in an instruction did so for the reason it gives.
StopsByOverflow(outcome, j) ==
    outcome \in Ended \ {"ok", "MaxStepsExceeded"} =>
        (outcome = "panic" <=> \E inst \in Stuck(j) : Overflows(inst, LastState.reg_file))

OutcomeTellsOverflow == \A j \in job : StopsByOverflow(status, j)

\* There is one instruction at an address.
LEMMA StuckIsOne ==
    ASSUME NEW j \in JobType, NEW x \in Stuck(j), NEW y \in Stuck(j)
    PROVE  x = y
<1>1. PICK i \in DOMAIN j.code : x = j.code[i] /\ LastState.next_pc = WordSize * (i - 1)
    BY DEF Stuck
<1>2. PICK k \in DOMAIN j.code : y = j.code[k] /\ LastState.next_pc = WordSize * (k - 1)
    BY DEF Stuck
<1>3. i \in Int /\ k \in Int
    BY DEF JobType
<1>4. i = k
    BY <1>1, <1>2, <1>3 DEF WordSize
<1> QED BY <1>1, <1>2, <1>4

LEMMA StopTellsOverflow ==
    ASSUME OverflowChecks, TypeOK, SnapshotsMatchMachine, NEW j \in job, NEW outcome,
           \/ outcome = "MaxStepsExceeded" /\ ExceedLimit
           \/ outcome = "InvalidPc" /\ LeaveCode
           \/ outcome = "UnresolvedTarget" /\ MissTarget
           \/ outcome = "panic" /\ Panic
           \/ outcome \in MemFaults /\ MemoryFault /\ status' = outcome
    PROVE  StopsByOverflow(outcome, j)
<1>1. j \in JobType
    BY JobsAssumption DEF TypeOK, Option
<1>2. ASSUME NEW inst \in Fetched
      PROVE  /\ inst \in Instruction
             /\ (\E i \in Stuck(j) : Overflows(i, LastState.reg_file))
                   <=> HasNoResult(inst, regs)
    <2>1. inst \in Stuck(j) /\ LastState.reg_file = regs /\ inst \in Instruction
        BY FetchedIsStuck, FetchedType
    <2>2. \A i \in Stuck(j) : i = inst
        BY <1>1, <2>1, StuckIsOne
    <2>3. Overflows(inst, regs) <=> HasNoResult(inst, regs)
        BY <2>1, NoResultIfOverflows DEF TypeOK
    <2> QED BY <2>1, <2>2, <2>3
<1>3. CASE outcome = "MaxStepsExceeded" /\ ExceedLimit
    BY <1>3 DEF StopsByOverflow
<1>4. CASE outcome = "InvalidPc" /\ LeaveCode
    <2>1. CauseIs("InvalidPc", j)
        BY <1>4, StopIsExplained DEF IsExplained
    <2>2. ~InCode(j, LastState.next_pc)
        BY <2>1 DEF CauseIs
    <2>3. Stuck(j) = {}
        BY <2>2 DEF Stuck, InCode
    <2> QED BY <1>4, <2>3 DEF StopsByOverflow
<1>5. CASE outcome = "UnresolvedTarget" /\ MissTarget
    <2>1. PICK inst \in Fetched : inst.type \in {"B", "JAL"}
        BY <1>5 DEF MissTarget
    <2>2. ~HasNoResult(inst, regs)
        BY <2>1 DEF HasNoResult
    <2> QED BY <1>2, <1>5, <2>2 DEF StopsByOverflow
<1>6. CASE outcome = "panic" /\ Panic
    <2>1. PICK inst \in Fetched : HasNoResult(inst, regs)
        BY <1>6 DEF Panic, HasNoResult
    <2> QED BY <1>2, <1>6, <2>1 DEF StopsByOverflow
<1>7. CASE outcome \in MemFaults /\ MemoryFault
    <2>1. PICK inst \in Fetched :
             inst.type \in {"L", "S"} /\ ResolveAddress(inst.address, regs) # {}
        BY <1>7 DEF MemoryFault
    <2>2. ~HasNoResult(inst, regs)
        BY <2>1 DEF HasNoResult
    <2> QED BY <1>2, <1>7, <2>2 DEF StopsByOverflow, MemFaults
<1> QED BY <1>3, <1>4, <1>5, <1>6, <1>7

LEMMA StopKeepsTelling ==
    ASSUME NEW outcome, Stop(outcome), \A j \in job : StopsByOverflow(outcome, j)
    PROVE  OutcomeTellsOverflow'
<1>1. trace' = trace /\ job' = job /\ status' = outcome
    BY DEF Stop
<1>2. LastState' = LastState /\ \A j : Stuck(j)' = Stuck(j)
    BY <1>1 DEF LastState, States, Stuck
<1> QED BY <1>1, <1>2 DEF OutcomeTellsOverflow, StopsByOverflow

LEMMA NextTellsOverflow ==
    ASSUME OverflowChecks, TypeOK, SnapshotsMatchMachine, OutcomeTellsOverflow, [Next]_vars
    PROVE  OutcomeTellsOverflow'
<1>1. CASE ExceedLimit
    <2>1. Stop("MaxStepsExceeded") /\ \A j \in job : StopsByOverflow("MaxStepsExceeded", j)
        BY <1>1, StopTellsOverflow DEF ExceedLimit
    <2> QED BY <2>1, StopKeepsTelling
<1>2. CASE LeaveCode
    <2>1. Stop("InvalidPc") /\ \A j \in job : StopsByOverflow("InvalidPc", j)
        BY <1>2, StopTellsOverflow DEF LeaveCode
    <2> QED BY <2>1, StopKeepsTelling
<1>3. CASE MissTarget
    <2>1. Stop("UnresolvedTarget") /\ \A j \in job : StopsByOverflow("UnresolvedTarget", j)
        BY <1>3, StopTellsOverflow DEF MissTarget
    <2> QED BY <2>1, StopKeepsTelling
<1>4. CASE Panic
    <2>1. Stop("panic") /\ \A j \in job : StopsByOverflow("panic", j)
        BY <1>4, StopTellsOverflow DEF Panic
    <2> QED BY <2>1, StopKeepsTelling
<1>5. CASE MemoryFault
    <2>1. \A a, w : Fault(a, w) \subseteq MemFaults
        BY DEF Fault, MemFaults
    <2>2. PICK outcome \in MemFaults : Stop(outcome)
        BY <1>5, <2>1 DEF MemoryFault
    <2>3. status' = outcome
        BY <2>2 DEF Stop
    <2>4. \A j \in job : StopsByOverflow(outcome, j)
        BY <1>5, <2>2, <2>3, StopTellsOverflow
    <2> QED BY <2>2, <2>4, StopKeepsTelling
<1>6. CASE status' \in {"running", "ok"}
    BY <1>6 DEF OutcomeTellsOverflow, StopsByOverflow, Ended, Errors, MemFaults
<1>7. CASE UNCHANGED vars
    <2>1. /\ job' = job /\ status' = status /\ LastState' = LastState
          /\ \A j : Stuck(j)' = Stuck(j)
        BY <1>7 DEF vars, LastState, States, Stuck
    <2> QED BY <2>1 DEF OutcomeTellsOverflow, StopsByOverflow
<1> QED BY <1>1, <1>2, <1>3, <1>4, <1>5, <1>6, <1>7
        DEF Next, Iterate, ExecuteR, ExecuteI, ExecuteL, ExecuteS, ExecuteB,
            ExecuteJal, ExecuteJalr, Retire, Execute

(* In a debug build what is recorded is exact, and a run that stops in an  *)
(* instruction panics if and only if the instruction overflows (execute_r, *)
(* execute_i, resolve_address).                                            *)
THEOREM OverflowCaught == Spec => [](OverflowChecks => OverflowIsCaught)
<1>1. Init => OutcomeTellsOverflow
    BY DEF Init, OutcomeTellsOverflow
<1>2. TypeOK /\ SnapshotsMatchMachine /\ (OverflowChecks => OutcomeTellsOverflow)
         /\ [Next]_vars => (OverflowChecks => OutcomeTellsOverflow)'
    BY NextTellsOverflow
<1>3. ASSUME OverflowChecks, HistoryRuns, OutcomeTellsOverflow PROVE OverflowIsCaught
    <2>1. ASSUME NEW k \in Recorded PROVE ExactInState(States[k], Before(k))
        BY <1>3, <2>1, StepIsExact DEF HistoryRuns
    <2>2. \A k \in Recorded :
             /\ ~Overflows(States[k].instr, Before(k))
             /\ \A x \in ExactOf(States[k].instr, Before(k)) : ShowsExact(k, x)
        BY <2>1 DEF ExactInState, ShowsExact, Events
    <2> QED BY <1>3, <2>2 DEF OverflowIsCaught, OutcomeTellsOverflow, StopsByOverflow
<1>4. HistoryRuns /\ (OverflowChecks => OutcomeTellsOverflow)
         => (OverflowChecks => OverflowIsCaught)
    BY <1>3
<1> QED BY <1>1, <1>2, <1>4, TypeCorrect, SnapshotsCorrect, HistoryCorrect, PTL DEF Spec

-----------------------------------------------------------------------------
(* Memory.  The same as Writers, ByteAfter and what is said of an event in *)
(* EventsSeeEarlierStores, of any sequence q of states.                    *)
EventsIn(q, k) == IF q[k].memory_events = <<>> THEN {} ELSE {q[k].memory_events[1]}

Writes(q, k, a) == \E e \in EventsIn(q, k) : CoversByte(e, a)

WritersIn(q, a, upto) == {k \in 1 .. upto : Writes(q, k, a)}

\* The byte that the last of the writers ks left.
ByteFrom(q, ks, a) ==
    IF ks = {} THEN 0
    ELSE LET k == CHOOSE x \in ks : \A y \in ks : y <= x
             e == q[k].memory_events[1]
         IN  ByteOf(e.raw_value, a - e.address)

ByteIn(q, a, upto) == ByteFrom(q, WritersIn(q, a, upto), a)

SameBytesIn(q, raw, e, k) ==
    \A i \in 0 .. e.width - 1 : ByteOf(raw, i) = ByteIn(q, e.address + i, k - 1)

LoadIsTrue(q, k, e) ==
    /\ SameBytesIn(q, e.raw_value, e, k)
    /\ e.register # "zero" => q[k].reg_file[e.register] = e.value

StoreIsTrue(q, k, e) ==
    /\ e.register_value = q[k - 1].reg_file[e.register]
    /\ (e.register_value - e.value) % Modulus(e.width) = 0
    /\ \E old \in e.previous_value :
          old \in Signed(e.width) /\ SameBytesIn(q, AsUnsigned(old, e.width), e, k)

EventIsTrue(q, k, e) ==
    /\ e.raw_value \in Unsigned(e.width)
    /\ Extends(e.value, e.raw_value, e.opcode)
    /\ e.kind = "Load"  => LoadIsTrue(q, k, e)
    /\ e.kind = "Store" => StoreIsTrue(q, k, e)

Accounts(q, m) ==
    /\ \A a \in Window : Load8(m, a) = ByteIn(q, a, Len(q))
    /\ \A k \in 2 .. Len(q) : \A e \in EventsIn(q, k) : EventIsTrue(q, k, e)

LEMMA AccountsIsProperty == TraceAccountsForMemory <=> Accounts(States, memory)
<1>1. \A k : Events(k) = EventsIn(States, k)
    BY DEF Events, EventsIn
<1>2. \A a, u : Writers(a, u) = WritersIn(States, a, u)
    BY <1>1 DEF Writers, WritersIn, Writes
<1>3. ASSUME NEW a, NEW u PROVE ByteAfter(a, u) = ByteIn(States, a, u)
    <2>1. ByteAfter(a, u) = ByteFrom(States, Writers(a, u), a)
        BY DEF ByteAfter, ByteFrom
    <2> QED BY <1>2, <2>1 DEF ByteIn
<1>4. \A raw, e, k : SameBytes(raw, e, k) <=> SameBytesIn(States, raw, e, k)
    BY <1>3 DEF SameBytes, SameBytesIn
<1>5. MemoryIsReplayOfStores <=> \A a \in Window : Load8(memory, a) = ByteIn(States, a, Len(States))
    BY <1>3 DEF MemoryIsReplayOfStores
<1>6. EventsSeeEarlierStores <=>
         \A k \in 2 .. Len(States) : \A e \in EventsIn(States, k) : EventIsTrue(States, k, e)
    BY <1>1, <1>4 DEF EventsSeeEarlierStores, EventIsTrue, LoadIsTrue, StoreIsTrue,
                      Recorded, Before
<1> QED BY <1>5, <1>6 DEF TraceAccountsForMemory, Accounts

-----------------------------------------------------------------------------
\* What was stored up to a state depends on the states up to it only.
LEMMA SamePast ==
    ASSUME NEW q, NEW p, NEW u \in Nat, \A k \in 1 .. u : p[k] = q[k], NEW a
    PROVE  ByteIn(p, a, u) = ByteIn(q, a, u)
<1>1. \A k \in 1 .. u : EventsIn(p, k) = EventsIn(q, k)
    BY DEF EventsIn
<1>2. WritersIn(p, a, u) = WritersIn(q, a, u)
    BY <1>1 DEF WritersIn, Writes
<1> DEFINE ks == WritersIn(q, a, u)
           k  == CHOOSE x \in ks : \A y \in ks : y <= x
<1>3. CASE ks # {}
    <2>1. \E x \in ks : \A y \in ks : y <= x
        <3>1. ks \in SUBSET (1 .. u)
            BY DEF WritersIn
        <3> HIDE DEF ks
        <3> QED BY <1>3, <3>1, LastIndex
    <2>2. k \in ks
        BY <2>1
    <2>3. k \in 1 .. u
        <3> HIDE DEF k
        <3> QED BY <2>2 DEF WritersIn
    <2>4. p[k] = q[k]
        <3> HIDE DEF k
        <3> QED BY <2>3
    <2>5. \A s : ByteFrom(s, ks, a) = ByteOf(s[k].memory_events[1].raw_value,
                                             a - s[k].memory_events[1].address)
        BY <1>3 DEF ByteFrom
    <2> HIDE DEF ks, k
    <2>6. ByteFrom(p, ks, a) = ByteFrom(q, ks, a)
        BY <2>4, <2>5
    <2> QED BY <1>2, <2>6 DEF ByteIn, ks
<1>4. CASE ks = {}
    BY <1>2, <1>4 DEF ByteIn, ByteFrom
<1> QED BY <1>3, <1>4

\* One more state matters for the bytes that it writes, and no others.
LEMMA NextState ==
    ASSUME NEW q, NEW u \in Nat, NEW a
    PROVE  /\ ~Writes(q, u + 1, a) => ByteIn(q, a, u + 1) = ByteIn(q, a, u)
           /\ \A e \in EventsIn(q, u + 1) : CoversByte(e, a) =>
                 ByteIn(q, a, u + 1) = ByteOf(e.raw_value, a - e.address)
<1> DEFINE ks == WritersIn(q, a, u + 1)
           k  == CHOOSE x \in ks : \A y \in ks : y <= x
<1>1. 1 .. u + 1 = (1 .. u) \cup {u + 1}
    OBVIOUS
<1>2. ASSUME ~Writes(q, u + 1, a) PROVE ByteIn(q, a, u + 1) = ByteIn(q, a, u)
    <2>1. ks = WritersIn(q, a, u)
        BY <1>1, <1>2 DEF WritersIn
    <2> QED BY <2>1 DEF ByteIn
<1>3. ASSUME NEW e \in EventsIn(q, u + 1), CoversByte(e, a)
      PROVE  ByteIn(q, a, u + 1) = ByteOf(e.raw_value, a - e.address)
    <2>1. Writes(q, u + 1, a)
        BY <1>3 DEF Writes
    <2>2. u + 1 \in ks /\ ks \subseteq 1 .. u + 1
        BY <2>1 DEF WritersIn
    <2>3. \E x \in ks : \A y \in ks : y <= x
        BY <2>2
    <2>4. k \in ks /\ \A y \in ks : y <= k
        BY <2>3
    <2>5. k = u + 1
        <3> HIDE DEF k, ks
        <3> QED BY <2>2, <2>4
    <2>6. e = q[u + 1].memory_events[1]
        BY DEF EventsIn
    <2>7. ByteIn(q, a, u + 1) = ByteOf(q[k].memory_events[1].raw_value,
                                       a - q[k].memory_events[1].address)
        BY <2>2 DEF ByteIn, ByteFrom
    <2> HIDE DEF k
    <2> QED BY <2>5, <2>6, <2>7
<1> QED BY <1>2, <1>3

\* An event that was true stays true when more states are recorded.
LEMMA EventsStayTrue ==
    ASSUME NEW q, NEW p, NEW k \in Nat, k >= 2, \A i \in 1 .. k : p[i] = q[i],
           NEW e, EventIsTrue(q, k, e)
    PROVE  EventIsTrue(p, k, e)
<1>1. k - 1 \in Nat /\ k - 1 \in 1 .. k /\ k \in 1 .. k
    OBVIOUS
<1>2. p[k] = q[k] /\ p[k - 1] = q[k - 1]
    BY <1>1
<1>3. \A i \in 1 .. k - 1 : p[i] = q[i]
    OBVIOUS
<1>4. \A a : ByteIn(p, a, k - 1) = ByteIn(q, a, k - 1)
    BY <1>1, <1>3, SamePast
<1>5. \A raw : SameBytesIn(p, raw, e, k) <=> SameBytesIn(q, raw, e, k)
    BY <1>4 DEF SameBytesIn
<1>6. LoadIsTrue(p, k, e) <=> LoadIsTrue(q, k, e)
    BY <1>2, <1>5 DEF LoadIsTrue
<1>7. StoreIsTrue(p, k, e) <=> StoreIsTrue(q, k, e)
    BY <1>2, <1>5 DEF StoreIsTrue
<1> QED BY <1>6, <1>7 DEF EventIsTrue

-----------------------------------------------------------------------------
(* What an access reads and writes: rf and after are the registers before  *)
(* and after it, m is the memory before it.                                *)
IsAccess(e) ==
    /\ e.width \in Widths
    /\ e.address \in Int
    /\ Span(e.address, e.width) \subseteq Window
    /\ e.raw_value \in Unsigned(e.width)
    /\ Extends(e.value, e.raw_value, e.opcode)

IsLoadOf(e, m, after) ==
    /\ IsAccess(e)
    /\ e.kind = "Load"
    /\ e.raw_value = LoadRaw(m, e.address, e.width)
    /\ e.register # "zero" => after[e.register] = e.value

IsStoreOf(e, m, rf) ==
    /\ IsAccess(e)
    /\ e.kind = "Store"
    /\ e.register_value = rf[e.register]
    /\ (e.register_value - e.value) % Modulus(e.width) = 0
    /\ e.previous_value = {PreviousValue(m, e.address, e.width)}

LEMMA LoadedValue ==
    ASSUME NEW op \in LoadOpCode, NEW raw \in Unsigned(Width(op))
    PROVE  /\ AsUnsigned(LoadValue(op, raw), Width(op)) = raw
           /\ Extends(LoadValue(op, raw), raw, op)
<1> DEFINE w == Width(op)
<1>1. w \in Widths
    BY WidthType
<1>2. raw \in Int
    BY <1>1, WidthsAreByteCounts, ModulusPositive DEF Unsigned
<1>3. CASE op \in {"LBU", "LHU"}
    <2>1. LoadValue(op, raw) = raw
        BY <1>3 DEF LoadValue
    <2>2. AsUnsigned(raw, w) = raw
        BY <1>1, UnsignedOfUnsigned
    <2> QED BY <1>3, <2>1, <2>2 DEF Extends
<1>4. CASE op \notin {"LBU", "LHU"}
    <2>1. LoadValue(op, raw) = AsSigned(raw, w)
        BY <1>4 DEF LoadValue
    <2>2. AsUnsigned(AsSigned(raw, w), w) = raw
        BY <1>1, UnsignedOfSigned
    <2>3. AsSigned(raw, w) \in Signed(w)
        BY <1>1, <1>2, AsSignedType
    <2>4. \E n \in Int : AsSigned(raw, w) = raw + n * Modulus(w)
        BY <1>1, <1>2, CastsAreCongruent
    <2>5. (AsSigned(raw, w) - raw) % Modulus(w) = 0
        BY <1>1, <1>2, <2>4, DifferenceMod
    <2> QED BY <1>4, <2>1, <2>2, <2>3, <2>5 DEF Extends
<1> QED BY <1>3, <1>4

LEMMA StoredValue ==
    ASSUME NEW op \in StoreOpCode, NEW source \in Int
    PROVE  LET w     == Width(op)
               value == AsSigned(source, w)
           IN  /\ AsUnsigned(value, w) = AsUnsigned(source, w)
               /\ AsUnsigned(source, w) \in Unsigned(w)
               /\ Extends(value, AsUnsigned(value, w), op)
               /\ (source - value) % Modulus(w) = 0
<1> DEFINE w     == Width(op)
           value == AsSigned(source, w)
<1>1. w \in Widths
    BY WidthType
<1>2. value \in Signed(w) /\ value \in Int
    BY <1>1, AsSignedType DEF Signed
<1>3. /\ AsUnsigned(value, w) = AsUnsigned(source, w)
      /\ AsUnsigned(source, w) \in Unsigned(w)
    BY <1>1, UnsignedOfCast, AsUnsignedType
<1>4. (source - value) % Modulus(w) = 0
    <2>1. \E n \in Int : value = source + n * Modulus(w)
        BY <1>1, CastsAreCongruent
    <2> QED BY <1>1, <2>1, DifferenceMod
<1>5. (value - AsUnsigned(value, w)) % Modulus(w) = 0
    <2>1. \E n \in Int : AsUnsigned(value, w) = value + n * Modulus(w)
        BY <1>1, <1>2, CastsAreCongruent
    <2> QED BY <1>1, <1>2, <2>1, DifferenceMod
<1>6. op \notin {"LBU", "LHU"}
    BY DEF StoreOpCode
<1>7. Extends(value, AsUnsigned(value, w), op)
    BY <1>2, <1>5, <1>6 DEF Extends
<1> QED BY <1>3, <1>4, <1>7

\* What one iteration does to the memory, next to the event it records.
AccessMade(events, m, rf, after, m2) ==
    \/ events = <<>> /\ m2 = m
    \/ \E e : events = <<e>> /\ IsLoadOf(e, m, after) /\ m2 = m
    \/ \E e : /\ events = <<e>> /\ IsStoreOf(e, m, rf)
              /\ m2 = StoreRaw(m, e.address, e.width, e.raw_value)

LEMMA IterateAccesses ==
    ASSUME TypeOK, Iterate
    PROVE  \/ trace' = trace /\ memory' = memory /\ job' = job
           \/ \E inst \in Fetched : \E next_pc, branch_taken, events :
                 \E terminated \in BOOLEAN :
                    /\ Retire(inst, next_pc, branch_taken, events, terminated)
                    /\ AccessMade(events, memory, regs, regs', memory')
<1>1. regs \in [Reg -> I64] /\ IsSparseMap(memory)
    BY DEF TypeOK
<1>2. CASE ExecuteL
    <2>1. PICK inst \in Fetched :
             /\ inst.type = "L"
             /\ \E addr \in ResolveAddress(inst.address, regs) :
                   LET w     == Width(inst.op_code)
                       value == LoadValue(inst.op_code, LoadRaw(memory, addr, w))
                   IN  /\ Fault(addr, w) = {}
                       /\ regs' = SetReg(regs, inst.rd, value)
                       /\ Retire(inst, pc + WordSize, {},
                                 <<MemoryEvent("Load", inst, inst.rd, addr, value,
                                               value, {})>>, FALSE)
             /\ UNCHANGED memory
        BY <1>2 DEF ExecuteL
    <2>2. inst \in LInst
        BY <2>1, FetchedType, InstructionKinds
    <2>3. inst.op_code \in LoadOpCode /\ inst.rd \in Reg /\ inst.address \in MemoryRef
        BY <2>2 DEF LInst
    <2> DEFINE w        == Width(inst.op_code)
               Raw(a)   == LoadRaw(memory, a, w)
               Value(a) == LoadValue(inst.op_code, Raw(a))
               Event(a) == MemoryEvent("Load", inst, inst.rd, a, Value(a), Value(a), {})
    <2>4. PICK addr \in ResolveAddress(inst.address, regs) :
             /\ Fault(addr, w) = {}
             /\ regs' = SetReg(regs, inst.rd, Value(addr))
             /\ Retire(inst, pc + WordSize, {}, <<Event(addr)>>, FALSE)
        BY <2>1
    <2>5. w \in Widths /\ addr \in Int
        BY <1>1, <2>3, WidthType, ResolveAddressType, Bounds
    <2>6. Span(addr, w) \subseteq Window
        BY <2>4, <2>5, NoFaultInWindow
    <2>7. Raw(addr) \in Unsigned(w)
        BY <1>1, <2>5, LoadRawType
    <2>8. AsUnsigned(Value(addr), w) = Raw(addr) /\ Extends(Value(addr), Raw(addr), inst.op_code)
        BY <2>3, <2>7, LoadedValue
    <2>9. inst.rd # "zero" => regs'[inst.rd] = Value(addr)
        <3> HIDE DEF Value
        <3> QED BY <1>1, <2>3, <2>4 DEF SetReg
    <2> DEFINE e == Event(addr)
    <2>10. /\ e.kind = "Load" /\ e.opcode = inst.op_code /\ e.register = inst.rd
           /\ e.address = addr /\ e.width = w /\ e.value = Value(addr)
           /\ e.raw_value = AsUnsigned(Value(addr), w)
        BY DEF MemoryEvent
    <2> HIDE DEF Value, Raw, w, Event, e
    <2>11. IsLoadOf(e, memory, regs')
        <3>1. e.raw_value = LoadRaw(memory, e.address, e.width)
            BY <2>8, <2>10 DEF Raw
        <3>2. IsAccess(e)
            BY <2>5, <2>6, <2>7, <2>8, <2>10 DEF IsAccess
        <3> QED BY <2>9, <2>10, <3>1, <3>2 DEF IsLoadOf
    <2>12. memory' = memory /\ Retire(inst, pc + WordSize, {}, <<e>>, FALSE)
        BY <2>1, <2>4 DEF e
    <2> QED BY <2>11, <2>12 DEF AccessMade
<1>3. CASE ExecuteS
    <2>1. PICK inst \in Fetched :
             /\ inst.type = "S"
             /\ \E addr \in ResolveAddress(inst.address, regs) :
                   LET w      == Width(inst.op_code)
                       source == regs[inst.rs]
                   IN  /\ Fault(addr, w) = {}
                       /\ memory' = StoreRaw(memory, addr, w, AsUnsigned(source, w))
                       /\ UNCHANGED regs
                       /\ Retire(inst, pc + WordSize, {},
                                 <<MemoryEvent("Store", inst, inst.rs, addr,
                                               AsSigned(source, w), source,
                                               {PreviousValue(memory, addr, w)})>>, FALSE)
        BY <1>3 DEF ExecuteS
    <2>2. inst \in SInst
        BY <2>1, FetchedType, InstructionKinds
    <2>3. inst.op_code \in StoreOpCode /\ inst.rs \in Reg /\ inst.address \in MemoryRef
        BY <2>2 DEF SInst
    <2> DEFINE w        == Width(inst.op_code)
               source   == regs[inst.rs]
               value    == AsSigned(source, w)
               Event(a) == MemoryEvent("Store", inst, inst.rs, a, value, source,
                                       {PreviousValue(memory, a, w)})
    <2>4. PICK addr \in ResolveAddress(inst.address, regs) :
             /\ Fault(addr, w) = {}
             /\ memory' = StoreRaw(memory, addr, w, AsUnsigned(source, w))
             /\ Retire(inst, pc + WordSize, {}, <<Event(addr)>>, FALSE)
        BY <2>1
    <2>5. w \in Widths /\ addr \in Int /\ source \in Int
        BY <1>1, <2>3, WidthType, ResolveAddressType, Bounds
    <2>6. Span(addr, w) \subseteq Window
        BY <2>4, <2>5, NoFaultInWindow
    <2>7. /\ AsUnsigned(value, w) = AsUnsigned(source, w)
          /\ AsUnsigned(source, w) \in Unsigned(w)
          /\ Extends(value, AsUnsigned(value, w), inst.op_code)
          /\ (source - value) % Modulus(w) = 0
        BY <2>3, <2>5, StoredValue
    <2> DEFINE e == Event(addr)
    <2>8. /\ e.kind = "Store" /\ e.opcode = inst.op_code /\ e.register = inst.rs
          /\ e.address = addr /\ e.width = w /\ e.value = value
          /\ e.register_value = source /\ e.raw_value = AsUnsigned(value, w)
          /\ e.previous_value = {PreviousValue(memory, addr, w)}
        BY DEF MemoryEvent
    <2>9. e.register_value = regs[e.register]
        BY <2>8
    <2> HIDE DEF value, source, w, Event, e
    <2>10. IsAccess(e)
        BY <2>5, <2>6, <2>7, <2>8 DEF IsAccess
    <2>11. IsStoreOf(e, memory, regs)
        BY <2>7, <2>8, <2>9, <2>10 DEF IsStoreOf
    <2>12. memory' = StoreRaw(memory, e.address, e.width, e.raw_value)
        BY <2>4, <2>7, <2>8
    <2>13. Retire(inst, pc + WordSize, {}, <<e>>, FALSE)
        BY <2>4 DEF e
    <2> QED BY <2>11, <2>12, <2>13 DEF AccessMade
<1>4. ASSUME NEW inst \in Fetched, NEW next_pc, NEW branch_taken, NEW terminated \in BOOLEAN,
             Retire(inst, next_pc, branch_taken, <<>>, terminated), memory' = memory
      PROVE  \E i \in Fetched : \E n, b, events : \E t \in BOOLEAN :
                    /\ Retire(i, n, b, events, t)
                    /\ AccessMade(events, memory, regs, regs', memory')
    BY <1>4 DEF AccessMade
<1>5. CASE ExecuteR \/ ExecuteI
    <2>1. PICK inst \in Fetched : /\ Retire(inst, pc + WordSize, {}, <<>>, FALSE)
                                  /\ memory' = memory
        BY <1>5 DEF ExecuteR, ExecuteI
    <2> QED BY <1>4, <2>1
<1>6. CASE ExecuteB
    <2>1. PICK inst \in Fetched : \E n, b : /\ Retire(inst, n, b, <<>>, FALSE)
                                            /\ memory' = memory
        BY <1>6 DEF ExecuteB
    <2> QED BY <1>4, <2>1
<1>7. CASE ExecuteJal
    <2>1. PICK inst \in Fetched : \E n : /\ Retire(inst, n, {TRUE}, <<>>, FALSE)
                                         /\ memory' = memory
        BY <1>7 DEF ExecuteJal
    <2> QED BY <1>4, <2>1
<1>8. CASE ExecuteJalr
    <2>1. PICK inst \in Fetched : \E d :
             /\ Retire(inst, d, {TRUE}, <<>>, inst.rd = "zero" /\ d = 0)
             /\ memory' = memory
        BY <1>8 DEF ExecuteJalr
    <2>2. \A d : (inst.rd = "zero" /\ d = 0) \in BOOLEAN
        OBVIOUS
    <2> QED BY <1>4, <2>1, <2>2
<1>9. CASE ExceedLimit \/ LeaveCode \/ MemoryFault \/ MissTarget \/ Panic
    BY <1>9 DEF ExceedLimit, LeaveCode, MemoryFault, MissTarget, Panic, Stop
<1> QED BY <1>2, <1>3, <1>5, <1>6, <1>7, <1>8, <1>9 DEF Iterate

-----------------------------------------------------------------------------
\* What a memory that q accounts for holds is what an access after q sees.
LEMMA WordAccounted ==
    ASSUME NEW m, IsSparseMap(m), NEW q, NEW n \in Nat,
           \A a \in Window : Load8(m, a) = ByteIn(q, a, n),
           NEW p, \A k \in 1 .. n : p[k] = q[k],
           NEW e, e.width \in Widths, e.address \in Int,
           Span(e.address, e.width) \subseteq Window
    PROVE  SameBytesIn(p, LoadRaw(m, e.address, e.width), e, n + 1)
<1> DEFINE addr == e.address
           w    == e.width
           raw  == LoadRaw(m, addr, w)
<1>1. IsWordAt(raw, m, addr, w)
    BY LoadRawReads
<1>2. ASSUME NEW i \in 0 .. w - 1 PROVE ByteOf(raw, i) = ByteIn(p, addr + i, n)
    <2>1. ByteOf(raw, i) = Load8(m, addr + i)
        BY <1>1 DEF IsWordAt
    <2>2. addr + i \in Span(addr, w)
        BY DEF Span, Widths
    <2>3. Load8(m, addr + i) = ByteIn(q, addr + i, n)
        BY <2>2
    <2>4. ByteIn(p, addr + i, n) = ByteIn(q, addr + i, n)
        BY SamePast
    <2> QED BY <2>1, <2>3, <2>4
<1>3. (n + 1) - 1 = n
    OBVIOUS
<1> QED BY <1>2, <1>3 DEF SameBytesIn

\* A load, recorded as the state after q, is true and moves no byte.
LEMMA LoadAccounted ==
    ASSUME NEW m, IsSparseMap(m), NEW q, NEW n \in Nat,
           \A a \in Window : Load8(m, a) = ByteIn(q, a, n),
           NEW p, \A k \in 1 .. n : p[k] = q[k],
           NEW after, NEW e, p[n + 1].reg_file = after, IsLoadOf(e, m, after)
    PROVE  EventIsTrue(p, n + 1, e)
<1>1. /\ IsAccess(e) /\ e.kind = "Load"
      /\ e.raw_value = LoadRaw(m, e.address, e.width)
      /\ e.register # "zero" => after[e.register] = e.value
    BY DEF IsLoadOf
<1>2. SameBytesIn(p, e.raw_value, e, n + 1)
    BY <1>1, WordAccounted DEF IsAccess
<1>3. LoadIsTrue(p, n + 1, e)
    BY <1>1, <1>2 DEF LoadIsTrue
<1> QED BY <1>1, <1>3 DEF EventIsTrue, IsAccess

\* A store, recorded as the state after q, is true of what it overwrote.
LEMMA StoreAccounted ==
    ASSUME NEW m, IsSparseMap(m), NEW q, NEW n \in Nat,
           \A a \in Window : Load8(m, a) = ByteIn(q, a, n),
           NEW p, \A k \in 1 .. n : p[k] = q[k],
           NEW rf, NEW e, n >= 1, q[n].reg_file = rf, IsStoreOf(e, m, rf)
    PROVE  EventIsTrue(p, n + 1, e)
<1> DEFINE raw == LoadRaw(m, e.address, e.width)
           old == PreviousValue(m, e.address, e.width)
<1>1. /\ IsAccess(e) /\ e.kind = "Store" /\ e.register_value = rf[e.register]
      /\ (e.register_value - e.value) % Modulus(e.width) = 0
      /\ e.previous_value = {old}
    BY DEF IsStoreOf
<1>2. SameBytesIn(p, raw, e, n + 1)
    BY <1>1, WordAccounted DEF IsAccess
<1>3. raw \in Unsigned(e.width)
    BY <1>1, LoadRawType DEF IsAccess
<1>4. old = AsSigned(raw, e.width) /\ AsUnsigned(old, e.width) = raw
    BY <1>1, <1>3, UnsignedOfSigned DEF PreviousValue, IsAccess
<1>5. old \in Signed(e.width)
    <2>1. raw \in Int
        BY <1>1, <1>3, WidthsAreByteCounts, ModulusPositive DEF Unsigned, IsAccess
    <2> QED BY <1>1, <1>4, <2>1, AsSignedType DEF IsAccess
<1>6. p[(n + 1) - 1].reg_file = rf
    <2>1. (n + 1) - 1 = n /\ n \in 1 .. n
        OBVIOUS
    <2> QED BY <2>1
<1> HIDE DEF raw, old
<1>7. StoreIsTrue(p, n + 1, e)
    BY <1>1, <1>2, <1>4, <1>5, <1>6 DEF StoreIsTrue
<1> QED BY <1>1, <1>7 DEF EventIsTrue, IsAccess

\* The bytes after a store, next to those before it.
LEMMA BytesAfterStore ==
    ASSUME NEW m, NEW addr, NEW w, NEW value, NEW a
    PROVE  Load8(StoreRaw(m, addr, w, value), a) =
              IF a \in Span(addr, w) THEN ByteOf(value, a - addr) ELSE Load8(m, a)
BY DEF Load8, StoreRaw

\* The trace still accounts for the memory when one access was made and
\* recorded.
LEMMA AccessAccounted ==
    ASSUME NEW m, IsSparseMap(m), NEW q, NEW p, NEW n \in Nat, n >= 1,
           Len(q) = n, Len(p) = n + 1, \A k \in 1 .. n : p[k] = q[k],
           Accounts(q, m), NEW events, NEW rf, NEW after, NEW m2,
           p[n + 1].memory_events = events, p[n + 1].reg_file = after,
           q[n].reg_file = rf, AccessMade(events, m, rf, after, m2)
    PROVE  Accounts(p, m2)
<1>1. \A a \in Window : Load8(m, a) = ByteIn(q, a, n)
    BY DEF Accounts
<1>2. \A a : ByteIn(p, a, n) = ByteIn(q, a, n)
    BY SamePast
<1>3. ASSUME NEW k \in 2 .. n, NEW e \in EventsIn(p, k) PROVE EventIsTrue(p, k, e)
    <2>1. p[k] = q[k]
        OBVIOUS
    <2>2. e \in EventsIn(q, k)
        BY <2>1 DEF EventsIn
    <2>3. EventIsTrue(q, k, e)
        BY <2>2 DEF Accounts
    <2>4. k \in Nat /\ k >= 2 /\ \A i \in 1 .. k : p[i] = q[i]
        OBVIOUS
    <2> QED BY ONLY <2>3, <2>4, EventsStayTrue
<1>4. /\ events = <<>> => EventsIn(p, n + 1) = {}
      /\ \A e : events = <<e>> => EventsIn(p, n + 1) = {e}
    BY DEF EventsIn
<1>5. ASSUME \A a \in Window : Load8(m2, a) = ByteIn(p, a, n + 1),
             \A e \in EventsIn(p, n + 1) : EventIsTrue(p, n + 1, e)
      PROVE  Accounts(p, m2)
    <2>1. \A k \in 2 .. n + 1 : k \in 2 .. n \/ k = n + 1
        OBVIOUS
    <2> QED BY <1>3, <1>5, <2>1 DEF Accounts
<1>6. CASE events = <<>> /\ m2 = m
    <2>1. \A a : ~Writes(p, n + 1, a)
        BY <1>4, <1>6 DEF Writes
    <2>2. \A a : ByteIn(p, a, n + 1) = ByteIn(p, a, n)
        BY <2>1, NextState
    <2> QED BY <1>1, <1>2, <1>4, <1>5, <1>6, <2>2
<1>7. ASSUME NEW e, events = <<e>>, IsLoadOf(e, m, after), m2 = m
      PROVE  Accounts(p, m2)
    <2>1. \A a : ~Writes(p, n + 1, a)
        BY <1>4, <1>7 DEF Writes, CoversByte, IsLoadOf
    <2>2. \A a : ByteIn(p, a, n + 1) = ByteIn(p, a, n)
        BY <2>1, NextState
    <2>3. EventIsTrue(p, n + 1, e)
        BY <1>1, <1>7, LoadAccounted
    <2> QED BY <1>1, <1>2, <1>4, <1>5, <1>7, <2>2, <2>3
<1>8. ASSUME NEW e, events = <<e>>, IsStoreOf(e, m, rf),
             m2 = StoreRaw(m, e.address, e.width, e.raw_value)
      PROVE  Accounts(p, m2)
    <2>1. EventIsTrue(p, n + 1, e)
        BY <1>1, <1>8, StoreAccounted
    <2>2. EventsIn(p, n + 1) = {e} /\ e.kind = "Store"
        BY <1>4, <1>8 DEF IsStoreOf
    <2>3. ASSUME NEW a \in Window PROVE Load8(m2, a) = ByteIn(p, a, n + 1)
        <3>1. CASE a \in Span(e.address, e.width)
            <4>1. CoversByte(e, a)
                BY <2>2, <3>1 DEF CoversByte
            <4>2. ByteIn(p, a, n + 1) = ByteOf(e.raw_value, a - e.address)
                BY <2>2, <4>1, NextState
            <4> QED BY <1>8, <3>1, <4>2, BytesAfterStore
        <3>2. CASE a \notin Span(e.address, e.width)
            <4>1. ~Writes(p, n + 1, a)
                BY <2>2, <3>2 DEF Writes, CoversByte
            <4>2. ByteIn(p, a, n + 1) = ByteIn(p, a, n)
                BY <4>1, NextState
            <4> QED BY <1>1, <1>2, <1>8, <3>2, <4>2, BytesAfterStore
        <3> QED BY <3>1, <3>2
    <2> QED BY <1>5, <2>1, <2>2, <2>3
<1> QED BY <1>6, <1>7, <1>8 DEF AccessMade

LEMMA StepsAreAccounted == Steps => []TraceAccountsForMemory
<1>1. Init => Accounts(States, memory)
    <2> SUFFICES ASSUME Init PROVE Accounts(States, memory)
        OBVIOUS
    <2>1. States = <<>> /\ Len(States) = 0 /\ memory = NoBytes
        BY DEF Init, EmptyTrace, States
    <2>2. \A a : ByteIn(States, a, 0) = 0
        BY DEF ByteIn, ByteFrom, WritersIn
    <2>3. \A a : Load8(NoBytes, a) = 0
        BY DEF Load8, NoBytes
    <2> QED BY <2>1, <2>2, <2>3 DEF Accounts
<1>2. TypeOK /\ TypeOK' /\ SnapshotsMatchMachine /\ Accounts(States, memory) /\ [Next]_vars
         => Accounts(States, memory)'
    <2> SUFFICES ASSUME TypeOK, TypeOK', SnapshotsMatchMachine, Accounts(States, memory),
                        [Next]_vars
                 PROVE  Accounts(States', memory')
        OBVIOUS
    <2>1. Accounts(States, memory) /\ IsSparseMap(memory)
        BY DEF TypeOK
    <2>2. CASE trace' = trace /\ memory' = memory
        BY <2>1, <2>2 DEF States
    <2>3. ASSUME NEW inst \in Fetched, NEW next_pc, NEW branch_taken, NEW events,
                 NEW terminated \in BOOLEAN,
                 Retire(inst, next_pc, branch_taken, events, terminated),
                 AccessMade(events, memory, regs, regs', memory')
          PROVE  Accounts(States', memory')
        <3> DEFINE n == Len(States)
        <3>1. PICK j \in job : inst \in InstructionAt(j.code, pc)
            BY DEF Fetched
        <3>2. n \in Nat /\ n >= 1 /\ States[n].reg_file = regs
            BY <3>1 DEF SnapshotsMatchMachine, LastState, TypeOK
        <3>3. /\ Len(States') = n + 1
              /\ States'[n + 1] = Recording(inst, next_pc, branch_taken, events, terminated)
              /\ \A k \in 1 .. n : States'[k] = States[k]
            BY <2>3, RetireStates DEF LastState, Recording
        <3>4. /\ States'[n + 1].memory_events = events
              /\ States'[n + 1].reg_file = regs'
            BY <3>3 DEF Recording
        <3> HIDE DEF n
        <3> QED BY <2>1, <2>3, <3>2, <3>3, <3>4, AccessAccounted DEF n
    <2>4. CASE Iterate
        BY <2>2, <2>3, <2>4, IterateAccesses
    <2>5. CASE \E j \in Jobs : Execute(j)
        <3>1. PICK j \in Jobs : Execute(j)
            BY <2>5
        <3>2. States' = <<InitialState(j.entry, regs')>> /\ memory' = NoBytes
            BY <3>1 DEF Execute, States, AddState, EmptyTrace
        <3> DEFINE s == InitialState(j.entry, regs')
        <3>3. EventsIn(<<s>>, 1) = {}
            BY DEF EventsIn, InitialState
        <3>4. \A a : WritersIn(<<s>>, a, 1) = {}
            BY <3>3 DEF WritersIn, Writes
        <3>5. \A a : ByteIn(<<s>>, a, 1) = 0 /\ Load8(NoBytes, a) = 0
            BY <3>4 DEF ByteIn, ByteFrom, Load8, NoBytes
        <3> HIDE DEF s
        <3>6. Len(<<s>>) = 1
            OBVIOUS
        <3>7. Accounts(<<s>>, NoBytes)
            BY <3>5, <3>6 DEF Accounts
        <3> QED BY <3>2, <3>7 DEF s
    <2> QED BY <2>2, <2>4, <2>5 DEF Next, vars
<1>3. TraceAccountsForMemory <=> Accounts(States, memory)
    BY AccountsIsProperty
<1> QED BY <1>1, <1>2, <1>3, StepsAreTyped, StepsKeepSnapshots, PTL DEF Steps

(* The trace accounts for the memory: a byte is what the last recorded     *)
(* store left there, a load reads and a store overwrites what the stores   *)
(* before it wrote (execute, execute_l, execute_s).                        *)
THEOREM MemoryAccounted == Spec => []TraceAccountsForMemory
BY StepsAreAccounted, PTL DEF Spec, Steps

-----------------------------------------------------------------------------
(* Inputs.  The snapshot of step zero is never replaced during a run, and  *)
(* the registers it shows are those of the loop over the inputs.           *)

FirstRegs == [r \in Reg |-> IF r = "sp" THEN InitialStackPointer ELSE 0]

WithInput(rf, input) == SetReg(rf, input.register, input.value)

\* The loop over the inputs has a register file after each of them.
LEMMA LoopOverInputs ==
    ASSUME NEW inputs, Len(inputs) \in Nat
    PROVE  \E after :
              /\ InputsApplied(inputs) = after[Len(inputs)]
              /\ after[0] = FirstRegs
              /\ \A n \in 1 .. Len(inputs) : after[n] = WithInput(after[n - 1], inputs[n])
<1> DEFINE N == Len(inputs)
           IsLoop(g, m) ==
             g = [n \in 0 .. m |-> IF n = 0 THEN FirstRegs ELSE WithInput(g[n - 1], inputs[n])]
           S == {m \in Nat : \E g : IsLoop(g, m)}
<1>1. 0 \in S
    <2> DEFINE g == [n \in 0 .. 0 |-> FirstRegs]
    <2>1. g = [n \in 0 .. 0 |-> IF n = 0 THEN FirstRegs ELSE WithInput(g[n - 1], inputs[n])]
        <3>1. \A n \in 0 .. 0 : n = 0
            OBVIOUS
        <3> QED BY <3>1
    <2>2. IsLoop(g, 0)
        BY <2>1
    <2> HIDE DEF IsLoop
    <2> QED BY <2>2
<1>2. ASSUME NEW m \in Nat, m \in S PROVE m + 1 \in S
    <2>1. PICK g : IsLoop(g, m)
        BY <1>2
    <2> DEFINE h == [n \in 0 .. m + 1 |-> IF n = m + 1 THEN WithInput(g[m], inputs[n]) ELSE g[n]]
    <2>2. ASSUME NEW n \in 0 .. m + 1
          PROVE  h[n] = IF n = 0 THEN FirstRegs ELSE WithInput(h[n - 1], inputs[n])
        <3>1. CASE n = m + 1
            <4>1. n - 1 = m /\ n # 0 /\ m \in 0 .. m + 1 /\ m # m + 1
                BY <3>1
            <4>2. h[m] = g[m]
                BY <4>1
            <4> QED BY <3>1, <4>1, <4>2
        <3>2. CASE n # m + 1
            <4>1. n \in 0 .. m
                BY <3>2
            <4>2. h[n] = g[n]
                BY <3>2
            <4>3. g[n] = IF n = 0 THEN FirstRegs ELSE WithInput(g[n - 1], inputs[n])
                BY <2>1, <4>1
            <4>4. n # 0 => n - 1 \in 0 .. m + 1 /\ n - 1 # m + 1
                BY <4>1
            <4>5. n # 0 => h[n - 1] = g[n - 1]
                BY <4>4
            <4> QED BY <4>2, <4>3, <4>5
        <3> QED BY <3>1, <3>2
    <2>3. h = [n \in 0 .. m + 1 |-> h[n]]
        OBVIOUS
    <2>4. IsLoop(h, m + 1)
        <3> HIDE DEF h
        <3> QED BY <2>2, <2>3
    <2> HIDE DEF IsLoop
    <2> QED BY <2>4
<1>3. N \in S
    <2> HIDE DEF S, N
    <2>1. N \in Nat
        BY DEF N
    <2> QED BY <1>1, <1>2, <2>1, EveryNumber
<1> DEFINE after == CHOOSE g : IsLoop(g, N)
<1>4. IsLoop(after, N)
    <2>1. \E g : IsLoop(g, N)
        BY <1>3
    <2> HIDE DEF IsLoop
    <2> QED BY <2>1
<1>5. after[0] = FirstRegs /\ \A n \in 1 .. N : after[n] = WithInput(after[n - 1], inputs[n])
    <2>1. 0 \in 0 .. N /\ \A n \in 1 .. N : n \in 0 .. N /\ n # 0
        OBVIOUS
    <2> HIDE DEF after
    <2> QED BY <1>4, <2>1
<1>6. InputsApplied(inputs) = after[N]
    BY DEF InputsApplied, FirstRegs, WithInput
<1> HIDE DEF after
<1> QED BY <1>5, <1>6

\* i is the last of the first n inputs that name r.
LastAmong(inputs, n, r, i) ==
    /\ i \in 1 .. n
    /\ inputs[i].register = r
    /\ \A k \in 1 .. n : inputs[k].register = r => k <= i

\* What r holds after the first n inputs.
Holds(inputs, n, r, value) ==
    IF r = "zero" THEN value = 0
    ELSE \/ \E i \in 1 .. n : LastAmong(inputs, n, r, i) /\ value = inputs[i].value
         \/ /\ \A k \in 1 .. n : inputs[k].register # r
            /\ value = FirstRegs[r]

\* One more input changes the register that it names, and no other.
LEMMA InputTaken ==
    ASSUME NEW inputs, NEW n \in Nat, NEW rf,
           rf = [r \in Reg |-> rf[r]], inputs[n + 1].register \in Reg,
           \A r \in Reg : Holds(inputs, n, r, rf[r])
    PROVE  LET next == WithInput(rf, inputs[n + 1])
           IN  /\ next = [r \in Reg |-> next[r]]
               /\ \A r \in Reg : Holds(inputs, n + 1, r, next[r])
<1> DEFINE next == WithInput(rf, inputs[n + 1])
           named == inputs[n + 1].register
<1>1. /\ next = [r \in Reg |-> next[r]]
      /\ \A r \in Reg : next[r] = IF r = named /\ r # "zero" THEN inputs[n + 1].value ELSE rf[r]
    BY DEF WithInput, SetReg
<1>2. \A k : k \in 1 .. n + 1 <=> k \in 1 .. n \/ k = n + 1
    OBVIOUS
<1>3. \A k \in 1 .. n + 1 : k <= n + 1
    OBVIOUS
<1>4. ASSUME NEW r \in Reg, NEW value, NEW old, Holds(inputs, n, r, old),
             value = IF r = named /\ r # "zero" THEN inputs[n + 1].value ELSE old
      PROVE  Holds(inputs, n + 1, r, value)
    <2>1. CASE r = "zero"
        BY <1>4, <2>1 DEF Holds
    <2>2. CASE r # "zero" /\ r = named
        <3>1. LastAmong(inputs, n + 1, r, n + 1)
            BY <1>2, <1>3, <2>2 DEF LastAmong
        <3> QED BY <1>2, <1>4, <2>2, <3>1 DEF Holds
    <2>3. CASE r # "zero" /\ r # named
        <3>1. \A i : LastAmong(inputs, n, r, i) => LastAmong(inputs, n + 1, r, i)
            BY <1>2, <2>3 DEF LastAmong
        <3> QED BY <1>2, <1>4, <2>3, <3>1 DEF Holds
    <2> QED BY <2>1, <2>2, <2>3
<1> HIDE DEF next, named
<1>5. \A r \in Reg : Holds(inputs, n + 1, r, next[r])
    BY <1>1, <1>4
<1> QED BY <1>1, <1>5 DEF next

LEMMA InputsInOrder ==
    ASSUME NEW inputs \in Seq(InputType)
    PROVE  InitialRegs(inputs) = InputsApplied(inputs)
<1> DEFINE N == Len(inputs)
<1>1. N \in Nat /\ DOMAIN inputs = 1 .. N /\ \A n \in 1 .. N : inputs[n].register \in Reg
    <2>1. N \in Nat /\ DOMAIN inputs = 1 .. N /\ \A n \in 1 .. N : inputs[n] \in InputType
        OBVIOUS
    <2>2. \A input \in InputType : input.register \in Reg
        BY DEF InputType
    <2> QED BY <2>1, <2>2
<1>2. PICK after : /\ InputsApplied(inputs) = after[N]
                   /\ after[0] = FirstRegs
                   /\ \A n \in 1 .. N : after[n] = WithInput(after[n - 1], inputs[n])
    BY <1>1, LoopOverInputs
<1> DEFINE Good(n) == /\ after[n] = [r \in Reg |-> after[n][r]]
                      /\ \A r \in Reg : Holds(inputs, n, r, after[n][r])
           S == {n \in Nat : n <= N => Good(n)}
<1>3. 0 \in S
    <2>1. after[0] = [r \in Reg |-> after[0][r]]
        BY <1>2 DEF FirstRegs
    <2>2. ASSUME NEW r \in Reg PROVE Holds(inputs, 0, r, after[0][r])
        BY <1>2 DEF Holds, FirstRegs
    <2> QED BY <2>1, <2>2
<1>4. ASSUME NEW n \in Nat, n \in S PROVE n + 1 \in S
    <2> SUFFICES ASSUME n + 1 <= N PROVE Good(n + 1)
        OBVIOUS
    <2>1. Good(n)
        BY <1>1, <1>4
    <2>2. n + 1 \in 1 .. N /\ (n + 1) - 1 = n
        BY <1>1
    <2>3. after[n + 1] = WithInput(after[n], inputs[n + 1]) /\ inputs[n + 1].register \in Reg
        BY <1>1, <1>2, <2>2
    <2> DEFINE rf == after[n]
    <2>4. /\ rf = [r \in Reg |-> rf[r]]
          /\ \A r \in Reg : Holds(inputs, n, r, rf[r])
        BY <2>1
    <2> HIDE DEF rf
    <2>5. /\ WithInput(rf, inputs[n + 1]) = [r \in Reg |-> WithInput(rf, inputs[n + 1])[r]]
          /\ \A r \in Reg : Holds(inputs, n + 1, r, WithInput(rf, inputs[n + 1])[r])
        BY ONLY <2>3, <2>4, <1>4, InputTaken
    <2> QED BY <2>3, <2>5 DEF rf
<1>5. Good(N)
    <2>1. N \in S
        <3> HIDE DEF S, N
        <3> QED BY <1>1, <1>3, <1>4, EveryNumber
    <2> QED BY <1>1, <2>1
<1>6. ASSUME NEW r \in Reg PROVE InitialRegs(inputs)[r] = after[N][r]
    <2>1. \A i : IsLastFor(inputs, r, i) <=> LastAmong(inputs, N, r, i)
        BY <1>1 DEF IsLastFor, LastAmong
    <2>2. Holds(inputs, N, r, after[N][r])
        BY <1>5
    <2>3. CASE r = "zero"
        BY <2>2, <2>3 DEF InitialRegs, Holds
    <2>4. CASE r # "zero" /\ \E i \in 1 .. N : LastAmong(inputs, N, r, i)
        <3> DEFINE c == CHOOSE i \in DOMAIN inputs : IsLastFor(inputs, r, i)
        <3>1. c \in 1 .. N /\ LastAmong(inputs, N, r, c)
            <4>1. \E i \in DOMAIN inputs : IsLastFor(inputs, r, i)
                BY <1>1, <2>1, <2>4
            <4>2. c \in DOMAIN inputs /\ IsLastFor(inputs, r, c)
                BY <4>1
            <4> HIDE DEF c
            <4> QED BY <1>1, <2>1, <4>2
        <3>2. InitialRegs(inputs)[r] = inputs[c].value
            BY <1>1, <2>1, <2>4 DEF InitialRegs
        <3> HIDE DEF c, N
        <3>3. PICK i \in 1 .. N : LastAmong(inputs, N, r, i) /\ after[N][r] = inputs[i].value
            BY <2>2, <2>4 DEF Holds, LastAmong
        <3>4. i = c
            <4>1. i <= c /\ c <= i
                BY <3>1, <3>3 DEF LastAmong
            <4> QED BY <1>1, <3>1, <4>1
        <3> QED BY <3>2, <3>3, <3>4
    <2>5. CASE r # "zero" /\ ~\E i \in 1 .. N : LastAmong(inputs, N, r, i)
        <3>1. ~\E i \in DOMAIN inputs : IsLastFor(inputs, r, i)
            BY <1>1, <2>1, <2>5
        <3>2. InitialRegs(inputs)[r] = FirstRegs[r]
            BY <2>5, <3>1 DEF InitialRegs, FirstRegs
        <3> QED BY <2>2, <2>5, <3>2 DEF Holds
    <2> QED BY <2>3, <2>4, <2>5
<1>7. InitialRegs(inputs) = [r \in Reg |-> InitialRegs(inputs)[r]]
    BY DEF InitialRegs
<1>8. InitialRegs(inputs) = after[N]
    <2> HIDE DEF N
    <2>1. after[N] = [r \in Reg |-> after[N][r]]
        BY <1>5
    <2> QED BY <1>6, <1>7, <2>1
<1> QED BY <1>2, <1>8

\* Step zero, as Execute sets it.
StartsWithInputs ==
    \A j \in job : /\ Len(States) >= 1
                   /\ States[1].reg_file = InitialRegs(j.inputs)
                   /\ States[1].next_pc = j.entry

LEMMA StepsStart == Steps => []StartsWithInputs
<1>1. Init => StartsWithInputs
    BY DEF Init, StartsWithInputs
<1>2. TypeOK /\ TypeOK' /\ StartsWithInputs /\ [Next]_vars => StartsWithInputs'
    <2> SUFFICES ASSUME TypeOK, TypeOK', StartsWithInputs, [Next]_vars
                 PROVE  StartsWithInputs'
        OBVIOUS
    <2>1. CASE States' = States /\ job' = job
        BY <2>1 DEF StartsWithInputs
    <2>2. ASSUME NEW inst, NEW next_pc, NEW branch_taken, NEW events, NEW terminated,
                 Retire(inst, next_pc, branch_taken, events, terminated)
          PROVE  StartsWithInputs'
        <3>1. /\ Len(States') = Len(States) + 1 /\ Len(States) \in Nat
              /\ \A k \in 1 .. Len(States) : States'[k] = States[k]
            BY <2>2, RetireStates
        <3>2. job' = job
            BY <2>2 DEF Retire
        <3> SUFFICES ASSUME NEW j \in job
                     PROVE  /\ Len(States') >= 1
                            /\ States'[1].reg_file = InitialRegs(j.inputs)
                            /\ States'[1].next_pc = j.entry
            BY <3>2 DEF StartsWithInputs
        <3>3. /\ Len(States) >= 1
              /\ States[1].reg_file = InitialRegs(j.inputs)
              /\ States[1].next_pc = j.entry
            BY DEF StartsWithInputs
        <3>4. 1 \in 1 .. Len(States)
            BY <3>1, <3>3
        <3> QED BY <3>1, <3>3, <3>4
    <2>3. CASE Iterate
        <3>1. ASSUME NEW outcome, Stop(outcome) PROVE StartsWithInputs'
            BY <2>1, <3>1 DEF Stop, States
        <3> QED BY <2>2, <2>3, <3>1, IterateShape
    <2>4. CASE \E j \in Jobs : Execute(j)
        <3>1. PICK j \in Jobs : Execute(j)
            BY <2>4
        <3>2. States' = <<InitialState(j.entry, regs')>> /\ job' = {j}
              /\ regs' = InitialRegs(j.inputs)
            BY <3>1 DEF Execute, States, AddState, EmptyTrace
        <3>3. Len(States') = 1 /\ States'[1].reg_file = regs' /\ States'[1].next_pc = j.entry
            BY <3>2 DEF InitialState
        <3> QED BY <3>2, <3>3 DEF StartsWithInputs
    <2>5. CASE UNCHANGED vars
        BY <2>1, <2>5 DEF vars, States
    <2> QED BY <2>3, <2>4, <2>5 DEF Next
<1> QED BY <1>1, <1>2, StepsAreTyped, PTL DEF Steps

(* The snapshot of step zero shows the configured registers, applied in    *)
(* order, at any time of a run and after it (the head of execute(),        *)
(* State::initial, RegFile::set).                                          *)
THEOREM InputsTaken == Spec => []FirstSnapshotTakesInputs
<1>3. TypeOK /\ StartsWithInputs => FirstSnapshotTakesInputs
    <2> SUFFICES ASSUME TypeOK, StartsWithInputs, NEW j \in job
                 PROVE  States[1].reg_file = InputsApplied(j.inputs)
        BY DEF FirstSnapshotTakesInputs
    <2>1. j \in Jobs
        BY DEF TypeOK, Option
    <2>2. j.inputs \in Seq(InputType)
        BY <2>1, JobsAssumption DEF JobType
    <2> QED BY <2>2, InputsInOrder DEF StartsWithInputs
<1> QED BY <1>3, StepsStart, TypeCorrect, PTL DEF Spec, Steps
=============================================================================
