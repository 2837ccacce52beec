-------------------------- MODULE AssemblerProofs --------------------------
(***************************************************************************)
(* The assembler only makes programs that the executor can run, whatever   *)
(* the sources, labels and registers are.                                  *)
(***************************************************************************)
EXTENDS AssemblerProperties, MemoryOpsProofs, SequenceTheorems, FiniteSetTheorems

NeedsTarget(inst) == inst.type \in {"B", "JAL"}

\* Until it is resolved, an entry of the program names a label just when its
\* instruction needs a target.
LabelFits(e) ==
    IF NeedsTarget(e.inst) THEN \E l \in Label : e.label = {l} ELSE e.label = {}

Entry == [inst : Instruction, label : SUBSET Label]

\* There are no more entries than statements, and labels stand for targets.
IInv ==
    /\ TypeOK
    /\ program \in Seq(Entry)
    /\ Len(program) <= done
    /\ phase = "assemble" => \A k \in DOMAIN program : LabelFits(program[k])

-----------------------------------------------------------------------------
LEMMA ParseType ==
    ASSUME NEW cmd, NEW ops
    PROVE  Parse(cmd, ops) \subseteq ops
BY DEF Parse

LEMMA BranchType ==
    ASSUME NEW op \in BOpCode, NEW rs1 \in Reg, NEW rs2 \in Reg
    PROVE  Branch(op, rs1, rs2) \in BInst
BY DEF Branch, BInst, Target, Option

LEMMA AddiType ==
    ASSUME NEW rd \in Reg, NEW rs \in Reg, NEW imm \in I32
    PROVE  Addi(rd, rs, imm) \in IInst
BY DEF Addi, IInst

LEMMA TwoRegisterType ==
    ASSUME NEW cmd, NEW rs1 \in Reg, NEW rs2 \in Reg
    PROVE  LowerTwoRegisterBranch(cmd, rs1, rs2) \subseteq BInst
BY BranchType, ParseType DEF LowerTwoRegisterBranch, BOpCode

LEMMA ZeroBranchType ==
    ASSUME NEW cmd \in {"beqz", "bnez", "bltz", "bgez"}, NEW rs \in Reg
    PROVE  LowerZeroBranch(cmd, rs) \subseteq BInst
BY BranchType, IsaAssumption DEF LowerZeroBranch, BOpCode

LEMMA LabelOperandType ==
    ASSUME NEW cmd, NEW regs, regs = <<>> \/ regs[1] \in Reg,
           \A r \in Range(regs) : r \in Reg
    PROVE  LowerLabelOperand(cmd, regs) \subseteq BInst \cup JalInst
<1>2. \A rd \in Reg : [type |-> "JAL", rd |-> rd, target |-> {}] \in JalInst
    BY DEF JalInst, Target, Option
<1>3. "zero" \in Reg /\ "ra" \in Reg
    BY IsaAssumption
<1>4. CASE cmd \in {"beqz", "bnez", "bltz", "bgez"}
    <2>1. LowerLabelOperand(cmd, regs) = UNION {LowerZeroBranch(cmd, rs) : rs \in Range(regs)}
        BY <1>4 DEF LowerLabelOperand
    <2>2. \A rs \in Range(regs) : LowerZeroBranch(cmd, rs) \subseteq BInst
        BY <1>4, ZeroBranchType
    <2> QED BY <2>1, <2>2
<1>5. CASE cmd \notin {"beqz", "bnez", "bltz", "bgez"}
    <2>1. (IF regs = <<>> THEN "ra" ELSE regs[1]) \in Reg
        BY <1>3
    <2>2. \A i \in LowerLabelOperand(cmd, regs) : \E rd \in Reg :
              i = [type |-> "JAL", rd |-> rd, target |-> {}]
        BY <1>3, <1>5, <2>1 DEF LowerLabelOperand
    <2> QED BY <1>2, <2>2
<1> QED BY <1>4, <1>5

LEMMA MemoryOperandType ==
    ASSUME NEW cmd, NEW regs, regs[1] \in Reg, regs[2] \in Reg,
           NEW imm, imm \subseteq I32
    PROVE  LowerMemoryOperand(cmd, regs, imm) \subseteq LInst \cup SInst
<1> DEFINE ref == [register |-> regs[2],
                   offset   |-> IF imm = {} THEN 0 ELSE CHOOSE i \in imm : TRUE]
<1>1. 0 \in I32
    BY ModulusPositive DEF I32, Signed, Widths
<1>2. ref \in MemoryRef
    BY <1>1 DEF MemoryRef
<1> HIDE DEF ref
<1>3. \A c \in LoadOpCode :
          [type |-> "L", op_code |-> c, rd |-> regs[1], address |-> ref] \in LInst
    BY <1>2 DEF LInst
<1>4. \A c \in StoreOpCode :
          [type |-> "S", op_code |-> c, rs |-> regs[1], address |-> ref] \in SInst
    BY <1>2 DEF SInst
<1>5. LowerMemoryOperand(cmd, regs, imm) =
          {[type |-> "L", op_code |-> c, rd |-> regs[1], address |-> ref]
              : c \in Parse(cmd, LoadOpCode)}
          \cup {[type |-> "S", op_code |-> c, rs |-> regs[1], address |-> ref]
              : c \in Parse(cmd, StoreOpCode)}
    BY DEF LowerMemoryOperand, ref
<1> QED BY <1>3, <1>4, <1>5, ParseType

-----------------------------------------------------------------------------
\* What create_inst() makes is an instruction, with a label if it needs one.
LEMMA CreateInstType ==
    ASSUME NEW cmd, NEW o \in OperandsType, NEW inst \in CreateInst(cmd, o)
    PROVE  /\ inst \in Instruction
           /\ IF NeedsTarget(inst) THEN \E l \in Label : o.label = {l} ELSE o.label = {}
<1>1. Range(o.regs) \subseteq Reg /\ o.imm \subseteq I32
    BY DEF CreateInst
<1>2. \A n \in DOMAIN o.regs : o.regs[n] \in Reg
    BY <1>1 DEF Range
<1>3. o.label \in One(Label) => \E l \in Label : o.label = {l}
    BY DEF One, Option
<1>0. 0 \in I32 /\ "zero" \in Reg /\ "ra" \in Reg
    BY ModulusPositive, IsaAssumption DEF I32, Signed, Widths
<1>4. CASE o.rule = "memory"
    <2>1. o.regs \in Names(2) /\ o.label = {}
        BY <1>4 DEF OperandsType
    <2>2. o.regs[1] \in Reg /\ o.regs[2] \in Reg
        BY <1>2, <2>1 DEF Names
    <2>3. inst \in LowerMemoryOperand(cmd, o.regs, o.imm)
        BY <1>1, <1>4 DEF CreateInst
    <2>4. inst \in LInst \cup SInst
        BY <1>1, <2>2, <2>3, MemoryOperandType
    <2> QED BY <2>1, <2>4 DEF Instruction, NeedsTarget, LInst, SInst
<1>5. CASE o.rule = "r"
    <2>1. o.regs \in Names(3) /\ o.label = {}
        BY <1>5 DEF OperandsType
    <2>2. o.regs[1] \in Reg /\ o.regs[2] \in Reg /\ o.regs[3] \in Reg
        BY <1>2, <2>1 DEF Names
    <2>3. inst \in LowerROperand(cmd, o.regs)
        BY <1>1, <1>5 DEF CreateInst
    <2>4. inst \in RInst
        BY <2>2, <2>3, ParseType DEF LowerROperand, RInst
    <2> QED BY <2>1, <2>4 DEF Instruction, NeedsTarget, RInst
<1>6. CASE o.rule = "i"
    <2>1. o.regs \in Names(2) /\ o.label = {}
        BY <1>6 DEF OperandsType
    <2>2. o.regs[1] \in Reg /\ o.regs[2] \in Reg
        BY <1>2, <2>1 DEF Names
    <2>3. \E i \in I32 : inst = Addi(o.regs[1], o.regs[2], i)
        BY <1>1, <1>6 DEF CreateInst
    <2>4. inst \in IInst
        BY <2>2, <2>3, AddiType
    <2> QED BY <2>1, <2>4 DEF Instruction, NeedsTarget, IInst
<1>7. CASE o.rule = "branch"
    <2>1. o.regs \in Names(2) /\ o.label \in One(Label)
        BY <1>7 DEF OperandsType
    <2>2. o.regs[1] \in Reg /\ o.regs[2] \in Reg
        BY <1>2, <2>1 DEF Names
    <2>3. inst \in LowerTwoRegisterBranch(cmd, o.regs[1], o.regs[2])
        BY <1>1, <1>7 DEF CreateInst
    <2>4. inst \in BInst
        BY <2>2, <2>3, TwoRegisterType
    <2> QED BY <1>3, <2>1, <2>4 DEF Instruction, NeedsTarget, BInst
<1>8. CASE o.rule = "label"
    <2>1. o.regs \in Names(0) \cup Names(1) /\ o.label \in One(Label)
        BY <1>8 DEF OperandsType
    <2>2. inst \in LowerLabelOperand(cmd, o.regs)
        BY <1>1, <1>8 DEF CreateInst
    <2>3. o.regs = <<>> \/ o.regs[1] \in Reg
        BY <1>2, <2>1 DEF Names
    <2>4. inst \in BInst \cup JalInst
        BY <1>1, <2>2, <2>3, LabelOperandType
    <2> QED BY <1>3, <2>1, <2>4 DEF Instruction, NeedsTarget, BInst, JalInst
<1>9. CASE o.rule = "binary"
    <2>1. o.regs \in Names(2) /\ o.label = {}
        BY <1>9 DEF OperandsType
    <2>2. o.regs[1] \in Reg /\ o.regs[2] \in Reg
        BY <1>2, <2>1 DEF Names
    <2>3. inst = Addi(o.regs[1], o.regs[2], 0)
        BY <1>1, <1>9 DEF CreateInst
    <2>4. inst \in IInst
        BY <1>0, <2>2, <2>3, AddiType
    <2> QED BY <2>1, <2>4 DEF Instruction, NeedsTarget, IInst
<1>10. CASE o.rule = "binary_imm"
    <2>1. o.regs \in Names(1) /\ o.label = {}
        BY <1>10 DEF OperandsType
    <2>2. o.regs[1] \in Reg
        BY <1>2, <2>1 DEF Names
    <2>3. \E i \in I32 : inst = Addi(o.regs[1], "zero", i)
        BY <1>1, <1>10 DEF CreateInst
    <2>4. inst \in IInst
        BY <1>0, <2>2, <2>3, AddiType
    <2> QED BY <2>1, <2>4 DEF Instruction, NeedsTarget, IInst
<1>11. CASE o.rule = "none"
    <2>1. o.label = {}
        BY <1>11 DEF OperandsType
    <2>2. inst = Ret
        BY <1>1, <1>11 DEF CreateInst
    <2>3. inst \in JalrInst
        BY <1>0, <2>2 DEF Ret, JalrInst, MemoryRef
    <2> QED BY <2>1, <2>3 DEF Instruction, NeedsTarget, JalrInst
<1>12. o.rule \in {"memory", "r", "i", "branch", "label", "binary", "binary_imm", "none"}
    BY DEF OperandsType
<1> QED BY <1>4, <1>5, <1>6, <1>7, <1>8, <1>9, <1>10, <1>11, <1>12
-----------------------------------------------------------------------------
\* The statements of the source have their types, and addresses are u64s.
LEMMA SourceType ==
    ASSUME TypeOK
    PROVE  /\ source \in Seq(StatementType)
           /\ WordSize * Len(source) < Modulus(8)
           /\ \A s \in Statement("instruction") : s.operands \in OperandsType
           /\ \A s \in Statement("directive") \cup Statement("label") : s.label \in Label
           /\ \A type : Statement(type) # {} => done + 1 <= Len(source) /\ phase = "assemble"
<1>1. source \in Seq(StatementType) /\ WordSize * Len(source) < Modulus(8)
    BY AssemblerAssumption DEF TypeOK
<1>2. done \in Nat
    BY <1>1 DEF TypeOK
<1>3. ASSUME NEW type, NEW s \in Statement(type)
      PROVE  s \in StatementType /\ s.type = type /\ done + 1 <= Len(source)
             /\ phase = "assemble"
    <2>1. /\ phase = "assemble" /\ done + 1 <= Len(source)
          /\ s = source[done + 1] /\ source[done + 1].type = type
        BY <1>3 DEF Statement
    <2>2. done + 1 \in 1 .. Len(source)
        BY <1>1, <1>2, <2>1
    <2> QED BY <1>1, <2>1, <2>2
<1>4. \A s \in StatementType :
          /\ s.type = "instruction" => s.operands \in OperandsType
          /\ s.type \in {"directive", "label"} => s.label \in Label
    BY DEF StatementType
<1> QED BY <1>1, <1>3, <1>4

\* A resolved entry has an instruction whose target is the address of its label.
LEMMA ResolveType ==
    ASSUME NEW e \in Entry, LabelFits(e), DOMAIN labels \subseteq Label,
           e.label \subseteq DOMAIN labels,
           \A l \in DOMAIN labels : labels[l] \in U64
    PROVE  /\ ResolveTarget(e) \in Entry
           /\ ResolveTarget(e).label = {}
           /\ NeedsTarget(ResolveTarget(e).inst) =>
                 \E l \in DOMAIN labels : ResolveTarget(e).inst.target = {labels[l]}
<1>1. CASE e.label = {}
    BY <1>1 DEF ResolveTarget, LabelFits
<1>2. CASE e.label # {}
    <2>1. NeedsTarget(e.inst)
        BY <1>2 DEF LabelFits
    <2>2. PICK l \in Label : e.label = {l}
        BY <2>1 DEF LabelFits
    <2>3. l \in DOMAIN labels /\ labels[l] \in U64
        BY <2>2
    <2> DEFINE inst == [e.inst EXCEPT !.target = {labels[l]}]
    <2>4. ResolveTarget(e) = [inst |-> inst, label |-> {}]
        <3>1. {labels[m] : m \in e.label \cap DOMAIN labels} = {labels[l]}
            BY <2>2, <2>3
        <3> QED BY <1>2, <3>1 DEF ResolveTarget
    <2>5. e.inst \in BInst \cup JalInst
        BY <2>1 DEF Entry, NeedsTarget, Instruction, RInst, IInst, LInst, SInst, JalrInst
    <2>6. {labels[l]} \in Target
        BY <2>3 DEF Target, Option
    <2>7. inst \in Instruction /\ inst.target = {labels[l]}
        <3>1. CASE e.inst \in BInst
            BY <2>6, <3>1 DEF BInst, Instruction
        <3>2. CASE e.inst \in JalInst
            BY <2>6, <3>2 DEF JalInst, Instruction
        <3> QED BY <2>5, <3>1, <3>2
    <2> HIDE DEF inst
    <2> QED BY <2>3, <2>4, <2>7 DEF Entry
<1> QED BY <1>1, <1>2

LEMMA Initially ==
    Init => IInv
<1> SUFFICES ASSUME Init PROVE IInv
    OBVIOUS
<1>1. source \in Seq(StatementType)
    BY AssemblerAssumption DEF Init, Start
<1>2. Len(source) \in Nat
    BY <1>1
<1>3. Len(program) = 0 /\ DOMAIN program = {} /\ program \in Seq(Entry) /\ DOMAIN labels = {}
    BY DEF Init, Start
<1> QED BY <1>2, <1>3 DEF Init, Start, IInv, TypeOK, WordSize, Entry

\* The parts of the invariant that no action on statements disturbs.
LEMMA Facts ==
    ASSUME IInv
    PROVE  /\ program \in Seq(Entry)
           /\ Len(program) \in Nat /\ DOMAIN program = 1 .. Len(program)
           /\ done \in Nat /\ Len(source) \in Nat /\ done <= Len(source)
           /\ pc = 4 * Len(program) /\ pc \in Nat /\ pc \in U64
           /\ \A l \in DOMAIN labels : labels[l] \in U64
<1>1. program \in Seq(Entry) /\ source \in Seq(StatementType)
    BY SourceType DEF IInv, Entry
<1>2. /\ Len(program) \in Nat /\ DOMAIN program = 1 .. Len(program)
      /\ Len(source) \in Nat
    BY <1>1
<1>3. done \in Nat /\ done <= Len(source) /\ pc = 4 * Len(program) /\ Len(program) <= done
    BY <1>2 DEF IInv, TypeOK, WordSize
<1>4. 4 * Len(source) < Modulus(8) /\ Modulus(8) \in Nat
    BY SourceType, ModulusPositive DEF IInv, WordSize, Widths
<1>5. pc \in Nat /\ pc < Modulus(8)
    BY <1>2, <1>3, <1>4
<1>6. \A a \in 0 .. pc : a \in U64
    BY <1>4, <1>5 DEF U64, Unsigned
<1> QED BY <1>1, <1>2, <1>3, <1>5, <1>6 DEF IInv, TypeOK

LEMMA InstructionStep ==
    IInv /\ AssembleInstruction => IInv'
<1> SUFFICES ASSUME IInv, AssembleInstruction PROVE IInv'
    OBVIOUS
<1>1. PICK s \in Statement("instruction") : \E inst \in CreateInst(s.cmd, s.operands) :
          /\ program' = Append(program, [inst |-> inst, label |-> s.operands.label])
          /\ pc' = pc + WordSize
          /\ done' = done + 1
          /\ UNCHANGED <<source, labels, globals, phase>>
    BY DEF AssembleInstruction
<1>2. PICK inst \in CreateInst(s.cmd, s.operands) :
          program' = Append(program, [inst |-> inst, label |-> s.operands.label])
    BY <1>1
<1> DEFINE e == [inst |-> inst, label |-> s.operands.label]
<1>3. s.operands \in OperandsType /\ done + 1 <= Len(source) /\ phase = "assemble"
    BY SourceType DEF IInv
<1>4. e \in Entry /\ LabelFits(e)
    BY <1>2, <1>3, CreateInstType DEF Entry, LabelFits
<1>5. program' = Append(program, e)
    BY <1>2
<1> HIDE DEF e
<1>6. program' \in Seq(Entry) /\ Len(program') = Len(program) + 1
      /\ DOMAIN program' = 1 .. Len(program) + 1
    BY <1>4, <1>5, Facts
<1>7. \A k \in DOMAIN program' :
          program'[k] = IF k = Len(program) + 1 THEN e ELSE program[k]
    BY <1>4, <1>5, <1>6, Facts
<1>8. \A k \in DOMAIN program' : program'[k] \in Entry /\ LabelFits(program'[k])
    <2>1. \A k \in DOMAIN program' : k = Len(program) + 1 \/ k \in DOMAIN program
        BY <1>6, Facts
    <2>2. \A k \in DOMAIN program : program[k] \in Entry /\ LabelFits(program[k])
        BY <1>3, Facts DEF IInv
    <2> QED BY <1>4, <1>7, <2>1, <2>2
<1>9. pc' = 4 * Len(program') /\ pc' \in Nat /\ pc <= pc' /\ Len(program') <= done'
    BY <1>1, <1>6, Facts DEF IInv, WordSize
<1>10. done' \in 0 .. Len(source)
    BY <1>1, <1>3, Facts
<1>11. \A l \in DOMAIN labels' : labels'[l] \in 0 .. pc' /\ labels'[l] % WordSize = 0
    BY <1>1, <1>9, Facts DEF IInv, TypeOK
<1>12. phase' = "assemble"
    BY <1>1, <1>3
<1> QED BY <1>1, <1>6, <1>8, <1>9, <1>10, <1>11, <1>12 DEF IInv, TypeOK, Entry, WordSize

LEMMA DirectiveStep ==
    IInv /\ AssembleDirective => IInv'
<1> SUFFICES ASSUME IInv, AssembleDirective PROVE IInv'
    OBVIOUS
<1>1. PICK s \in Statement("directive") :
          /\ globals' = globals \cup {s.label}
          /\ done' = done + 1
          /\ UNCHANGED <<source, program, pc, labels, phase>>
    BY DEF AssembleDirective
<1>2. s.label \in Label /\ done + 1 <= Len(source)
    BY SourceType DEF IInv
<1>3. done' \in 0 .. Len(source) /\ Len(program) <= done'
    BY <1>1, <1>2, Facts DEF IInv
<1> QED BY <1>1, <1>2, <1>3 DEF IInv, TypeOK

LEMMA LabelStep ==
    IInv /\ AssembleLabel => IInv'
<1> SUFFICES ASSUME IInv, AssembleLabel PROVE IInv'
    OBVIOUS
<1>1. PICK s \in Statement("label") :
          /\ labels' = [l \in DOMAIN labels \cup {s.label} |->
                          IF l = s.label THEN pc ELSE labels[l]]
          /\ done' = done + 1
          /\ UNCHANGED <<source, program, pc, globals, phase>>
    BY DEF AssembleLabel
<1>2. s.label \in Label /\ done + 1 <= Len(source)
    BY SourceType DEF IInv
<1>3. done' \in 0 .. Len(source) /\ Len(program) <= done'
    BY <1>1, <1>2, Facts DEF IInv
<1>4. /\ DOMAIN labels' = DOMAIN labels \cup {s.label}
      /\ \A l \in DOMAIN labels' : labels'[l] = IF l = s.label THEN pc ELSE labels[l]
    BY <1>1
<1>5. pc \in 0 .. pc /\ pc % WordSize = 0
    BY Facts DEF WordSize
<1>6. \A l \in DOMAIN labels' : labels'[l] \in 0 .. pc /\ labels'[l] % WordSize = 0
    BY <1>4, <1>5 DEF IInv, TypeOK
<1> QED BY <1>1, <1>2, <1>3, <1>4, <1>6 DEF IInv, TypeOK

LEMMA RefuseStatementStep ==
    IInv /\ RefuseStatement => IInv'
BY DEF IInv, TypeOK, RefuseStatement

\* resolve() keeps the addresses and the number of the instructions.
LEMMA Resolved ==
    ASSUME IInv, phase = "assemble", NEW S \in SUBSET DOMAIN program,
           \A k \in S : program[k].label \subseteq DOMAIN labels,
           program' = [k \in DOMAIN program |->
                          IF k \in S THEN ResolveTarget(program[k]) ELSE program[k]]
    PROVE  /\ program' \in Seq(Entry) /\ Len(program') = Len(program)
           /\ DOMAIN program' = DOMAIN program
           /\ \A k \in S : /\ program'[k].label = {}
                           /\ NeedsTarget(program'[k].inst) =>
                                 \E l \in DOMAIN labels :
                                     program'[k].inst.target = {labels[l]}
<1>1. DOMAIN labels \subseteq Label
    BY DEF IInv, TypeOK
<1>2. \A k \in DOMAIN program : program[k] \in Entry /\ LabelFits(program[k])
    BY Facts DEF IInv
<1>3. \A k \in S :
          /\ ResolveTarget(program[k]) \in Entry
          /\ ResolveTarget(program[k]).label = {}
          /\ NeedsTarget(ResolveTarget(program[k]).inst) =>
                \E l \in DOMAIN labels :
                    ResolveTarget(program[k]).inst.target = {labels[l]}
    BY <1>1, <1>2, Facts, ResolveType
<1>4. \A k \in DOMAIN program :
          /\ program'[k] = IF k \in S THEN ResolveTarget(program[k]) ELSE program[k]
          /\ program'[k] \in Entry
    BY <1>2, <1>3
<1>5. program' \in [1 .. Len(program) -> Entry]
    BY <1>4, Facts
<1>6. program' \in Seq(Entry) /\ Len(program') = Len(program)
    BY <1>5, Facts, SeqDef
<1> QED BY <1>3, <1>4, <1>6

LEMMA ResolveStep ==
    IInv /\ Resolve => IInv'
<1> SUFFICES ASSUME IInv, Resolve PROVE IInv'
    OBVIOUS
<1>1. /\ phase = "assemble" /\ phase' = "assembled"
      /\ UNCHANGED <<source, done, pc, labels, globals>>
      /\ program' = [k \in DOMAIN program |-> ResolveTarget(program[k])]
    BY DEF Resolve
<1>2. \A k \in DOMAIN program : program[k].label \subseteq DOMAIN labels
    BY DEF Resolve, Unresolvable
<1> DEFINE S == DOMAIN program
<1>3. program' = [k \in DOMAIN program |->
                     IF k \in S THEN ResolveTarget(program[k]) ELSE program[k]]
    BY <1>1
<1> HIDE DEF S
<1>4. S \in SUBSET DOMAIN program /\ S = DOMAIN program
    BY DEF S
<1>5. /\ program' \in Seq(Entry) /\ Len(program') = Len(program)
      /\ DOMAIN program' = DOMAIN program
      /\ \A k \in S : /\ program'[k].label = {}
                      /\ NeedsTarget(program'[k].inst) =>
                            \E l \in DOMAIN labels : program'[k].inst.target = {labels[l]}
    BY <1>1, <1>2, <1>3, <1>4, Resolved
<1>6. ASSUME NEW k \in DOMAIN program'
      PROVE  /\ program'[k].inst \in Instruction
             /\ program'[k].label = {}
             /\ program'[k].inst.type \in {"B", "JAL"} =>
                   \E t \in 0 .. pc' : program'[k].inst.target = {t} /\ t % WordSize = 0
    <2>1. program'[k] \in Entry
        BY <1>5
    <2>2. \A l \in DOMAIN labels : labels[l] \in 0 .. pc' /\ labels[l] % WordSize = 0
        BY <1>1 DEF IInv, TypeOK
    <2> QED BY <1>4, <1>5, <2>1, <2>2 DEF Entry, NeedsTarget
<1> QED BY <1>1, <1>5, <1>6 DEF IInv, TypeOK, Entry

LEMMA RefuseTargetStep ==
    IInv /\ RefuseTarget => IInv'
<1> SUFFICES ASSUME IInv, RefuseTarget PROVE IInv'
    OBVIOUS
<1> DEFINE S == {k \in DOMAIN program : \A u \in Unresolvable : k < u}
<1>1. /\ phase = "assemble" /\ phase' = "refused"
      /\ UNCHANGED <<source, done, pc, labels, globals>>
      /\ program' = [k \in DOMAIN program |->
                        IF \A u \in Unresolvable : k < u
                        THEN ResolveTarget(program[k]) ELSE program[k]]
    BY DEF RefuseTarget
<1>2. program' = [k \in DOMAIN program |->
                     IF k \in S THEN ResolveTarget(program[k]) ELSE program[k]]
    BY <1>1
<1>3. \A k \in S : program[k].label \subseteq DOMAIN labels
    <2>1. \A k \in DOMAIN program : ~(k < k)
        BY Facts
    <2> QED BY <2>1 DEF Unresolvable
<1>4. S \in SUBSET DOMAIN program
    OBVIOUS
<1> HIDE DEF S
<1>5. /\ program' \in Seq(Entry) /\ Len(program') = Len(program)
      /\ DOMAIN program' = DOMAIN program
    BY <1>1, <1>2, <1>3, <1>4, Resolved
<1>6. ASSUME NEW k \in DOMAIN program' PROVE program'[k].inst \in Instruction
    <2>1. program'[k] \in Entry
        BY <1>5
    <2> QED BY <2>1 DEF Entry
<1> QED BY <1>1, <1>5, <1>6 DEF IInv, TypeOK, Entry

(* What assemble() and resolve() build is always a program in the making,  *)
(* and once assembled one that the executor can run: its instructions have *)
(* the types that execute() takes, and every branch and direct jump has an *)
(* address of the program, or the one after it, for its target.            *)
THEOREM AssemblerTypeCorrect == Spec => []TypeOK
<1>1. IInv /\ [Next]_vars => IInv'
    <2> SUFFICES ASSUME IInv, [Next]_vars PROVE IInv'
        OBVIOUS
    <2>1. CASE UNCHANGED vars
        BY <2>1 DEF vars, IInv, TypeOK
    <2> QED BY <2>1, InstructionStep, DirectiveStep, LabelStep, RefuseStatementStep,
               ResolveStep, RefuseTargetStep DEF Next
<1>2. IInv => TypeOK
    BY DEF IInv
<1> QED BY Initially, <1>1, <1>2, PTL DEF Spec

(* What the users of an assembled program may take for granted: it is made *)
(* of instructions, and its targets and its entry are at one of them, or   *)
(* after the last one.                                                     *)
PlacesIn(code) == {WordSize * k : k \in 0 .. Len(code)}

IsAssembled(code, entry) ==
    /\ code \in Seq(Instruction)
    /\ WordSize * Len(code) < Modulus(8)
    /\ entry \in PlacesIn(code) /\ entry \in U64
    /\ \A k \in DOMAIN code : code[k].type \in {"B", "JAL"} =>
          \E t \in PlacesIn(code) : code[k].target = {t}

LEMMA CodeIsAssembled ==
    ASSUME IInv, phase = "assembled"
    PROVE  IsAssembled(Code, EntryPc)
<1>1. /\ Len(program) \in Nat /\ DOMAIN program = 1 .. Len(program)
      /\ pc = 4 * Len(program) /\ pc \in Nat /\ pc \in U64
      /\ \A k \in DOMAIN program : program[k].inst \in Instruction
    BY Facts DEF IInv, TypeOK
<1>2. Code \in Seq(Instruction) /\ Len(Code) = Len(program) /\ DOMAIN Code = DOMAIN program
    BY <1>1 DEF Code
<1>3. WordSize * Len(Code) < Modulus(8)
    <2>1. pc < Modulus(8)
        <3>1. Modulus(8) \in Nat \ {0}
            BY ModulusPositive
        <3>2. pc \in U64
            BY <1>1
        <3> QED BY <3>1, <3>2 DEF U64, Unsigned
    <2>2. WordSize * Len(Code) = pc
        BY <1>1, <1>2 DEF WordSize
    <2> QED BY <2>1, <2>2
<1>4. ASSUME NEW t \in 0 .. pc, t % WordSize = 0 PROVE t \in PlacesIn(Code) /\ t \in U64
    <2>1. PICK n \in Nat : n = Len(program)
        BY <1>1
    <2>2. t \in Nat /\ t <= 4 * n /\ t % 4 = 0
        BY <1>1, <1>4, <2>1 DEF WordSize
    <2>3. t \div 4 \in Nat /\ t \div 4 <= n /\ t = 4 * (t \div 4)
        BY <2>2
    <2>4. t \div 4 \in 0 .. Len(Code)
        BY <1>2, <2>1, <2>3
    <2>5. t \in U64
        <3>1. pc \in 0 .. Modulus(8) - 1 /\ Modulus(8) \in Nat
            BY <1>1, ModulusPositive DEF U64, Unsigned
        <3> QED BY <1>4, <3>1 DEF U64, Unsigned
    <2> QED BY <2>3, <2>4, <2>5 DEF PlacesIn, WordSize
<1>5. EntryPc \in PlacesIn(Code) /\ EntryPc \in U64
    <2>1. CASE GlobalPcs = {}
        <3>1. EntryPc = 0 /\ 0 \in 0 .. pc /\ 0 % WordSize = 0
            BY <1>1, <2>1 DEF EntryPc, WordSize
        <3> QED BY <1>4, <3>1
    <2>2. CASE GlobalPcs # {}
        <3>1. \A a \in GlobalPcs : a \in 0 .. pc /\ a % WordSize = 0
            BY DEF GlobalPcs, IInv, TypeOK
        <3>2. GlobalPcs \in SUBSET Nat
            BY <1>1, <3>1
        <3>3. \E a \in GlobalPcs : \A b \in GlobalPcs : a <= b
            BY <2>2, <3>2, LeastNumber
        <3>4. EntryPc \in GlobalPcs
            BY <2>2, <3>3 DEF EntryPc
        <3> QED BY <1>4, <3>1, <3>4
    <2> QED BY <2>1, <2>2
<1>6. ASSUME NEW k \in DOMAIN Code, Code[k].type \in {"B", "JAL"}
      PROVE  \E t \in PlacesIn(Code) : Code[k].target = {t}
    <2>1. k \in DOMAIN program /\ Code[k] = program[k].inst
        BY <1>2 DEF Code
    <2>2. \E t \in 0 .. pc : Code[k].target = {t} /\ t % WordSize = 0
        BY <1>6, <2>1 DEF IInv, TypeOK
    <2> QED BY <1>4, <2>2
<1> QED BY <1>2, <1>3, <1>5, <1>6 DEF IsAssembled

-----------------------------------------------------------------------------
(* What the text says of a statement.  Count(n) is the number of           *)
(* instructions before statement n, and Count(n) + 1 the one that          *)
(* instruction n becomes.                                                  *)
Count(n) == Cardinality({m \in Instructions : m < n})

LEMMA Counting ==
    ASSUME source \in Seq(StatementType)
    PROVE  /\ \A n \in Nat : Count(n) \in Nat
           /\ Count(1) = 0
           /\ \A n \in Nat \ {0} :
                 Count(n + 1) = IF n \in Instructions THEN Count(n) + 1 ELSE Count(n)
           /\ Count(Len(source) + 1) = Cardinality(Instructions)
<1> DEFINE Before(n) == {m \in Instructions : m < n}
<1>1. /\ Len(source) \in Nat /\ Instructions \subseteq 1 .. Len(source)
      /\ \A m \in Instructions : m \in Int /\ 1 <= m /\ m <= Len(source)
    BY DEF Instructions
<1>2. IsFiniteSet(Instructions)
    <2>1. IsFiniteSet(1 .. Len(source))
        BY <1>1, FS_Interval
    <2> QED BY <1>1, <2>1, FS_Subset
<1>3. \A n : IsFiniteSet(Before(n)) /\ Cardinality(Before(n)) \in Nat
    <2> TAKE n
    <2>1. Before(n) \in SUBSET Instructions
        OBVIOUS
    <2>2. IsFiniteSet(Before(n))
        BY <1>2, <2>1, FS_Subset
    <2> QED BY <2>2, FS_CardinalityType
<1>4. Cardinality(Before(1)) = 0
    <2>1. \A m \in Instructions : ~(m < 1)
        BY <1>1
    <2>2. Before(1) = {}
        BY <2>1
    <2> QED BY <2>2, FS_EmptySet
<1>5. ASSUME NEW n \in Nat \ {0}
      PROVE  Cardinality(Before(n + 1)) = IF n \in Instructions THEN Cardinality(Before(n)) + 1
                                          ELSE Cardinality(Before(n))
    <2>1. n \notin Before(n)
        OBVIOUS
    <2>2. CASE n \in Instructions
        <3>1. \A m \in Instructions : m < n + 1 <=> m < n \/ m = n
            BY <1>1
        <3>2. Before(n + 1) = Before(n) \cup {n}
            BY <2>2, <3>1
        <3> HIDE DEF Before
        <3> QED BY <1>3, <2>1, <2>2, <3>2, FS_AddElement
    <2>3. CASE n \notin Instructions
        <3>1. \A m \in Instructions : m < n + 1 <=> m < n
            BY <1>1, <2>3
        <3>2. Before(n + 1) = Before(n)
            BY <3>1
        <3> QED BY <2>3, <3>2
    <2> QED BY <2>2, <2>3
<1>6. Before(Len(source) + 1) = Instructions
    <2>1. \A m \in Instructions : m < Len(source) + 1
        BY <1>1
    <2> QED BY <2>1
<1> QED BY <1>3, <1>4, <1>5, <1>6 DEF Count

\* A mnemonic parses to at most one variant, that of its name.
LEMMA Parsing ==
    ASSUME NEW cmd
    PROVE  /\ Parse(cmd, ROpCode) # {} <=> cmd \in {"add", "sub", "div", "mul", "sll"}
           /\ Parse(cmd, LoadOpCode) # {} <=> cmd \in {"lb", "lbu", "lh", "lhu", "lw", "ld"}
           /\ Parse(cmd, StoreOpCode) # {} <=> cmd \in {"sb", "sh", "sw", "sd"}
           /\ Parse(cmd, BOpCode) # {} <=>
                 cmd \in {"beq", "bne", "blt", "bge", "bltu", "bgeu"}
<1> DEFINE Known == {"add", "sub", "div", "mul", "sll", "lb", "lbu", "lh", "lhu", "lw", "ld",
                     "sb", "sh", "sw", "sd", "addi", "beq", "bne", "blt", "bge", "bltu", "bgeu"}
<1>1. DOMAIN OpCodes = Known
    BY DEF OpCodes
<1>2. CASE cmd \notin Known
    BY <1>1, <1>2 DEF Parse
<1>3. CASE cmd \in Known
    BY <1>1, <1>3 DEF Parse, OpCodes, ROpCode, LoadOpCode, StoreOpCode, BOpCode
<1> QED BY <1>2, <1>3

\* What is in good order in an instruction, but for its label.
Supports(cmd, o) ==
    /\ <<cmd, o.rule>> \in Supported
    /\ Range(o.regs) \subseteq Reg
    /\ o.imm \subseteq I32
    /\ cmd \in {"beqz", "bnez", "bltz", "bgez"} => o.regs # <<>>

\* create_inst() makes something of just these.
LEMMA CreateInstAccepts ==
    ASSUME NEW cmd, NEW o \in OperandsType
    PROVE  CreateInst(cmd, o) # {} <=> Supports(cmd, o)
<1>1. CASE ~(Range(o.regs) \subseteq Reg /\ o.imm \subseteq I32)
    BY <1>1 DEF CreateInst, Supports
<1>2. ASSUME Range(o.regs) \subseteq Reg, o.imm \subseteq I32
      PROVE  CreateInst(cmd, o) # {} <=> Supports(cmd, o)
    <2>1. Supports(cmd, o) <=>
             /\ <<cmd, o.rule>> \in Supported
             /\ cmd \in {"beqz", "bnez", "bltz", "bgez"} => o.regs # <<>>
        BY <1>2 DEF Supports
    <2>2. CASE o.rule = "memory"
        <3>1. CreateInst(cmd, o) # {} <=>
                 Parse(cmd, LoadOpCode) # {} \/ Parse(cmd, StoreOpCode) # {}
            BY <1>2, <2>2 DEF CreateInst, LowerMemoryOperand
        <3> QED BY <2>1, <2>2, <3>1, Parsing DEF Supported
    <2>3. CASE o.rule = "r"
        <3>1. CreateInst(cmd, o) # {} <=> Parse(cmd, ROpCode) # {}
            BY <1>2, <2>3 DEF CreateInst, LowerROperand
        <3> QED BY <2>1, <2>3, <3>1, Parsing DEF Supported
    <2>4. CASE o.rule = "i"
        <3>1. o.imm # {}
            BY <2>4 DEF OperandsType, One
        <3>2. CreateInst(cmd, o) # {} <=> cmd = "addi"
            BY <1>2, <2>4, <3>1 DEF CreateInst
        <3> QED BY <2>1, <2>4, <3>2 DEF Supported
    <2>5. CASE o.rule = "branch"
        <3>1. CreateInst(cmd, o) = LowerTwoRegisterBranch(cmd, o.regs[1], o.regs[2])
            BY <1>2, <2>5 DEF CreateInst
        <3>2. CreateInst(cmd, o) # {} <=>
                 cmd \in {"bgt", "ble", "bgtu", "bleu"} \/ Parse(cmd, BOpCode) # {}
            BY <3>1 DEF LowerTwoRegisterBranch
        <3> QED BY <2>1, <2>5, <3>2, Parsing DEF Supported
    <2>6. CASE o.rule = "label"
        <3>1. CreateInst(cmd, o) = LowerLabelOperand(cmd, o.regs)
            BY <1>2, <2>6 DEF CreateInst
        <3>2. CASE cmd \in {"beqz", "bnez", "bltz", "bgez"}
            <4>1. CreateInst(cmd, o) = UNION {LowerZeroBranch(cmd, rs) : rs \in Range(o.regs)}
                BY <3>1, <3>2 DEF LowerLabelOperand
            <4>2. \A rs : LowerZeroBranch(cmd, rs) # {}
                BY <3>2 DEF LowerZeroBranch
            <4>3. o.regs # <<>> <=> Range(o.regs) # {}
                <5>1. o.regs \in Names(0) \cup Names(1)
                    BY <2>6 DEF OperandsType
                <5>2. CASE o.regs \in Names(1)
                    BY <5>2 DEF Names, Range
                <5>3. CASE o.regs \in Names(0)
                    BY <5>3 DEF Names, Range
                <5> QED BY <5>1, <5>2, <5>3
            <4>4. CreateInst(cmd, o) # {} <=> Range(o.regs) # {}
                BY <4>1, <4>2
            <4> QED BY <2>1, <2>6, <3>2, <4>3, <4>4 DEF Supported
        <3>3. CASE cmd \notin {"beqz", "bnez", "bltz", "bgez"}
            <4>1. CreateInst(cmd, o) # {} <=> cmd \in {"j", "jal"}
                BY <3>1, <3>3 DEF LowerLabelOperand
            <4> QED BY <2>1, <2>6, <3>3, <4>1 DEF Supported
        <3> QED BY <3>2, <3>3
    <2>7. CASE o.rule = "binary"
        <3>1. CreateInst(cmd, o) # {} <=> cmd = "mv"
            BY <1>2, <2>7 DEF CreateInst
        <3> QED BY <2>1, <2>7, <3>1 DEF Supported
    <2>8. CASE o.rule = "binary_imm"
        <3>1. o.imm # {}
            BY <2>8 DEF OperandsType, One
        <3>2. CreateInst(cmd, o) # {} <=> cmd = "li"
            BY <1>2, <2>8, <3>1 DEF CreateInst
        <3> QED BY <2>1, <2>8, <3>2 DEF Supported
    <2>9. CASE o.rule = "none"
        <3>1. CreateInst(cmd, o) # {} <=> cmd = "ret"
            BY <1>2, <2>9 DEF CreateInst
        <3> QED BY <2>1, <2>9, <3>1 DEF Supported
    <2>10. o.rule \in {"memory", "r", "i", "branch", "label", "binary", "binary_imm", "none"}
        BY DEF OperandsType
    <2> QED BY <2>2, <2>3, <2>4, <2>5, <2>6, <2>7, <2>8, <2>9, <2>10
<1> QED BY <1>1, <1>2

-----------------------------------------------------------------------------
(* What has been made of the text so far: the statements up to done.       *)
Seen == 1 .. done

\* The entries that instruction n of the text may become.
LowersTo(n) ==
    {[inst |-> i, label |-> source[n].operands.label] :
        i \in CreateInst(source[n].cmd, source[n].operands)}

ProgramIsNumbered ==
    /\ Len(program) = Count(done + 1)
    /\ \A n \in Instructions \cap Seen : Count(n) + 1 \in DOMAIN program
    /\ \A k \in DOMAIN program : \E n \in Instructions \cap Seen : k = Count(n) + 1

LabelsAreLast ==
    \A l : /\ l \in DOMAIN labels <=> Definitions(l) \cap Seen # {}
           /\ l \in DOMAIN labels =>
                 \E n \in Definitions(l) \cap Seen :
                    /\ labels[l] = Place(n)
                    /\ \A m \in Definitions(l) \cap Seen : m <= n

Directives == {n \in DOMAIN source : source[n].type = "directive"}

GlobalsAreAll ==
    /\ \A n \in Directives \cap Seen : source[n].name = "global"
    /\ globals = {source[n].label : n \in Directives \cap Seen}

\* Before and after resolve().
ProgramIsLowered ==
    \A n \in Instructions \cap Seen : program[Count(n) + 1] \in LowersTo(n)

ProgramIsResolved ==
    \A n \in Instructions \cap Seen :
        /\ source[n].operands.label \subseteq DOMAIN labels
        /\ \E e \in LowersTo(n) : program[Count(n) + 1] = ResolveTarget(e)

TextIsAssembled ==
    /\ phase # "refused"  => ProgramIsNumbered /\ LabelsAreLast /\ GlobalsAreAll
    /\ phase = "assemble" => ProgramIsLowered
    /\ phase = "assembled" => ProgramIsResolved /\ done = Len(source)
    /\ phase = "refused"  => \E n \in DOMAIN source : ~InGoodOrder(n)

\* What depends on the text only does not change.
LEMMA TextStays ==
    ASSUME source' = source
    PROVE  /\ Instructions' = Instructions /\ Directives' = Directives
           /\ \A n : Count(n)' = Count(n) /\ Place(n)' = Place(n)
           /\ \A n : LowersTo(n)' = LowersTo(n)
           /\ \A l : Definitions(l)' = Definitions(l)
<1>1. Instructions' = Instructions
    BY DEF Instructions
<1>2. \A n : Count(n)' = Count(n)
    BY <1>1 DEF Count
<1>3. \A n : Place(n)' = Place(n)
    BY <1>1 DEF Place
<1>4. \A n : LowersTo(n)' = LowersTo(n)
    BY DEF LowersTo
<1> QED BY <1>1, <1>2, <1>3, <1>4 DEF Directives, Definitions

\* The next statement is one more of those that were seen.
LEMMA NextSeen ==
    ASSUME IInv, TextIsAssembled, NEW type, NEW s \in Statement(type), done' = done + 1,
           source' = source
    PROVE  LET n == done + 1
           IN  /\ n \in DOMAIN source /\ s = source[n] /\ s.type = type
               /\ s \in StatementType /\ phase = "assemble"
               /\ n \in Nat \ {0} /\ n \notin Seen
               /\ Seen' = Seen \cup {n} /\ \A m \in Seen : m <= n
               /\ Count(n) \in Nat /\ Len(program) = Count(n)
               /\ Count(done' + 1) = IF n \in Instructions THEN Count(n) + 1 ELSE Count(n)
               /\ ProgramIsNumbered /\ LabelsAreLast /\ GlobalsAreAll /\ ProgramIsLowered
<1> DEFINE n == done + 1
<1>1. source \in Seq(StatementType) /\ done \in Nat /\ Len(source) \in Nat
    BY Facts, SourceType DEF IInv
<1>2. s = source[n] /\ phase = "assemble" /\ n <= Len(source) /\ s.type = type
    BY DEF Statement
<1>3. n \in DOMAIN source /\ n \in Nat \ {0} /\ n \notin Seen /\ Seen' = Seen \cup {n}
    BY <1>1, <1>2 DEF Seen
<1>4. s \in StatementType
    BY <1>1, <1>2, <1>3
<1>5. \A m \in Seen : m <= n
    BY <1>1 DEF Seen
<1>6. /\ ProgramIsNumbered /\ LabelsAreLast /\ GlobalsAreAll /\ ProgramIsLowered
      /\ Len(program) = Count(n)
    BY <1>2 DEF TextIsAssembled, ProgramIsNumbered
<1>7. /\ Count(n) \in Nat
      /\ Count(n + 1) = IF n \in Instructions THEN Count(n) + 1 ELSE Count(n)
    BY <1>1, <1>3, Counting
<1> QED BY <1>2, <1>3, <1>4, <1>5, <1>6, <1>7

\* The parts of the invariant after a step, in terms of the same text.
LEMMA AfterStep ==
    ASSUME source' = source
    PROVE  /\ ProgramIsNumbered' <=>
                 /\ Len(program') = Count(done' + 1)
                 /\ \A n \in Instructions \cap Seen' : Count(n) + 1 \in DOMAIN program'
                 /\ \A k \in DOMAIN program' :
                       \E n \in Instructions \cap Seen' : k = Count(n) + 1
           /\ LabelsAreLast' <=>
                 \A l : /\ l \in DOMAIN labels' <=> Definitions(l) \cap Seen' # {}
                        /\ l \in DOMAIN labels' =>
                              \E n \in Definitions(l) \cap Seen' :
                                 /\ labels'[l] = Place(n)
                                 /\ \A m \in Definitions(l) \cap Seen' : m <= n
           /\ GlobalsAreAll' <=>
                 /\ \A n \in Directives \cap Seen' : source[n].name = "global"
                 /\ globals' = {source[n].label : n \in Directives \cap Seen'}
           /\ ProgramIsLowered' <=>
                 \A n \in Instructions \cap Seen' : program'[Count(n) + 1] \in LowersTo(n)
<1>1. Instructions' = Instructions /\ Directives' = Directives
    BY TextStays
<1>2. \A l : Definitions(l)' = Definitions(l)
    BY TextStays
<1>3. \A n : Place(n)' = Place(n)
    BY TextStays
<1>4. ProgramIsNumbered' <=>
                 /\ Len(program') = Count(done' + 1)
                 /\ \A n \in Instructions \cap Seen' : Count(n) + 1 \in DOMAIN program'
                 /\ \A k \in DOMAIN program' :
                       \E n \in Instructions \cap Seen' : k = Count(n) + 1
    BY <1>1 DEF ProgramIsNumbered, Count
<1>5. LabelsAreLast' <=>
                 \A l : /\ l \in DOMAIN labels' <=> Definitions(l) \cap Seen' # {}
                        /\ l \in DOMAIN labels' =>
                              \E n \in Definitions(l) \cap Seen' :
                                 /\ labels'[l] = Place(n)
                                 /\ \A m \in Definitions(l) \cap Seen' : m <= n
    BY <1>1, <1>2, <1>3 DEF LabelsAreLast
<1>6. GlobalsAreAll' <=>
                 /\ \A n \in Directives \cap Seen' : source[n].name = "global"
                 /\ globals' = {source[n].label : n \in Directives \cap Seen'}
    BY <1>1 DEF GlobalsAreAll
<1>7. ProgramIsLowered' <=>
                 \A n \in Instructions \cap Seen' : program'[Count(n) + 1] \in LowersTo(n)
    BY <1>1 DEF ProgramIsLowered, Count, LowersTo
<1> QED BY <1>4, <1>5, <1>6, <1>7

LEMMA InstructionRead ==
    IInv /\ TextIsAssembled /\ AssembleInstruction => TextIsAssembled'
<1> SUFFICES ASSUME IInv, TextIsAssembled, AssembleInstruction PROVE TextIsAssembled'
    OBVIOUS
<1>1. PICK s \in Statement("instruction") : \E inst \in CreateInst(s.cmd, s.operands) :
          /\ program' = Append(program, [inst |-> inst, label |-> s.operands.label])
          /\ done' = done + 1
          /\ UNCHANGED <<source, labels, globals, phase>>
    BY DEF AssembleInstruction
<1>2. PICK inst \in CreateInst(s.cmd, s.operands) :
          program' = Append(program, [inst |-> inst, label |-> s.operands.label])
    BY <1>1
<1> DEFINE n == done + 1
           e == [inst |-> inst, label |-> s.operands.label]
<1>3. /\ n \in DOMAIN source /\ s = source[n] /\ s.type = "instruction"
      /\ phase = "assemble" /\ n \in Nat \ {0} /\ n \notin Seen
      /\ Seen' = Seen \cup {n} /\ Count(n) \in Nat /\ Len(program) = Count(n)
      /\ Count(done' + 1) = IF n \in Instructions THEN Count(n) + 1 ELSE Count(n)
      /\ ProgramIsNumbered /\ LabelsAreLast /\ GlobalsAreAll /\ ProgramIsLowered
    BY <1>1, NextSeen
<1>4. program \in Seq(Entry) /\ program' = Append(program, e)
    BY <1>2, Facts
<1>5. e \in LowersTo(n)
    BY <1>2, <1>3 DEF LowersTo
<1>6. n \in Instructions /\ n \notin Directives /\ \A l : n \notin Definitions(l)
    BY <1>3 DEF Instructions, Directives, Definitions
<1> HIDE DEF e, n
<1>7. /\ Len(program') = Count(n) + 1 /\ DOMAIN program' = DOMAIN program \cup {Count(n) + 1}
      /\ \A k \in DOMAIN program : program'[k] = program[k]
      /\ program'[Count(n) + 1] = e
    BY <1>3, <1>4
<1>8. ProgramIsNumbered'
    <2>1. Count(done' + 1) = Len(program')
        BY <1>3, <1>6, <1>7
    <2>2. ASSUME NEW m \in Instructions \cap Seen' PROVE Count(m) + 1 \in DOMAIN program'
        BY <1>3, <1>7 DEF ProgramIsNumbered
    <2>3. ASSUME NEW k \in DOMAIN program'
          PROVE  \E m \in Instructions \cap Seen' : k = Count(m) + 1
        BY <1>3, <1>6, <1>7 DEF ProgramIsNumbered
    <2> QED BY <1>1, <2>1, <2>2, <2>3, AfterStep
<1>9. ProgramIsLowered'
    <2>1. ASSUME NEW m \in Instructions \cap Seen'
          PROVE  program'[Count(m) + 1] \in LowersTo(m)
        <3>1. CASE m = n
            BY <1>5, <1>7, <3>1
        <3>2. CASE m \in Seen
            BY <1>3, <1>7, <3>2 DEF ProgramIsNumbered, ProgramIsLowered
        <3> QED BY <1>3, <3>1, <3>2
    <2> QED BY <1>1, <2>1, AfterStep
<1>10. LabelsAreLast'
    <2>1. \A l : Definitions(l) \cap Seen' = Definitions(l) \cap Seen
        BY <1>3, <1>6
    <2>2. labels' = labels
        BY <1>1
    <2> QED BY <1>1, <1>3, <2>1, <2>2, AfterStep DEF LabelsAreLast
<1>11. GlobalsAreAll'
    <2>1. Directives \cap Seen' = Directives \cap Seen
        BY <1>3, <1>6
    <2> QED BY <1>1, <1>3, <2>1, AfterStep DEF GlobalsAreAll
<1> QED BY <1>1, <1>3, <1>8, <1>9, <1>10, <1>11 DEF TextIsAssembled

\* A statement that is no instruction adds nothing to the program.
LEMMA OthersRead ==
    ASSUME IInv, TextIsAssembled, NEW type \in {"directive", "label"},
           NEW s \in Statement(type), done' = done + 1, source' = source, program' = program
    PROVE  ProgramIsNumbered' /\ ProgramIsLowered' /\ done + 1 \notin Instructions
<1> DEFINE n == done + 1
<1>1. /\ s = source[n] /\ s.type = type /\ Seen' = Seen \cup {n}
      /\ Len(program) = Count(n)
      /\ Count(done' + 1) = IF n \in Instructions THEN Count(n) + 1 ELSE Count(n)
      /\ ProgramIsNumbered /\ ProgramIsLowered
    BY NextSeen
<1>2. n \notin Instructions
    BY <1>1 DEF Instructions
<1>3. Instructions \cap Seen' = Instructions \cap Seen
    BY <1>1, <1>2
<1>4. ProgramIsNumbered'
    BY <1>1, <1>2, <1>3, AfterStep DEF ProgramIsNumbered
<1>5. ProgramIsLowered'
    BY <1>1, <1>3, AfterStep DEF ProgramIsLowered
<1> QED BY <1>2, <1>4, <1>5

LEMMA DirectiveRead ==
    IInv /\ TextIsAssembled /\ AssembleDirective => TextIsAssembled'
<1> SUFFICES ASSUME IInv, TextIsAssembled, AssembleDirective PROVE TextIsAssembled'
    OBVIOUS
<1>1. PICK s \in Statement("directive") :
          /\ s.name = "global" /\ globals' = globals \cup {s.label} /\ done' = done + 1
          /\ UNCHANGED <<source, program, pc, labels, phase>>
    BY DEF AssembleDirective
<1> DEFINE n == done + 1
<1>2. /\ n \in DOMAIN source /\ s = source[n] /\ s.type = "directive"
      /\ phase = "assemble" /\ Seen' = Seen \cup {n}
      /\ LabelsAreLast /\ GlobalsAreAll
    BY <1>1, NextSeen
<1>3. n \in Directives /\ \A l : n \notin Definitions(l)
    BY <1>2 DEF Directives, Definitions
<1> HIDE DEF n
<1>4. LabelsAreLast'
    <2>1. \A l : Definitions(l) \cap Seen' = Definitions(l) \cap Seen
        BY <1>2, <1>3
    <2>2. labels' = labels
        BY <1>1
    <2> QED BY <1>1, <1>2, <2>1, <2>2, AfterStep DEF LabelsAreLast
<1>5. GlobalsAreAll'
    <2>1. Directives \cap Seen' = (Directives \cap Seen) \cup {n}
        BY <1>2, <1>3
    <2>2. globals' = {source[m].label : m \in Directives \cap Seen'}
        BY <1>1, <1>2, <2>1 DEF GlobalsAreAll
    <2>3. \A m \in Directives \cap Seen' : source[m].name = "global"
        BY <1>1, <1>2, <2>1 DEF GlobalsAreAll
    <2> QED BY <1>1, <2>2, <2>3, AfterStep
<1>6. ProgramIsNumbered' /\ ProgramIsLowered'
    BY <1>1, OthersRead
<1> QED BY <1>1, <1>2, <1>4, <1>5, <1>6 DEF TextIsAssembled

LEMMA LabelRead ==
    IInv /\ TextIsAssembled /\ AssembleLabel => TextIsAssembled'
<1> SUFFICES ASSUME IInv, TextIsAssembled, AssembleLabel PROVE TextIsAssembled'
    OBVIOUS
<1>1. PICK s \in Statement("label") :
          /\ labels' = [l \in DOMAIN labels \cup {s.label} |->
                          IF l = s.label THEN pc ELSE labels[l]]
          /\ done' = done + 1
          /\ UNCHANGED <<source, program, pc, globals, phase>>
    BY DEF AssembleLabel
<1> DEFINE n == done + 1
<1>2. /\ n \in DOMAIN source /\ s = source[n] /\ s.type = "label"
      /\ phase = "assemble" /\ n \in Nat \ {0} /\ Seen' = Seen \cup {n}
      /\ \A m \in Seen : m <= n
      /\ Len(program) = Count(n) /\ LabelsAreLast /\ GlobalsAreAll
    BY <1>1, NextSeen
<1>3. n \notin Directives /\ \A l : n \in Definitions(l) <=> l = s.label
    BY <1>2 DEF Directives, Definitions
<1>4. pc = Place(n)
    BY <1>2 DEF IInv, TypeOK, Place, Count
<1> HIDE DEF n
<1>5. GlobalsAreAll'
    <2>1. Directives \cap Seen' = Directives \cap Seen
        BY <1>2, <1>3
    <2> QED BY <1>1, <1>2, <2>1, AfterStep DEF GlobalsAreAll
<1>6. LabelsAreLast'
    <2>1. ASSUME NEW l
          PROVE  /\ l \in DOMAIN labels' <=> Definitions(l) \cap Seen' # {}
                 /\ l \in DOMAIN labels' =>
                       \E k \in Definitions(l) \cap Seen' :
                          /\ labels'[l] = Place(k)
                          /\ \A m \in Definitions(l) \cap Seen' : m <= k
        <3>1. CASE l = s.label
            <4>1. n \in Definitions(l) \cap Seen' /\ l \in DOMAIN labels' /\ labels'[l] = pc
                BY <1>1, <1>2, <1>3, <3>1
            <4>2. \A m \in Definitions(l) \cap Seen' : m <= n
                BY <1>2
            <4> QED BY <1>4, <4>1, <4>2
        <3>2. CASE l # s.label
            <4>1. Definitions(l) \cap Seen' = Definitions(l) \cap Seen
                BY <1>2, <1>3, <3>2
            <4>2. /\ l \in DOMAIN labels' <=> l \in DOMAIN labels
                  /\ l \in DOMAIN labels => labels'[l] = labels[l]
                BY <1>1, <3>2
            <4> QED BY <1>2, <4>1, <4>2 DEF LabelsAreLast
        <3> QED BY <3>1, <3>2
    <2> QED BY <1>1, <2>1, AfterStep
<1>7. ProgramIsNumbered' /\ ProgramIsLowered'
    BY <1>1, OthersRead
<1> QED BY <1>1, <1>2, <1>5, <1>6, <1>7 DEF TextIsAssembled

\* A statement is refused only if it is faulty.
LEMMA RefusalRead ==
    IInv /\ TextIsAssembled /\ RefuseStatement => TextIsAssembled'
<1> SUFFICES ASSUME IInv, TextIsAssembled, RefuseStatement
             PROVE  (\E n \in DOMAIN source : ~InGoodOrder(n))' /\ phase' = "refused"
    BY DEF TextIsAssembled
<1>1. phase' = "refused" /\ source' = source
    BY DEF RefuseStatement
<1>2. \E n \in DOMAIN source : ~InGoodOrder(n)
    <2> DEFINE n == done + 1
    <2>1. source \in Seq(StatementType) /\ done \in Nat /\ Len(source) \in Nat
        BY Facts, SourceType DEF IInv
    <2>2. ASSUME NEW type, NEW s \in Statement(type)
          PROVE  n \in DOMAIN source /\ s = source[n] /\ s.type = type
        BY <2>1, <2>2 DEF Statement
    <2>3. ASSUME NEW s \in Statement("instruction"), CreateInst(s.cmd, s.operands) = {}
          PROVE  n \in DOMAIN source /\ ~InGoodOrder(n)
        <3>1. s = source[n] /\ s.type = "instruction" /\ n \in DOMAIN source
            BY <2>2, <2>3
        <3>2. ~Supports(s.cmd, s.operands)
            BY <2>3, SourceType, CreateInstAccepts DEF IInv
        <3> QED BY <3>1, <3>2 DEF InGoodOrder, Supports
    <2>4. ASSUME NEW s \in Statement("directive"), s.name # "global"
          PROVE  n \in DOMAIN source /\ ~InGoodOrder(n)
        <3>1. s = source[n] /\ s.type = "directive" /\ n \in DOMAIN source
            BY <2>2, <2>4
        <3> QED BY <2>4, <3>1 DEF InGoodOrder
    <2> QED BY <2>3, <2>4 DEF RefuseStatement
<1>3. \A n : InGoodOrder(n)' <=> InGoodOrder(n)
    BY <1>1 DEF InGoodOrder, Defined, Definitions
<1> QED BY <1>1, <1>2, <1>3

\* At the end of the text, what is defined is known.
LEMMA EndOfText ==
    ASSUME IInv, LabelsAreLast, done = Len(source)
    PROVE  /\ Seen = DOMAIN source
           /\ \A l : l \in DOMAIN labels <=> Defined(l)
           /\ \A l : l \in DOMAIN labels => labels[l] = PlaceOf(l)
<1>1. Seen = DOMAIN source /\ DOMAIN source \subseteq Nat
    BY Facts, SourceType DEF Seen, IInv
<1>2. \A l : Definitions(l) \cap Seen = Definitions(l)
    BY <1>1 DEF Definitions
<1>3. \A l : l \in DOMAIN labels <=> Defined(l)
    BY <1>2 DEF LabelsAreLast, Defined
<1>4. ASSUME NEW l \in DOMAIN labels PROVE labels[l] = PlaceOf(l)
    <2>1. PICK n \in Definitions(l) :
             labels[l] = Place(n) /\ \A m \in Definitions(l) : m <= n
        BY <1>2 DEF LabelsAreLast
    <2>2. Max(Definitions(l)) = n
        <3> DEFINE D == Definitions(l)
                   x == CHOOSE m \in D : \A y \in D : m >= y
        <3>1. D \subseteq Nat
            BY <1>1 DEF Definitions
        <3>2. n \in D /\ \A y \in D : n >= y
            BY <2>1, <3>1
        <3> HIDE DEF D
        <3>3. x \in D /\ \A y \in D : x >= y
            BY <3>2
        <3> HIDE DEF x
        <3>4. x = n
            BY <3>1, <3>2, <3>3
        <3> QED BY <3>4 DEF Max, D, x
    <2> QED BY <2>1, <2>2 DEF PlaceOf
<1> QED BY <1>1, <1>3, <1>4

LEMMA ResolveRead ==
    IInv /\ TextIsAssembled /\ Resolve => TextIsAssembled'
<1> SUFFICES ASSUME IInv, TextIsAssembled, Resolve PROVE TextIsAssembled'
    OBVIOUS
<1>1. /\ phase = "assemble" /\ done = Len(source) /\ phase' = "assembled"
      /\ UNCHANGED <<source, done, pc, labels, globals>>
      /\ program' = [k \in DOMAIN program |-> ResolveTarget(program[k])]
      /\ \A k \in DOMAIN program : program[k].label \subseteq DOMAIN labels
    BY DEF Resolve, Unresolvable
<1>2. ProgramIsNumbered /\ LabelsAreLast /\ GlobalsAreAll /\ ProgramIsLowered
    BY <1>1 DEF TextIsAssembled
<1>3. Seen' = Seen
    BY <1>1 DEF Seen
<1>4. ProgramIsNumbered'
    <2>1. DOMAIN program' = DOMAIN program
        BY <1>1
    <2>2. Len(program') = Len(program)
        <3> DEFINE S == DOMAIN program
        <3>1. program' = [k \in DOMAIN program |->
                             IF k \in S THEN ResolveTarget(program[k]) ELSE program[k]]
            BY <1>1
        <3>2. S \in SUBSET DOMAIN program /\ \A k \in S : program[k].label \subseteq DOMAIN labels
            BY <1>1
        <3> HIDE DEF S
        <3> QED BY <1>1, <3>1, <3>2, Resolved
    <2> QED BY <1>1, <1>2, <1>3, <2>1, <2>2, AfterStep DEF ProgramIsNumbered
<1>5. LabelsAreLast'
    BY <1>1, <1>2, <1>3, AfterStep DEF LabelsAreLast
<1>6. GlobalsAreAll'
    BY <1>1, <1>2, <1>3, AfterStep DEF GlobalsAreAll
<1>7. ASSUME NEW n \in Instructions \cap Seen
      PROVE  /\ source[n].operands.label \subseteq DOMAIN labels
             /\ \E e \in LowersTo(n) : program'[Count(n) + 1] = ResolveTarget(e)
    <2> DEFINE k == Count(n) + 1
               e == program[k]
    <2>1. k \in DOMAIN program /\ e \in LowersTo(n)
        BY <1>2 DEF ProgramIsNumbered, ProgramIsLowered
    <2>2. program'[k] = ResolveTarget(e) /\ e.label \subseteq DOMAIN labels
        BY <1>1, <2>1
    <2> HIDE DEF e
    <2>3. e.label = source[n].operands.label
        BY <2>1 DEF LowersTo
    <2> QED BY <2>1, <2>2, <2>3
<1>8. ProgramIsResolved'
    <2>1. Instructions' = Instructions
        BY <1>1, TextStays
    <2>2. \A e : ResolveTarget(e)' = ResolveTarget(e)
        BY <1>1 DEF ResolveTarget
    <2>3. \A n : Count(n)' = Count(n) /\ LowersTo(n)' = LowersTo(n)
        BY <1>1, TextStays
    <2> QED BY <1>1, <1>3, <1>7, <2>1, <2>2, <2>3 DEF ProgramIsResolved
<1> QED BY <1>1, <1>4, <1>5, <1>6, <1>8 DEF TextIsAssembled

\* A target is refused only if a label is missing.
LEMMA TargetRefusalRead ==
    IInv /\ TextIsAssembled /\ RefuseTarget => TextIsAssembled'
<1> SUFFICES ASSUME IInv, TextIsAssembled, RefuseTarget
             PROVE  (\E n \in DOMAIN source : ~InGoodOrder(n))' /\ phase' = "refused"
    BY DEF TextIsAssembled
<1>1. /\ phase = "assemble" /\ done = Len(source) /\ phase' = "refused" /\ source' = source
      /\ Unresolvable # {}
    BY DEF RefuseTarget
<1>2. ProgramIsNumbered /\ LabelsAreLast /\ ProgramIsLowered
    BY <1>1 DEF TextIsAssembled
<1>3. PICK k \in DOMAIN program : ~(program[k].label \subseteq DOMAIN labels)
    BY <1>1 DEF Unresolvable
<1>4. PICK n \in Instructions \cap Seen : k = Count(n) + 1
    BY <1>2 DEF ProgramIsNumbered
<1>5. program[k] \in LowersTo(n)
    BY <1>2, <1>4 DEF ProgramIsLowered
<1>6. program[k].label = source[n].operands.label
    BY <1>5 DEF LowersTo
<1>7. \E l \in source[n].operands.label : ~Defined(l)
    BY <1>1, <1>2, <1>3, <1>6, EndOfText
<1>8. n \in DOMAIN source /\ source[n].type = "instruction"
    BY <1>4 DEF Instructions
<1>9. ~InGoodOrder(n)
    BY <1>7, <1>8 DEF InGoodOrder
<1>10. \A m : InGoodOrder(m)' <=> InGoodOrder(m)
    BY <1>1 DEF InGoodOrder, Defined, Definitions
<1> QED BY <1>1, <1>8, <1>9, <1>10

\* The text is read as it is written, whatever is in it.
LEMMA TextAssembled == Spec => [](IInv /\ TextIsAssembled)
<1>1. Init => IInv /\ TextIsAssembled
    <2> SUFFICES ASSUME Init PROVE IInv /\ TextIsAssembled
        OBVIOUS
    <2>1. IInv
        BY Initially
    <2>2. source \in Seq(StatementType)
        BY <2>1, SourceType DEF IInv
    <2>3. Seen = {} /\ Count(done + 1) = 0
        BY <2>2, Counting DEF Init, Start, Seen
    <2>4. Len(program) = 0 /\ DOMAIN program = {} /\ DOMAIN labels = {} /\ globals = {}
          /\ phase = "assemble"
        BY DEF Init, Start
    <2> QED BY <2>1, <2>3, <2>4 DEF TextIsAssembled, ProgramIsNumbered, LabelsAreLast,
                                    GlobalsAreAll, ProgramIsLowered
<1>2. IInv /\ TextIsAssembled /\ [Next]_vars => IInv' /\ TextIsAssembled'
    <2> SUFFICES ASSUME IInv, TextIsAssembled, [Next]_vars PROVE IInv' /\ TextIsAssembled'
        OBVIOUS
    <2>1. CASE UNCHANGED vars
        <3>1. IInv'
            BY <2>1 DEF vars, IInv, TypeOK
        <3>2. /\ source' = source /\ done' = done /\ labels' = labels /\ program' = program
              /\ globals' = globals /\ phase' = phase /\ Seen' = Seen
            BY <2>1 DEF vars, Seen
        <3>3. /\ ProgramIsNumbered => ProgramIsNumbered'
              /\ LabelsAreLast => LabelsAreLast'
              /\ GlobalsAreAll => GlobalsAreAll'
              /\ ProgramIsLowered => ProgramIsLowered'
            <4>1. ProgramIsNumbered => ProgramIsNumbered'
                BY <3>2, AfterStep DEF ProgramIsNumbered
            <4>2. LabelsAreLast => LabelsAreLast'
                BY <3>2, AfterStep DEF LabelsAreLast
            <4>3. GlobalsAreAll => GlobalsAreAll'
                BY <3>2, AfterStep DEF GlobalsAreAll
            <4>4. ProgramIsLowered => ProgramIsLowered'
                BY <3>2, AfterStep DEF ProgramIsLowered
            <4> QED BY <4>1, <4>2, <4>3, <4>4
        <3>4. ProgramIsResolved => ProgramIsResolved'
            <4>1. Instructions' = Instructions
                BY <3>2, TextStays
            <4>2. \A e : ResolveTarget(e)' = ResolveTarget(e)
                BY <3>2 DEF ResolveTarget
            <4>3. \A n : Count(n)' = Count(n) /\ LowersTo(n)' = LowersTo(n)
                BY <3>2, TextStays
            <4> QED BY <3>2, <4>1, <4>2, <4>3 DEF ProgramIsResolved
        <3>5. \A m : InGoodOrder(m)' <=> InGoodOrder(m)
            BY <3>2 DEF InGoodOrder, Defined, Definitions
        <3> QED BY <3>1, <3>2, <3>3, <3>4, <3>5 DEF TextIsAssembled
    <2> QED BY <2>1, InstructionStep, DirectiveStep, LabelStep, RefuseStatementStep,
               ResolveStep, RefuseTargetStep, InstructionRead, DirectiveRead, LabelRead,
               RefusalRead, ResolveRead, TargetRefusalRead DEF Next
<1> QED BY <1>1, <1>2, PTL DEF Spec

-----------------------------------------------------------------------------
\* j is i with another target, if it has one.
SameButTarget(i, j) ==
    /\ j.type = i.type
    /\ i.type = "B"   => j.op_code = i.op_code /\ j.rs1 = i.rs1 /\ j.rs2 = i.rs2
    /\ i.type = "JAL" => j.rd = i.rd
    /\ ~NeedsTarget(i) => j = i

\* What has become of an instruction of an assembled text.
LEMMA AssembledInstruction ==
    ASSUME IInv, TextIsAssembled, phase = "assembled", NEW n \in Instructions
    PROVE  LET s == source[n]
               k == Place(n) \div WordSize + 1
           IN  /\ k \in DOMAIN program /\ Count(n) \in Nat /\ k = Count(n) + 1
               /\ s.operands \in OperandsType /\ s.operands.label \subseteq DOMAIN labels
               /\ \E i \in CreateInst(s.cmd, s.operands) : SameButTarget(i, Code[k])
               /\ \A l \in s.operands.label : Code[k].target = {PlaceOf(l)}
<1> DEFINE s == source[n]
           o == s.operands
           k == Count(n) + 1
<1>1. /\ ProgramIsNumbered /\ LabelsAreLast /\ ProgramIsResolved /\ done = Len(source)
    BY DEF TextIsAssembled
<1>2. Seen = DOMAIN source /\ \A l \in DOMAIN labels : labels[l] = PlaceOf(l)
    BY <1>1, EndOfText
<1>3. n \in Instructions \cap Seen /\ n \in DOMAIN source /\ s.type = "instruction"
    BY <1>2 DEF Instructions
<1>4. source \in Seq(StatementType)
    BY SourceType DEF IInv
<1>5. o \in OperandsType
    <2>1. s \in StatementType
        BY <1>3, <1>4
    <2> HIDE DEF s
    <2> QED BY <1>3, <2>1 DEF StatementType
<1>6. Count(n) \in Nat
    <2>1. n \in Nat
        BY <1>3, <1>4
    <2> QED BY <1>4, <2>1, Counting
<1>7. Place(n) \div WordSize + 1 = k
    <2>1. Place(n) = 4 * Count(n)
        BY DEF Place, Count, WordSize
    <2>2. \A c \in Nat : (4 * c) \div 4 = c
        OBVIOUS
    <2> QED BY <1>6, <2>1, <2>2 DEF WordSize
<1>8. k \in DOMAIN program
    BY <1>1, <1>3 DEF ProgramIsNumbered
<1>9. o.label \subseteq DOMAIN labels
    BY <1>1, <1>3 DEF ProgramIsResolved
<1>10. PICK e \in LowersTo(n) : program[k] = ResolveTarget(e)
    BY <1>1, <1>3 DEF ProgramIsResolved
<1>11. PICK i \in CreateInst(s.cmd, o) : e = [inst |-> i, label |-> o.label]
    BY <1>10 DEF LowersTo
<1> HIDE DEF s, o, k
<1>12. Code[k] = ResolveTarget(e).inst
    BY <1>8, <1>10 DEF Code
<1>13. i \in Instruction /\ IF NeedsTarget(i) THEN \E l \in Label : o.label = {l} ELSE o.label = {}
    BY <1>5, <1>11, CreateInstType
<1>14. CASE o.label = {}
    <2>1. Code[k] = i /\ ~NeedsTarget(i)
        BY <1>11, <1>12, <1>13, <1>14 DEF ResolveTarget
    <2>2. SameButTarget(i, Code[k])
        BY <2>1 DEF SameButTarget
    <2> QED BY <1>5, <1>6, <1>7, <1>8, <1>9, <1>11, <1>14, <2>2 DEF s, o, k
<1>15. CASE o.label # {}
    <2>1. PICK l : o.label = {l} /\ NeedsTarget(i)
        BY <1>13, <1>15
    <2>2. {labels[m] : m \in o.label \cap DOMAIN labels} = {labels[l]} /\ l \in DOMAIN labels
        BY <1>9, <2>1
    <2>3. Code[k] = [i EXCEPT !.target = {labels[l]}]
        BY <1>11, <1>12, <1>15, <2>2 DEF ResolveTarget
    <2>4. i \in BInst \cup JalInst
        BY <1>13, <2>1 DEF Instruction, NeedsTarget, RInst, IInst, LInst, SInst, JalrInst
    <2>5. Code[k].target = {labels[l]} /\ SameButTarget(i, Code[k])
        <3>1. CASE i \in BInst
            BY <2>1, <2>3, <3>1 DEF BInst, SameButTarget
        <3>2. CASE i \in JalInst
            BY <2>1, <2>3, <3>2 DEF JalInst, SameButTarget
        <3> QED BY <2>4, <3>1, <3>2
    <2>6. \A m \in o.label : Code[k].target = {PlaceOf(m)}
        BY <1>2, <2>1, <2>2, <2>5
    <2> QED BY <1>5, <1>6, <1>7, <1>8, <1>9, <1>11, <2>5, <2>6 DEF s, o, k
<1> QED BY <1>14, <1>15

(* An assembled program has one instruction for each of the text, and its  *)
(* targets are the places of their labels (assemble: pc, labels; resolve). *)
THEOREM BranchesCorrect == Spec => []BranchesReachTheirLabels
<1>1. IInv /\ TextIsAssembled => BranchesReachTheirLabels
    <2> SUFFICES ASSUME IInv, TextIsAssembled, phase = "assembled"
                 PROVE  /\ Len(program) = Cardinality(Instructions)
                        /\ \A n \in Instructions : \A l \in source[n].operands.label :
                              Code[Place(n) \div WordSize + 1].target = {PlaceOf(l)}
        BY DEF BranchesReachTheirLabels
    <2>1. Len(program) = Cardinality(Instructions)
        BY SourceType, Counting DEF IInv, TextIsAssembled, ProgramIsNumbered
    <2> QED BY <2>1, AssembledInstruction
<1> QED BY <1>1, TextAssembled, PTL

(* Just the texts with something wrong in them are refused (assemble,      *)
(* create_inst, resolve: every `?`).                                       *)
THEOREM RefusalsCorrect == Spec => []OnlyFaultyTextIsRefused
<1>1. IInv /\ TextIsAssembled => OnlyFaultyTextIsRefused
    <2> SUFFICES ASSUME IInv, TextIsAssembled, phase = "assembled", NEW n \in DOMAIN source
                 PROVE  InGoodOrder(n)
        BY DEF OnlyFaultyTextIsRefused, TextIsAssembled
    <2>1. LabelsAreLast /\ GlobalsAreAll /\ done = Len(source)
        BY DEF TextIsAssembled
    <2>2. Seen = DOMAIN source /\ \A l \in DOMAIN labels : Defined(l)
        BY <2>1, EndOfText
    <2>3. CASE source[n].type = "label"
        BY <2>3 DEF InGoodOrder
    <2>4. CASE source[n].type = "directive"
        BY <2>1, <2>2, <2>4 DEF InGoodOrder, GlobalsAreAll, Directives
    <2>5. CASE source[n].type = "instruction"
        <3> DEFINE s == source[n]
        <3>1. n \in Instructions
            BY <2>5 DEF Instructions
        <3>2. /\ s.operands \in OperandsType /\ s.operands.label \subseteq DOMAIN labels
              /\ CreateInst(s.cmd, s.operands) # {}
            BY <3>1, AssembledInstruction
        <3>3. Supports(s.cmd, s.operands)
            BY <3>2, CreateInstAccepts
        <3>4. \A l \in s.operands.label : Defined(l)
            BY <2>2, <3>2
        <3> QED BY <2>5, <3>3, <3>4 DEF InGoodOrder, Supports
    <2>6. source[n].type \in {"label", "directive", "instruction"}
        <3>1. source[n] \in StatementType
            BY SourceType DEF IInv
        <3> QED BY <3>1 DEF StatementType
    <2> QED BY <2>3, <2>4, <2>5, <2>6
<1> QED BY <1>1, TextAssembled, PTL

\* The globals of an assembled text, and their addresses.
LEMMA GlobalsAre ==
    ASSUME IInv, TextIsAssembled, phase = "assembled"
    PROVE  /\ \A n \in Directives : source[n].name = "global" /\ source[n].label \in Label
           /\ GlobalPcs = {PlaceOf(g) : g \in GlobalLabels}
           /\ EntryPc = IF GlobalLabels = {} THEN 0 ELSE Min(GlobalPcs)
           /\ EntryLabels = {g \in GlobalLabels : PlaceOf(g) = EntryPc}
<1>1. LabelsAreLast /\ GlobalsAreAll /\ done = Len(source)
    BY DEF TextIsAssembled
<1>2. /\ Seen = DOMAIN source
      /\ \A l : l \in DOMAIN labels <=> Defined(l)
      /\ \A l : l \in DOMAIN labels => labels[l] = PlaceOf(l)
    BY <1>1, EndOfText
<1>3. globals \subseteq Label
    BY DEF IInv, TypeOK
<1>4. /\ globals = {source[n].label : n \in Directives}
      /\ \A n \in Directives : source[n].name = "global"
    BY <1>1, <1>2 DEF GlobalsAreAll, Directives
<1>5. globals \cap DOMAIN labels = GlobalLabels
    <2>1. \A g : g \in GlobalLabels <=>
             g \in Label /\ Defined(g) /\ \E n \in Directives : source[n].label = g
        BY DEF GlobalLabels, Directives
    <2> QED BY <1>2, <1>3, <1>4, <2>1
<1>6. GlobalPcs = {PlaceOf(g) : g \in GlobalLabels}
    BY <1>2, <1>5 DEF GlobalPcs
<1>7. GlobalPcs = {} <=> GlobalLabels = {}
    BY <1>6
<1>8. EntryPc = IF GlobalLabels = {} THEN 0 ELSE Min(GlobalPcs)
    BY <1>7 DEF EntryPc, Min
<1>9. EntryLabels = {g \in GlobalLabels : PlaceOf(g) = EntryPc}
    BY <1>2, <1>5 DEF EntryLabels
<1> QED BY <1>3, <1>4, <1>6, <1>8, <1>9

(* The entry is the first place that a defined global names, and an entry  *)
(* label names it (entry_pc, entry_label).                                 *)
THEOREM EntryCorrect == Spec => []EntryIsFirstGlobal
<1>1. IInv /\ TextIsAssembled => EntryIsFirstGlobal
    BY GlobalsAre DEF EntryIsFirstGlobal
<1> QED BY <1>1, TextAssembled, PTL

-----------------------------------------------------------------------------
(* What lowered mnemonics mean, for registers with any values.             *)
LEMMA TwoRegisterMeans ==
    ASSUME NEW cmd, NEW r1 \in Reg, NEW r2 \in Reg, NEW value \in [Reg -> Int],
           NEW i \in LowerTwoRegisterBranch(cmd, r1, r2)
    PROVE  /\ i.type = "B"
           /\ BranchTaken(i.op_code, value[i.rs1], value[i.rs2])
                 = Condition(cmd, value[r1], value[r2])
<1> DEFINE l == value[r1]
           r == value[r2]
<1>1. l \in Int /\ r \in Int /\ AsUnsigned(l, 8) \in Int /\ AsUnsigned(r, 8) \in Int
    <2>1. \A x \in Int : AsUnsigned(x, 8) \in Int
        BY AsUnsignedType DEF Unsigned, Widths
    <2> QED BY <2>1
<1>2. CASE cmd \in {"bgt", "ble", "bgtu", "bleu"}
    <2>1. \/ cmd = "bgt"  /\ i = Branch("BLT", r2, r1)
          \/ cmd = "ble"  /\ i = Branch("BGE", r2, r1)
          \/ cmd = "bgtu" /\ i = Branch("BLTU", r2, r1)
          \/ cmd = "bleu" /\ i = Branch("BGEU", r2, r1)
        BY <1>2 DEF LowerTwoRegisterBranch
    <2> QED BY <1>1, <2>1 DEF Branch, BranchTaken, Condition
<1>3. CASE cmd \notin {"bgt", "ble", "bgtu", "bleu"}
    <2>1. PICK c \in Parse(cmd, BOpCode) : i = Branch(c, r1, r2)
        BY <1>3 DEF LowerTwoRegisterBranch
    <2>2. /\ cmd \in {"beq", "bne", "blt", "bge", "bltu", "bgeu"} /\ OpCodes[cmd] = c
        BY <2>1, Parsing DEF Parse
    <2>3. \/ cmd = "beq"  /\ c = "BEQ"
          \/ cmd = "bne"  /\ c = "BNE"
          \/ cmd = "blt"  /\ c = "BLT"
          \/ cmd = "bge"  /\ c = "BGE"
          \/ cmd = "bltu" /\ c = "BLTU"
          \/ cmd = "bgeu" /\ c = "BGEU"
        BY <2>2 DEF OpCodes
    <2> QED BY <1>1, <2>1, <2>3 DEF Branch, BranchTaken, Condition
<1> QED BY <1>2, <1>3

LEMMA ZeroBranchMeans ==
    ASSUME NEW cmd \in {"beqz", "bnez", "bltz", "bgez"}, NEW rs \in Reg,
           NEW value \in [Reg -> Int], value["zero"] = 0, NEW i \in LowerZeroBranch(cmd, rs)
    PROVE  /\ i.type = "B"
           /\ BranchTaken(i.op_code, value[i.rs1], value[i.rs2]) = Condition(cmd, value[rs], 0)
<1>1. \/ cmd = "beqz" /\ i = Branch("BEQ", rs, "zero")
      \/ cmd = "bnez" /\ i = Branch("BNE", rs, "zero")
      \/ cmd = "bltz" /\ i = Branch("BLT", rs, "zero")
      \/ cmd = "bgez" /\ i = Branch("BGE", rs, "zero")
    BY DEF LowerZeroBranch
<1>2. value[rs] \in Int
    OBVIOUS
<1> QED BY <1>1, <1>2 DEF Branch, BranchTaken, Condition

LEMMA LoweredMeans ==
    ASSUME NEW s, s.operands \in OperandsType, NEW i \in CreateInst(s.cmd, s.operands),
           NEW j, SameButTarget(i, j), NEW value \in [Reg -> Int], value["zero"] = 0
    PROVE  Means(j, s, value)
<1> DEFINE cmd == s.cmd
           o   == s.operands
           r   == s.operands.regs
           Zero == {"beqz", "bnez", "bltz", "bgez"}
<1>1. Range(r) \subseteq Reg /\ o.imm \subseteq I32 /\ <<cmd, o.rule>> \in Supported
    BY CreateInstAccepts DEF Supports
<1>2. \A n \in DOMAIN r : r[n] \in Reg
    BY <1>1 DEF Range
<1>3. CASE o.rule = "branch"
    <2>1. r[1] \in Reg /\ r[2] \in Reg
        BY <1>2, <1>3 DEF OperandsType, Names
    <2>2. i \in LowerTwoRegisterBranch(cmd, r[1], r[2])
        BY <1>1, <1>3 DEF CreateInst
    <2>3. i.type = "B" /\ BranchTaken(i.op_code, value[i.rs1], value[i.rs2])
                             = Condition(cmd, value[r[1]], value[r[2]])
        BY <2>1, <2>2, TwoRegisterMeans
    <2>4. j.op_code = i.op_code /\ j.rs1 = i.rs1 /\ j.rs2 = i.rs2
        BY <2>3 DEF SameButTarget
    <2>5. cmd \notin {"beqz", "bnez", "bltz", "bgez", "mv", "li", "j"}
        BY <1>1, <1>3 DEF Supported
    <2> QED BY <1>3, <2>3, <2>4, <2>5 DEF Means
<1>4. CASE cmd \in Zero
    <2>1. o.rule = "label" /\ r \in Names(0) \cup Names(1)
        BY <1>1, <1>4 DEF Supported, OperandsType
    <2>2. i \in UNION {LowerZeroBranch(cmd, rs) : rs \in Range(r)}
        BY <1>1, <1>4, <2>1 DEF CreateInst, LowerLabelOperand
    <2>3. PICK n \in DOMAIN r : i \in LowerZeroBranch(cmd, r[n])
        BY <2>2 DEF Range
    <2>4. n = 1 /\ r[1] \in Reg
        BY <1>2, <2>1, <2>3 DEF Names
    <2>5. i.type = "B" /\ BranchTaken(i.op_code, value[i.rs1], value[i.rs2])
                             = Condition(cmd, value[r[1]], 0)
        BY <1>4, <2>3, <2>4, ZeroBranchMeans
    <2>6. j.op_code = i.op_code /\ j.rs1 = i.rs1 /\ j.rs2 = i.rs2
        BY <2>5 DEF SameButTarget
    <2> QED BY <1>4, <2>1, <2>5, <2>6 DEF Means
<1>5. CASE cmd = "mv"
    <2>1. o.rule = "binary"
        BY <1>1, <1>5 DEF Supported
    <2>2. r[1] \in Reg /\ r[2] \in Reg
        BY <1>2, <2>1 DEF OperandsType, Names
    <2>3. i = Addi(r[1], r[2], 0)
        BY <1>1, <2>1 DEF CreateInst
    <2>4. j = i
        BY <2>3 DEF SameButTarget, NeedsTarget, Addi
    <2>5. value[r[2]] + 0 = value[r[2]]
        BY <2>2
    <2>6. j.rd = r[1] /\ j.rs = r[2] /\ j.imm = 0
        BY <2>3, <2>4 DEF Addi
    <2> QED BY <1>5, <2>1, <2>5, <2>6 DEF Means
<1>6. CASE cmd = "li"
    <2>1. o.rule = "binary_imm" /\ o.imm \in One(Int)
        BY <1>1, <1>6 DEF Supported, OperandsType
    <2>2. PICK x \in Int : o.imm = {x}
        BY <2>1 DEF One, Option
    <2>3. i = Addi(r[1], "zero", x)
        BY <1>1, <2>1, <2>2 DEF CreateInst
    <2>4. j = i
        BY <2>3 DEF SameButTarget, NeedsTarget, Addi
    <2>5. j.rd = r[1] /\ j.rs = "zero" /\ j.imm = x
        BY <2>3, <2>4 DEF Addi
    <2>6. {value[j.rs] + j.imm} = o.imm
        BY <2>2, <2>5
    <2> QED BY <1>6, <2>1, <2>5, <2>6 DEF Means
<1>7. CASE cmd = "j"
    <2>1. o.rule = "label"
        BY <1>1, <1>7 DEF Supported
    <2>2. i = [type |-> "JAL", rd |-> "zero", target |-> {}]
        BY <1>1, <1>7, <2>1 DEF CreateInst, LowerLabelOperand
    <2>3. j.rd = "zero"
        BY <2>2 DEF SameButTarget
    <2> QED BY <1>7, <2>1, <2>3 DEF Means
<1>8. CASE o.rule # "branch" /\ cmd \notin {"beqz", "bnez", "bltz", "bgez", "mv", "li", "j"}
    BY <1>8 DEF Means
<1> QED BY <1>3, <1>4, <1>5, <1>6, <1>7, <1>8

(* Lowered mnemonics do what their names say, for all values that the      *)
(* registers may have (lower_two_register_branch, lower_zero_branch,       *)
(* create_inst).                                                           *)
THEOREM LoweringCorrect == Spec => []LoweringKeepsMeaning
<1>1. IInv /\ TextIsAssembled => LoweringKeepsMeaning
    <2> SUFFICES ASSUME IInv, TextIsAssembled, phase = "assembled",
                        NEW n \in Instructions, NEW value \in RegisterValues
                 PROVE  Means(Code[Place(n) \div WordSize + 1], source[n], value)
        BY DEF LoweringKeepsMeaning
    <2>1. value \in [Reg -> Int] /\ value["zero"] = 0
        BY SamplesAssumption DEF RegisterValues
    <2> DEFINE s == source[n]
               j == Code[Place(n) \div WordSize + 1]
    <2>2. /\ s.operands \in OperandsType
          /\ \E i \in CreateInst(s.cmd, s.operands) : SameButTarget(i, j)
        BY AssembledInstruction
    <2> HIDE DEF s, j
    <2>3. Means(j, s, value)
        BY <2>1, <2>2, LoweredMeans
    <2> QED BY <2>3 DEF s, j
<1> QED BY <1>1, TextAssembled, PTL
=============================================================================
