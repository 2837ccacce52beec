----------------------------- MODULE Assembler -----------------------------
(***************************************************************************)
(* The assembler (assembler.rs) as assemble_source() of lib.rs drives it:  *)
(* assemble() takes the statements of the parse tree one after the other,  *)
(* then resolve() turns labels into addresses.                             *)
(*                                                                         *)
(* A source is what the grammar made of a text: its statements in order, a *)
(* labeled_instruction being a label and an instruction.  A text that does *)
(* not parse reaches no assembler.  Operands carry the rule they matched;  *)
(* their registers are names, not all of them names of registers.          *)
(***************************************************************************)
EXTENDS Isa, Functions, FiniteSets

CONSTANTS
    Label,      \* the names of labels
    RegName,    \* the register names that the grammar lets through
    Directive,  \* the names of directives that the sources use
    Sources     \* the sources that are assembled

Names(n) == [1 .. n -> RegName]
One(S)   == {o \in Option(S) : o # {}}

OperandsType ==
    [rule : {"memory"}, regs : Names(2), imm : Option(Int), label : {{}}]
    \cup [rule : {"r"}, regs : Names(3), imm : {{}}, label : {{}}]
    \cup [rule : {"i"}, regs : Names(2), imm : One(Int), label : {{}}]
    \cup [rule : {"branch"}, regs : Names(2), imm : {{}}, label : One(Label)]
    \cup [rule : {"label"}, regs : Names(0) \cup Names(1), imm : {{}}, label : One(Label)]
    \cup [rule : {"binary"}, regs : Names(2), imm : {{}}, label : {{}}]
    \cup [rule : {"binary_imm"}, regs : Names(1), imm : One(Int), label : {{}}]
    \cup [rule : {"none"}, regs : Names(0), imm : {{}}, label : {{}}]

StatementType ==
    [type : {"directive"}, name : Directive, label : Label]
    \cup [type : {"label"}, label : Label]
    \cup [type : {"instruction"}, cmd : STRING, operands : OperandsType]

ASSUME AssemblerAssumption ==
    /\ Reg \subseteq RegName
    /\ Sources \subseteq Seq(StatementType)
    /\ \A s \in Sources : WordSize * Len(s) < Modulus(8)

VARIABLES
    source,     \* the statements, all of them
    done,       \* how many of them are assembled
    program,    \* the instructions; a label stands in for a target
    pc,         \* the address of the next instruction
    labels,     \* the address of each label so far
    globals,    \* the labels of .global directives so far
    phase       \* "assemble", "assembled", or "refused" (an AsmError)

vars == <<source, done, program, pc, labels, globals, phase>>

-----------------------------------------------------------------------------
(* Lowering: what create_inst() makes of a command and its operands, if it *)
(* makes something of them.                                                *)

\* The FromStr of the enums of reg.rs: the variant that a name stands for.
OpCodes ==
    [add |-> "ADD", sub |-> "SUB", div |-> "DIV", mul |-> "MUL", sll |-> "SLL",
     lb |-> "LB", lbu |-> "LBU", lh |-> "LH", lhu |-> "LHU", lw |-> "LW", ld |-> "LD",
     sb |-> "SB", sh |-> "SH", sw |-> "SW", sd |-> "SD", addi |-> "ADDI",
     beq |-> "BEQ", bne |-> "BNE", blt |-> "BLT", bge |-> "BGE",
     bltu |-> "BLTU", bgeu |-> "BGEU"]

Parse(cmd, ops) == {c \in ops : cmd \in DOMAIN OpCodes /\ OpCodes[cmd] = c}

Branch(op_code, rs1, rs2) ==
    [type |-> "B", op_code |-> op_code, rs1 |-> rs1, rs2 |-> rs2, target |-> {}]

\* Faulty variant: the unsigned alias does not change its operands over.
LowerTwoRegisterBranchUnswapped(cmd, rs1, rs2) ==
    CASE cmd = "bgt"  -> {Branch("BLT", rs2, rs1)}
      [] cmd = "ble"  -> {Branch("BGE", rs2, rs1)}
      [] cmd = "bgtu" -> {Branch("BLTU", rs1, rs2)}
      [] cmd = "bleu" -> {Branch("BGEU", rs2, rs1)}
      [] OTHER        -> {Branch(c, rs1, rs2) : c \in Parse(cmd, BOpCode)}

LowerTwoRegisterBranch(cmd, rs1, rs2) ==
    CASE cmd = "bgt"  -> {Branch("BLT", rs2, rs1)}
      [] cmd = "ble"  -> {Branch("BGE", rs2, rs1)}
      [] cmd = "bgtu" -> {Branch("BLTU", rs2, rs1)}
      [] cmd = "bleu" -> {Branch("BGEU", rs2, rs1)}
      [] OTHER        -> {Branch(c, rs1, rs2) : c \in Parse(cmd, BOpCode)}

LowerZeroBranch(cmd, rs) ==
    CASE cmd = "beqz" -> {Branch("BEQ", rs, "zero")}
      [] cmd = "bnez" -> {Branch("BNE", rs, "zero")}
      [] cmd = "bltz" -> {Branch("BLT", rs, "zero")}
      [] cmd = "bgez" -> {Branch("BGE", rs, "zero")}

\* Faulty variant: any other command with a label is a call.
LowerLabelOperandAnyCall(cmd, regs) ==
    CASE cmd \in {"beqz", "bnez", "bltz", "bgez"} ->
             UNION {LowerZeroBranch(cmd, rs) : rs \in Range(regs)}
      [] cmd = "j" -> {[type |-> "JAL", rd |-> "zero", target |-> {}]}
      [] OTHER     -> {[type |-> "JAL", rd |-> IF regs = <<>> THEN "ra" ELSE regs[1],
                        target |-> {}]}

\* A label, with or without a register before it.  `j` takes no notice of the
\* register; jal without one links ra; jalr is refused.
LowerLabelOperand(cmd, regs) ==
    LET Jal(rd) == [type |-> "JAL", rd |-> rd, target |-> {}]
    IN  CASE cmd \in {"beqz", "bnez", "bltz", "bgez"} ->
                 UNION {LowerZeroBranch(cmd, rs) : rs \in Range(regs)}
          [] cmd = "j"   -> {Jal("zero")}
          [] cmd = "jal" -> {Jal(IF regs = <<>> THEN "ra" ELSE regs[1])}
          [] OTHER       -> {}

Addi(rd, rs, imm) == [type |-> "I", op_code |-> "ADDI", rd |-> rd, rs |-> rs, imm |-> imm]

\* parse_memory_ref and its arm: an offset left out is zero.
LowerMemoryOperand(cmd, regs, imm) ==
    LET ref == [register |-> regs[2],
                offset   |-> IF imm = {} THEN 0 ELSE CHOOSE i \in imm : TRUE]
    IN  {[type |-> "L", op_code |-> c, rd |-> regs[1], address |-> ref]
            : c \in Parse(cmd, LoadOpCode)}
        \cup {[type |-> "S", op_code |-> c, rs |-> regs[1], address |-> ref]
            : c \in Parse(cmd, StoreOpCode)}

LowerROperand(cmd, regs) ==
    {[type |-> "R", op_code |-> c, rd |-> regs[1], rs1 |-> regs[2], rs2 |-> regs[3]]
        : c \in Parse(cmd, ROpCode)}

Ret == [type |-> "JALR", rd |-> "zero", address |-> [register |-> "ra", offset |-> 0]]

\* create_inst: dispatch on the operands.  An unknown register name or an
\* immediate that is no i32 is an error whatever the command is.
CreateInst(cmd, o) ==
    IF ~(Range(o.regs) \subseteq Reg /\ o.imm \subseteq I32) THEN {}
    ELSE CASE o.rule = "memory"     -> LowerMemoryOperand(cmd, o.regs, o.imm)
           [] o.rule = "r"          -> LowerROperand(cmd, o.regs)
           [] o.rule = "i"          -> {Addi(o.regs[1], o.regs[2], i)
                                           : i \in {n \in o.imm : cmd = "addi"}}
           [] o.rule = "branch"     -> LowerTwoRegisterBranch(cmd, o.regs[1], o.regs[2])
           [] o.rule = "label"      -> LowerLabelOperand(cmd, o.regs)
           [] o.rule = "binary"     -> {Addi(o.regs[1], o.regs[2], i)
                                           : i \in {n \in {0} : cmd = "mv"}}
           [] o.rule = "binary_imm" -> {Addi(o.regs[1], "zero", i)
                                           : i \in {n \in o.imm : cmd = "li"}}
           [] OTHER                 -> {i \in {Ret} : cmd = "ret"}

-----------------------------------------------------------------------------
\* Assembler::default, given a text
Start(text) ==
    /\ source = text
    /\ done = 0
    /\ program = <<>>
    /\ pc = 0
    /\ labels = <<>>
    /\ globals = {}
    /\ phase = "assemble"

Init == \E text \in Sources : Start(text)

\* The statement that assemble() comes to next.
Statement(type) ==
    {source[n] : n \in {k \in {done + 1} :
        phase = "assemble" /\ k <= Len(source) /\ source[k].type = type}}

AssembleInstruction ==
    \E s \in Statement("instruction") : \E inst \in CreateInst(s.cmd, s.operands) :
        /\ program' = Append(program, [inst |-> inst, label |-> s.operands.label])
        /\ pc' = pc + WordSize
        /\ done' = done + 1
        /\ UNCHANGED <<source, labels, globals, phase>>

AssembleDirective ==
    \E s \in Statement("directive") :
        /\ s.name = "global"
        /\ globals' = globals \cup {s.label}
        /\ done' = done + 1
        /\ UNCHANGED <<source, program, pc, labels, phase>>

\* Faulty variant: the first definition of a label stays.
AssembleLabelKeepsFirst ==
    \E s \in Statement("label") :
        /\ labels' = [l \in DOMAIN labels \cup {s.label} |->
                        IF l \in DOMAIN labels THEN labels[l] ELSE pc]
        /\ done' = done + 1
        /\ UNCHANGED <<source, program, pc, globals, phase>>

\* A label that is defined again moves.
AssembleLabel ==
    \E s \in Statement("label") :
        /\ labels' = [l \in DOMAIN labels \cup {s.label} |->
                        IF l = s.label THEN pc ELSE labels[l]]
        /\ done' = done + 1
        /\ UNCHANGED <<source, program, pc, globals, phase>>

\* An AsmError of assemble(), for an instruction or a directive.
RefuseStatement ==
    /\ \/ \E s \in Statement("instruction") : CreateInst(s.cmd, s.operands) = {}
       \/ \E s \in Statement("directive") : s.name # "global"
    /\ phase' = "refused"
    /\ UNCHANGED <<source, done, program, pc, labels, globals>>

\* resolve_target_with_labels, for a label that is known
ResolveTarget(e) ==
    IF e.label = {} THEN e
    ELSE [inst  |-> [e.inst EXCEPT !.target = {labels[l] : l \in e.label \cap DOMAIN labels}],
          label |-> {}]

\* Faulty variant: resolve() notices unknown labels of branches only.
UnresolvableBranches ==
    {k \in DOMAIN program : program[k].inst.type = "B"
                            /\ ~(program[k].label \subseteq DOMAIN labels)}

Unresolvable == {k \in DOMAIN program : ~(program[k].label \subseteq DOMAIN labels)}

\* resolve()
Resolve ==
    /\ phase = "assemble"
    /\ done = Len(source)
    /\ Unresolvable = {}
    /\ program' = [k \in DOMAIN program |-> ResolveTarget(program[k])]
    /\ phase' = "assembled"
    /\ UNCHANGED <<source, done, pc, labels, globals>>

\* resolve() returns the error of the first unknown label; the targets before
\* it are resolved by then.
RefuseTarget ==
    /\ phase = "assemble"
    /\ done = Len(source)
    /\ Unresolvable # {}
    /\ program' = [k \in DOMAIN program |->
                      IF \A u \in Unresolvable : k < u
                      THEN ResolveTarget(program[k]) ELSE program[k]]
    /\ phase' = "refused"
    /\ UNCHANGED <<source, done, pc, labels, globals>>

Next ==
    \/ AssembleInstruction \/ AssembleDirective \/ AssembleLabel \/ RefuseStatement
    \/ Resolve \/ RefuseTarget

Spec == Init /\ [][Next]_vars

-----------------------------------------------------------------------------
(* What an assembled program tells its users. *)

\* instructions()
Code == [k \in DOMAIN program |-> program[k].inst]

\* Faulty variant: the entry is the first label, global or not.
EntryPcOfLabels ==
    IF DOMAIN labels = {} THEN 0
    ELSE CHOOSE a \in Range(labels) : \A b \in Range(labels) : a <= b

\* The addresses of the globals that are defined.
GlobalPcs == {labels[g] : g \in globals \cap DOMAIN labels}

EntryPc ==
    IF GlobalPcs = {} THEN 0 ELSE CHOOSE a \in GlobalPcs : \A b \in GlobalPcs : a <= b

\* entry_label: of several at the entry, the one that the hash set has first.
EntryLabels == {g \in globals \cap DOMAIN labels : labels[g] = EntryPc}
=============================================================================
