------------------------ MODULE AssemblerProperties ------------------------
(***************************************************************************)
(* What must be true of the assembler, in terms of the source alone: where *)
(* its labels are, what its mnemonics mean, and which of it is in order.   *)
(***************************************************************************)
EXTENDS Assembler, FiniteSetsExt

CONSTANT Samples    \* register values with which instructions are compared

ASSUME SamplesAssumption == Samples \subseteq Int

\* Every label stands for a place of the program, and an assembled program has
\* the instructions of the executor, each with the targets it needs (resolve).
TypeOK ==
    /\ source \in Sources
    /\ done \in 0 .. Len(source)
    /\ phase \in {"assemble", "assembled", "refused"}
    /\ globals \subseteq Label
    /\ pc = WordSize * Len(program)
    /\ DOMAIN labels \subseteq Label
    /\ \A l \in DOMAIN labels : labels[l] \in 0 .. pc /\ labels[l] % WordSize = 0
    /\ \A k \in DOMAIN program :
          /\ program[k].inst \in Instruction
          /\ phase = "assembled" =>
                /\ program[k].label = {}
                /\ program[k].inst.type \in {"B", "JAL"} =>
                      \E t \in 0 .. pc : program[k].inst.target = {t} /\ t % WordSize = 0

-----------------------------------------------------------------------------
(* The source.                                                             *)
Instructions   == {n \in DOMAIN source : source[n].type = "instruction"}
Definitions(l) == {n \in DOMAIN source : source[n].type = "label" /\ source[n].label = l}

\* The place of the text before statement n, as an address.
Place(n)      == WordSize * Cardinality({m \in Instructions : m < n})
PlaceOf(l)    == Place(Max(Definitions(l)))
Defined(l)    == Definitions(l) # {}
GlobalLabels  == {l \in Label : Defined(l) /\ \E n \in DOMAIN source :
                     source[n].type = "directive" /\ source[n].label = l}

\* The supported instructions: mnemonics with their kinds of operands.
Supported ==
    ({"add", "sub", "div", "mul", "sll"} \X {"r"})
    \cup ({"lb", "lbu", "lh", "lhu", "lw", "ld", "sb", "sh", "sw", "sd"} \X {"memory"})
    \cup ({"beq", "bne", "blt", "bge", "bltu", "bgeu", "bgt", "ble", "bgtu", "bleu"}
             \X {"branch"})
    \cup ({"beqz", "bnez", "bltz", "bgez", "j", "jal"} \X {"label"})
    \cup {<<"addi", "i">>, <<"li", "binary_imm">>, <<"mv", "binary">>, <<"ret", "none">>}

InGoodOrder(n) ==
    LET s == source[n]
    IN  CASE s.type = "label"     -> TRUE
          [] s.type = "directive" -> s.name = "global"
          [] OTHER ->
                /\ <<s.cmd, s.operands.rule>> \in Supported
                /\ Range(s.operands.regs) \subseteq Reg
                /\ s.operands.imm \subseteq I32
                /\ s.cmd \in {"beqz", "bnez", "bltz", "bgez"} => s.operands.regs # <<>>
                /\ \A l \in s.operands.label : Defined(l)

\* When a mnemonic branches, for operands with the values l and r.
Condition(cmd, l, r) ==
    LET u == AsUnsigned(l, 8)
        v == AsUnsigned(r, 8)
    IN  CASE cmd \in {"beq", "beqz"} -> l = r
          [] cmd \in {"bne", "bnez"} -> l # r
          [] cmd \in {"blt", "bltz"} -> l < r
          [] cmd \in {"bge", "bgez"} -> ~(l < r)
          [] cmd = "bgt"             -> l > r
          [] cmd = "ble"             -> ~(l > r)
          [] cmd = "bltu"            -> u < v
          [] cmd = "bgeu"            -> ~(u < v)
          [] cmd = "bgtu"            -> u > v
          [] cmd = "bleu"            -> ~(u > v)

\* Whether an instruction does what the statement says, with register values.
Means(inst, s, value) ==
    LET r == s.operands.regs
    IN  CASE s.operands.rule = "branch" ->
                 BranchTaken(inst.op_code, value[inst.rs1], value[inst.rs2])
                     = Condition(s.cmd, value[r[1]], value[r[2]])
          [] s.cmd \in {"beqz", "bnez", "bltz", "bgez"} ->
                 BranchTaken(inst.op_code, value[inst.rs1], value[inst.rs2])
                     = Condition(s.cmd, value[r[1]], 0)
          [] s.cmd = "mv" -> inst.rd = r[1] /\ value[inst.rs] + inst.imm = value[r[2]]
          [] s.cmd = "li" -> inst.rd = r[1] /\ {value[inst.rs] + inst.imm} = s.operands.imm
          [] s.cmd = "j"  -> inst.rd = "zero"
          [] OTHER        -> TRUE

RegisterValues == {v \in [Reg -> Samples] : v["zero"] = 0}

-----------------------------------------------------------------------------
(* However labels are placed, repeated or used before they are defined, an *)
(* assembled program has an instruction for each of the text, in order,    *)
(* and its targets are the places of their labels, the last if there are   *)
(* several (assemble: pc, labels; resolve).                                *)
BranchesReachTheirLabels ==
    phase = "assembled" =>
        /\ Len(program) = Cardinality(Instructions)
        /\ \A n \in Instructions : \A l \in source[n].operands.label :
              Code[Place(n) \div WordSize + 1].target = {PlaceOf(l)}

(* The entry is the first place that a defined global names, wherever its  *)
(* directive is, else the beginning; an entry label names it (entry_pc,    *)
(* entry_label; info.md).                                                  *)
EntryIsFirstGlobal ==
    phase = "assembled" =>
        /\ EntryPc = IF GlobalLabels = {} THEN 0 ELSE Min({PlaceOf(g) : g \in GlobalLabels})
        /\ EntryLabels = {g \in GlobalLabels : PlaceOf(g) = EntryPc}

(* Just the texts with something wrong in them are refused: what is wrong  *)
(* in any statement is noticed, unknown labels too (assemble, create_inst, *)
(* resolve: every `?`).                                                    *)
OnlyFaultyTextIsRefused ==
    /\ phase = "assembled" => \A n \in DOMAIN source : InGoodOrder(n)
    /\ phase = "refused"   => \E n \in DOMAIN source : ~InGoodOrder(n)

(* Lowered mnemonics do what their names say: aliases branch on the same   *)
(* values, unsigned and swapped ones too, moves move and `j` links nothing *)
(* (lower_two_register_branch, lower_zero_branch, create_inst).            *)
LoweringKeepsMeaning ==
    phase = "assembled" =>
        \A n \in Instructions : \A value \in RegisterValues :
            Means(Code[Place(n) \div WordSize + 1], source[n], value)
=============================================================================
