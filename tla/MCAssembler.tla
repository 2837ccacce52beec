---------------------------- MODULE MCAssembler ----------------------------
(***************************************************************************)
(* Assembler.tla on every text of a few statements that define, use and    *)
(* export labels, and on every mnemonic with every kind of operands.       *)
(***************************************************************************)
EXTENDS AssemblerProperties, SequencesExt

CONSTANT TextLength     \* how many statements a text has

MCPow2 == [n \in 0 .. 8 * ByteBits |-> 2 ^ n]

Operands(rule, regs, imm, label) ==
    [rule |-> rule, regs |-> regs, imm |-> imm, label |-> label]
Inst(cmd, o)   == [type |-> "instruction", cmd |-> cmd, operands |-> o]
Define(l)      == [type |-> "label", label |-> l]
Direct(d, l)   == [type |-> "directive", name |-> d, label |-> l]

-----------------------------------------------------------------------------
(* Labels: defined twice, late or never; directives before and after them. *)
Menu ==
    {Define(l) : l \in Label} \cup {Direct("global", l) : l \in Label}
    \cup {Direct("section", "f"),
          Inst("j", Operands("label", <<>>, {}, {"f"})),
          Inst("bgtu", Operands("branch", <<"t0", "ra">>, {}, {"g"})),
          Inst("addi", Operands("i", <<"t0", "t0">>, {1}, {})),
          Inst("li", Operands("binary_imm", <<"fp">>, {1}, {}))}

MCTexts == [1 .. TextLength -> Menu] \cup {<<>>}

-----------------------------------------------------------------------------
(* Lowering: each mnemonic, and two unknown ones, with all operands.       *)
Mnemonics ==
    DOMAIN OpCodes \cup {"bgt", "ble", "bgtu", "bleu", "beqz", "bnez", "bltz", "bgez",
                         "j", "jal", "jalr", "mv", "li", "ret", "nop", "call"}

AllOperands ==
    {Operands("memory", rs, i, {})     : rs \in {<<"t0", "sp">>, <<"fp", "sp">>},
                                         i \in {{}, {-8}, {7}, {8}}}
    \cup {Operands("r", rs, {}, {})    : rs \in {<<"t0", "ra", "t0">>, <<"ra", "t0", "fp">>}}
    \cup {Operands("i", rs, {i}, {})   : rs \in {<<"t0", "ra">>, <<"t0", "fp">>},
                                         i \in {-9, -8, 7}}
    \cup {Operands("branch", rs, {}, {"f"}) : rs \in {<<"t0", "ra">>, <<"ra", "zero">>,
                                                      <<"t0", "fp">>}}
    \cup {Operands("label", rs, {}, {l}) : rs \in {<<>>, <<"t0">>, <<"fp">>}, l \in Label}
    \cup {Operands("binary", rs, {}, {}) : rs \in {<<"t0", "ra">>, <<"fp", "ra">>}}
    \cup {Operands("binary_imm", <<"t0">>, {i}, {}) : i \in {-9, -8, 7, 8}}
    \cup {Operands("none", <<>>, {}, {})}

MCSamples == {-128, -1, 0, 1, 127}

MCForms == {<<Define("f"), Inst(cmd, o)>> : cmd \in Mnemonics, o \in AllOperands}

MCSources == MCTexts \cup MCForms
=============================================================================
