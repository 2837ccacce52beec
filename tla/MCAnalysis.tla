----------------------------- MODULE MCAnalysis -----------------------------
(***************************************************************************)
(* Analysis.tla on all short programs over an instruction of each kind,    *)
(* with targets anywhere in the code and at the address after it.          *)
(***************************************************************************)
EXTENDS AnalysisProperties

CONSTANT
    Lengths     \* the lengths of the programs

MCPow2 == [n \in 0 .. 8 * ByteBits |-> 2 ^ n]

Addresses(n) == {WordSize * k : k \in 0 .. n}

Menu(n) ==
    {[type |-> "I", op_code |-> "ADDI", rd |-> "t0", rs |-> "t0", imm |-> 1],
     [type |-> "JALR", rd |-> "zero", address |-> [register |-> "ra", offset |-> 0]]}
    \cup {[type |-> "B", op_code |-> "BNE", rs1 |-> "t0", rs2 |-> "zero",
           target |-> {t}] : t \in Addresses(n)}
    \cup {[type |-> "JAL", rd |-> "ra", target |-> {t}] : t \in Addresses(n)}

\* A menu of branches only: every graph that conditional branches can make.
BranchMenu(n) == {i \in Menu(n) : i.type \in {"B", "I"}}

MCPrograms ==
    UNION {[code : [1 .. n -> Menu(n)], entry : Addresses(n)] : n \in Lengths}
    \cup [code : [1 .. 4 -> BranchMenu(4)], entry : {0, 8}]
=============================================================================
