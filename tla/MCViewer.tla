------------------------------ MODULE MCViewer ------------------------------
(***************************************************************************)
(* Viewer.tla with programs whose registers Inference.tla works out: one   *)
(* that reads a register, one that reads none, an example that reads two,  *)
(* and one whose entry is behind its last instruction, as while a program  *)
(* is typed.  One user writes, and has runs that fail; another has runs    *)
(* that succeed, imports files and plays.                                  *)
(***************************************************************************)
EXTENDS ViewerProperties, Isa

Infer == INSTANCE Inference

MCPow2 == [n \in 0 .. 8 * ByteBits |-> 2 ^ n]

Stmt(cmd, rule, names, imm) ==
    [type |-> "instruction", cmd |-> cmd,
     operands |-> [rule |-> rule, regs |-> names, imm |-> imm, label |-> {}]]

Text(s) ==
    CASE s = "blank" -> <<>>
      [] s = "move"  -> <<Stmt("mv", "binary", <<"a1", "a0">>, {}), Stmt("ret", "none", <<>>, {})>>
      [] s = "load"  -> <<Stmt("li", "binary_imm", <<"a0">>, {1}), Stmt("ret", "none", <<>>, {})>>
      [] s = "add"   -> <<Stmt("add", "r", <<"a0", "a0", "a1">>, {}),
                          Stmt("ret", "none", <<>>, {})>>
      [] s = "entry" -> <<[type |-> "directive", name |-> "global", label |-> "main"],
                          Stmt("li", "binary_imm", <<"a0">>, {1}),
                          [type |-> "label", label |-> "main"]>>

MCNeeds == [s \in Source |-> Infer!InferredInputs(Text(s))]

User(sources, values, runs, traces, analyses) ==
    [sources |-> sources, values |-> values, runs |-> runs, traces |-> traces,
     analyses |-> analyses, reloads |-> TRUE]

MCUsers ==
    {User({"move", "load", "add", "entry"}, Value, {}, {}, FALSE),
     User({"move", "load", "entry"}, {"7"}, {2, 3}, {0, 1, 3}, TRUE)}
=============================================================================
