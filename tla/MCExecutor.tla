----------------------------- MODULE MCExecutor -----------------------------
(***************************************************************************)
(* Executor.tla on a machine with one bit in a byte: i64 is -128 .. 127,   *)
(* i32 is -8 .. 7, the stack window is 16 .. 31 and sp starts at 24.       *)
(***************************************************************************)
EXTENDS ExecutorProperties

MCPow2 == [n \in 0 .. 8 * ByteBits |-> 2 ^ n]

R(op, rd, rs1, rs2) == [type |-> "R", op_code |-> op, rd |-> rd, rs1 |-> rs1, rs2 |-> rs2]
Addi(rd, rs, imm)   == [type |-> "I", op_code |-> "ADDI", rd |-> rd, rs |-> rs, imm |-> imm]
At(base, offset)    == [register |-> base, offset |-> offset]
Ld(op, rd, ref)     == [type |-> "L", op_code |-> op, rd |-> rd, address |-> ref]
St(op, rs, ref)     == [type |-> "S", op_code |-> op, rs |-> rs, address |-> ref]
Br(op, rs1, rs2, t) == [type |-> "B", op_code |-> op, rs1 |-> rs1, rs2 |-> rs2, target |-> t]
Jal(rd, t)          == [type |-> "JAL", rd |-> rd, target |-> t]
Ret                 == [type |-> "JALR", rd |-> "zero", address |-> At("ra", 0)]

Job(code, entry, inputs, limit) ==
    [code |-> code, entry |-> entry, inputs |-> inputs, limit |-> limit]
Input(r, v) == [register |-> r, value |-> v]

Programs(menu, lengths) == UNION {[1 .. n -> menu] : n \in lengths}

-----------------------------------------------------------------------------
(* Control: all programs of up to three instructions that move the pc, run *)
(* to their end or to the limit, and short ones with every small limit and *)
(* with a return address from outside: in the code, past its end, or odd.  *)
MCControlMenu ==
    {Addi("t0", "t0", 1), Br("BNE", "t0", "zero", {0}), Br("BLTU", "t0", "ra", {8}),
     Br("BEQ", "t0", "ra", {}), Jal("ra", {8}), Jal("zero", {12}), Jal("zero", {}), Ret}

MCBranches ==
    {Br(op, "t0", "t1", {8}) : op \in BOpCode}

MCControlJobs ==
    {Job(code, 0, <<>>, 5) : code \in Programs(MCControlMenu, {0, 3})}
    \cup {Job(<<x, Ret>>, 4, <<Input("ra", v)>>, n)
            : x \in MCControlMenu, v \in {0, 2, 4, 12}, n \in 0 .. 3}
    \cup {Job(<<b, Jal("zero", {8}), Ret>>, 0, <<Input("t0", x), Input("t1", y)>>, 3)
            : b \in MCBranches, x \in {-128, -1, 0, 3}, y \in {-128, -1, 3}}

-----------------------------------------------------------------------------
(* Memory: all programs of up to four accesses of every width at one place *)
(* of the stack, with misaligned and outlying ones among them, and two     *)
(* registers to store; inputs may name sp, or a register twice.            *)
MCMemoryMenu ==
    {St("SD", "t0", At("sp", 0)), St("SW", "t0", At("sp", 4)), St("SH", "t1", At("sp", 2)),
     St("SB", "t1", At("sp", 3)), St("SH", "t0", At("sp", 1)), St("SW", "t0", At("sp", -8)),
     Ld("LD", "t1", At("sp", 0)), Ld("LW", "t1", At("sp", 4)), Ld("LH", "t1", At("sp", 2)),
     Ld("LHU", "t0", At("sp", 2)), Ld("LB", "t0", At("sp", 3)), Ld("LBU", "t0", At("sp", 3))}

MCMemoryJobs ==
    {Job(code, 0, <<Input("t0", 83), Input("t1", -83)>>, 3)
        : code \in Programs(MCMemoryMenu, {2})}
    \cup {Job(<<St("SD", "t0", At("sp", 0)), x, Ld("LD", "t1", At("sp", 0)), y>>, 0,
              <<Input("t0", 83), Input("t1", 2), Input("t1", -83)>>, 4)
            : x, y \in MCMemoryMenu}
    \cup {Job(<<x, Ret>>, 0, <<Input("sp", 1), Input("sp", v), Input("t0", -1)>>, 4)
            : x \in MCMemoryMenu, v \in {-8, 8, 12, 14, 16, 29, 31, 32, 120, 127}}

-----------------------------------------------------------------------------
(* Arithmetic: every operation on boundary values of i64, one per job, and *)
(* addresses that overflow, lie outside the stack, or are good.            *)
MCOperands == {-128, -127, -65, -7, -1, 0, 1, 2, 7, 8, 64, 127}

MCArithmeticJobs ==
    {Job(<<R(op, "t0", "t0", "t1"), Ret>>, 0, <<Input("t0", l), Input("t1", r)>>, 2)
        : op \in ROpCode, l, r \in MCOperands}
    \cup {Job(<<x, Ret>>, 0, <<Input("t0", l)>>, 2)
            : l \in MCOperands \cup {20, 24},
              x \in {Addi("t0", "t0", 7), Addi("t0", "t0", -8), Addi("zero", "t0", 7),
                     R("DIV", "zero", "t0", "t1"),
                     St("SB", "t0", At("t0", 7)), Ld("LBU", "t1", At("t0", -8))}}

MCDebugJobs   == MCControlJobs \cup MCArithmeticJobs
MCReleaseJobs == MCMemoryJobs \cup MCArithmeticJobs
=============================================================================
