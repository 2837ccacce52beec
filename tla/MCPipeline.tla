----------------------------- MODULE MCPipeline -----------------------------
(***************************************************************************)
(* Pipeline.tla on the programs of the tests of lib.rs, on short texts     *)
(* with a label and an entry anywhere, and on arrays anywhere in and       *)
(* around the stack window.  A byte has two bits: i64 is -32768 .. 32767,  *)
(* i32 is -128 .. 127.                                                     *)
(***************************************************************************)
EXTENDS InferenceProperties

MCPow2 == [n \in 0 .. 8 * ByteBits |-> 2 ^ n]

Stmt(cmd, rule, names, imm, label) ==
    <<[type |-> "instruction", cmd |-> cmd,
       operands |-> [rule |-> rule, regs |-> names, imm |-> imm, label |-> label]]>>
L(l)               == <<[type |-> "label", label |-> l]>>
Global(l)          == <<[type |-> "directive", name |-> "global", label |-> l]>>
Li(rd, i)          == Stmt("li", "binary_imm", <<rd>>, {i}, {})
Mv(rd, rs)         == Stmt("mv", "binary", <<rd, rs>>, {}, {})
AddI(rd, rs, i)    == Stmt("addi", "i", <<rd, rs>>, {i}, {})
Mem(op, r, i, b)   == Stmt(op, "memory", <<r, b>>, i, {})
Br(op, r1, r2, l)  == Stmt(op, "branch", <<r1, r2>>, {}, {l})
Brz(op, r, l)      == Stmt(op, "label", <<r>>, {}, {l})
Jump(l)            == Stmt("j", "label", <<>>, {}, {l})
Call(l)            == Stmt("jal", "label", <<>>, {}, {l})
CallReg(rd, l)     == Stmt("jal", "label", <<rd>>, {}, {l})
Return             == Stmt("ret", "none", <<>>, {}, {})

Scalar == [kind |-> "scalar", register |-> "a0"]
Array(w, signed) ==
    [kind |-> "array", ptr_register |-> "a0", length_register |-> "a1",
     elem_width |-> w, signed |-> signed]
Request(text, inputs, limit, spec) ==
    [source |-> FlattenSeq(text), inputs |-> inputs, limit |-> limit, spec |-> spec]
In(r, v) == [register |-> r, value |-> v]
Main == <<Global("main"), L("main")>>

-----------------------------------------------------------------------------
(* The programs of the tests, and what is asserted of them.                *)
Test(req, end, rf, values) == [request |-> req, stage |-> end, regs |-> rf, values |-> values]

Plain(text, rf) == Test(Request(text, <<>>, 60, Scalar), "ok", rf, <<>>)

MCTests ==
    { \* executes_loop_until_branch_falls_through
      Plain(Main \o <<Li("t0", 0), Li("t1", 3), L("f"), AddI("t0", "t0", 1),
                      Br("blt", "t0", "t1", "f"), Return>>, [t0 |-> 3]),
      \* supports_jal_and_ret
      Plain(Main \o <<CallReg("ra", "f"), Mv("ra", "zero"), Return,
                      L("f"), Li("a0", 1), Return>>, [a0 |-> 1]),
      \* supports_stack_save_restore_around_nested_jal
      Plain(Main \o <<CallReg("ra", "f"), Mv("ra", "zero"), Return,
                      L("f"), AddI("sp", "sp", -4), Mem("sw", "ra", {0}, "sp"),
                      CallReg("ra", "g"), Mem("lw", "ra", {0}, "sp"),
                      AddI("sp", "sp", 4), Return,
                      L("g"), Li("a0", 7), Return>>,
            [a0 |-> 7, sp |-> InitialStackPointer]),
      \* records_signed_and_unsigned_load_values
      Plain(Main \o <<AddI("sp", "sp", -4), Li("t0", -1), Mem("sb", "t0", {0}, "sp"),
                      Mem("lb", "a0", {0}, "sp"), Mem("lbu", "a1", {0}, "sp"),
                      AddI("sp", "sp", 4), Return>>,
            [a0 |-> -1, a1 |-> Modulus(1) - 1]),
      \* executes_unsigned_branch_with_u64_comparison
      Plain(Main \o <<Li("t0", -1), Li("t1", 1), Br("bltu", "t1", "t0", "f"),
                      Li("a0", 0), Return, L("f"), Li("a0", 1), Return>>, [a0 |-> 1]),
      \* executes_zero_branch_pseudo_via_lowering
      Plain(Main \o <<Li("t0", 0), Brz("beqz", "t0", "f"), Li("a0", -1), Return,
                      L("f"), Li("a0", 5), Return>>, [a0 |-> 5]),
      \* executes_unsigned_pseudo_branch_with_correct_operand_order
      Plain(Main \o <<Li("t0", -1), Li("t1", 1), Br("bleu", "t0", "t1", "f"),
                      Li("a0", 7), Return, L("f"), Li("a0", 3), Return>>, [a0 |-> 7]),
      \* runs_max3_program_as_written
      Test(Request(Main \o <<Mem("sd", "ra", {}, "sp"), Call("f"), Mem("ld", "ra", {}, "sp"),
                             Mv("a1", "a2"), Mem("sd", "ra", {}, "sp"), Call("f"),
                             Mem("ld", "ra", {}, "sp"), Jump("g"),
                             L("f"), Br("bgt", "a0", "a1", "g"), Mv("a0", "a1"), Jump("g"),
                             L("g"), Return>>,
                   <<In("a0", 3), In("a1", 9), In("a2", 7)>>, 60, Scalar),
           "ok", [a0 |-> 9], <<>>),
      \* interprets_array_result_from_a0_and_a1
      Test(Request(Main \o <<AddI("sp", "sp", -16), Li("t0", 7), Li("t1", 9),
                             Mem("sw", "t0", {0}, "sp"), Mem("sw", "t1", {4}, "sp"),
                             Mv("a0", "sp"), Li("a1", 2), Return>>,
                   <<>>, 60, Array(4, TRUE)),
           "ok", [a0 |-> InitialStackPointer - 16, a1 |-> 2], <<7, 9>>),
      \* reports_array_result_decode_errors_without_failing_run
      Test(Request(Main \o <<Li("a0", 64), Li("a1", -2), Return>>,
                   <<>>, 50, Array(4, TRUE)),
           "ok", [a1 |-> -2], <<>>),
      \* rejects_misaligned_word_access
      Test(Request(Main \o <<AddI("sp", "sp", -8), Mem("sw", "ra", {2}, "sp"), Return>>,
                   <<>>, 20, Scalar), "err", [a0 |-> 0], <<>>),
      \* rejects_unknown_labels
      Test(Request(Main \o <<Br("beq", "t0", "t1", "f")>>, <<>>, 20, Scalar),
           "err", <<>>, <<>>) }

-----------------------------------------------------------------------------
(* Short texts over an entry and a label f at any place or none: calls,    *)
(* jumps, branches, returns to an address from outside.                    *)
FlowMenu == {Brz("bnez", "t0", "f"), Brz("beqz", "t0", "f"), Call("f"), Jump("f"),
             AddI("t0", "t0", 1), Li("t0", 1), Mv("a0", "t0"), Return}

Placed(body, f, main) ==
    <<Global("main")>> \o FlattenSeq([n \in 1 .. Len(body) + 1 |->
        (IF n = f THEN <<L("f")>> ELSE <<>>)
        \o (IF n = main THEN <<L("main")>> ELSE <<>>)
        \o (IF n <= Len(body) THEN <<body[n]>> ELSE <<>>)])

MCFlowRequests ==
    {Request(Placed(body, f, main), <<In("ra", ra)>>, 6, Scalar)
        : body \in [1 .. 3 -> FlowMenu], f \in 1 .. 5, main \in 1 .. 2, ra \in {0, 4}}

-----------------------------------------------------------------------------
(* Arrays: stores of three widths, then an array of every width, signed or *)
(* not, at and around both ends of the window and outside of it.           *)
ArrayText(top) ==
    Main \o <<Li("t0", -1), Li("t1", 6)>>
         \o (IF top THEN <<Mem("sd", "t0", {0}, "sp"), Mem("sh", "t1", {2}, "sp"),
                           Mem("sb", "t1", {7}, "sp")>>
             ELSE <<Mem("sw", "t0", {0}, "t2"), Mem("sh", "t1", {0}, "t2")>>)
         \o <<Return>>

ArrayRequest(text, ptr, length, spec) ==
    Request(text, <<In("t2", StackBase), In("a0", ptr), In("a1", length)>>, 20, spec)

MCArrayRequests ==
    {ArrayRequest(ArrayText(TRUE), p, n, Array(w, s))
        : p \in {StackTop - k : k \in {-1, 0, 1, 2, 4, 7, 8, 16}} \cup {-1},
          n \in {-1, 0, 1, 2, 3, 8}, w \in {0, 1, 2, 3, 4, 8}, s \in BOOLEAN}
    \cup {ArrayRequest(ArrayText(FALSE), StackBase + k, n, Array(w, s))
        : k \in {-8, -1, 0, 1, 2, 4}, n \in {0, 1, 3}, w \in {1, 2, 4}, s \in BOOLEAN}
    \cup {ArrayRequest(ArrayText(TRUE), StackBase, n, Array(2, TRUE)) : n \in {65, 32767}}

-----------------------------------------------------------------------------
(* Two instructions of any kind in a row, whose registers nothing assigned *)
(* before; and ways that meet, where only one of them assigns a register.  *)
ReadMenu ==
    {Mem("sw", "t1", {0}, "t2"), Mem("lw", "t1", {0}, "t2"), Mem("lw", "t1", {}, "t0"),
     Stmt("add", "r", <<"t1", "t2", "t0">>, {}, {}), AddI("t2", "t1", 1),
     Br("bltu", "t1", "t2", "f"), Br("bgt", "t0", "zero", "f"), CallReg("t1", "f"), Li("t0", 1)}

MCReadRequests ==
    {Request(Main \o <<i, k, Return, L("f"), Mv("a0", "t2"), Return>>,
             <<In("t2", StackBase)>>, 8, Scalar) : i, k \in ReadMenu}
    \cup {Request(Main \o <<Brz("bnez", "t0", "f"), Li("t1", 1), L("g"), Mv("a0", "zero"), i, Return,
                             L("f"), Jump("g")>>, <<In("t0", t)>>, 8, Scalar)
              : i \in ReadMenu, t \in {0, 1}}

MCRequests == MCFlowRequests \cup MCArrayRequests \cup MCReadRequests
              \cup {t.request : t \in MCTests}
=============================================================================
