-------------------------------- MODULE Isa --------------------------------
(***************************************************************************)
(* The instructions that the executor runs (instruction.rs, reg.rs) and    *)
(* what one of them computes from register values: the match arms of       *)
(* execute_r, execute_i, execute_l, execute_s and execute_b.               *)
(*                                                                         *)
(* A result that may be missing is a set of at most one value.  A missing  *)
(* arithmetic result is a Rust panic; a missing target is a label that was *)
(* never resolved.                                                         *)
(***************************************************************************)
EXTENDS MemoryOps, Sequences

CONSTANTS
    Reg,            \* the registers of reg.rs, by name
    OverflowChecks  \* TRUE in a debug build, FALSE in a release build

ASSUME IsaAssumption ==
    /\ {"zero", "ra", "sp"} \subseteq Reg
    /\ OverflowChecks \in BOOLEAN

WordSize == 4

ROpCode     == {"ADD", "SUB", "DIV", "MUL", "SLL"}
LoadOpCode  == {"LB", "LBU", "LH", "LHU", "LW", "LD"}
StoreOpCode == {"SB", "SH", "SW", "SD"}
BOpCode     == {"BEQ", "BNE", "BLT", "BGE", "BLTU", "BGEU"}

MemoryRef == [register : Reg, offset : I32]
Target    == Option(U64)

RInst == [type : {"R"}, op_code : ROpCode, rd : Reg, rs1 : Reg, rs2 : Reg]
IInst == [type : {"I"}, op_code : {"ADDI"}, rd : Reg, rs : Reg, imm : I32]
LInst == [type : {"L"}, op_code : LoadOpCode, rd : Reg, address : MemoryRef]
SInst == [type : {"S"}, op_code : StoreOpCode, rs : Reg, address : MemoryRef]
BInst == [type : {"B"}, op_code : BOpCode, rs1 : Reg, rs2 : Reg, target : Target]
\* JInst: a direct jump with JAL and an indirect one with JALR; the assembler
\* builds no other pairing of the two enums.
JalInst  == [type : {"JAL"},  rd : Reg, target : Target]
JalrInst == [type : {"JALR"}, rd : Reg, address : MemoryRef]

Instruction == RInst \cup IInst \cup LInst \cup SInst \cup BInst
                     \cup JalInst \cup JalrInst
Nil         == [type |-> "Nil"]

-----------------------------------------------------------------------------
(* Arithmetic on i64. *)

\* Faulty variant: release arithmetic saturates.
ArithSaturates(x) ==
    IF x \in I64 THEN {x}
    ELSE IF OverflowChecks THEN {}
    ELSE {IF x < 0 THEN -(Modulus(8) \div 2) ELSE Modulus(8) \div 2 - 1}

\* Faulty variant: arithmetic wraps in a debug build as well.
ArithWraps(x) == {AsSigned(x, 8)}

\* A sum, difference or product: checked in a debug build, else it wraps.
Arith(x) ==
    IF x \in I64 THEN {x} ELSE IF OverflowChecks THEN {} ELSE {AsSigned(x, 8)}

Magnitude(x) == IF x < 0 THEN -x ELSE x

\* `/` truncates toward zero; zero divisors and MIN / -1 panic in every build.
Quotient(l, r) ==
    LET q == Magnitude(l) \div Magnitude(r)
        s == IF (l < 0) = (r < 0) THEN q ELSE -q
    IN  IF s \in I64 THEN {s} ELSE {}
Div(l, r) == IF r = 0 THEN {} ELSE Quotient(l, r)

\* Faulty variant: release builds check shift amounts too.
ShiftLeftChecked(l, r) ==
    IF r \notin 0 .. RegBits - 1 THEN {} ELSE {AsSigned(l * Pow2[r], 8)}

\* `<<` loses high bits silently; a shift amount that is not a bit number
\* panics in a debug build, and is masked in a release build.
ShiftLeft(l, r) ==
    IF OverflowChecks /\ r \notin 0 .. RegBits - 1
    THEN {}
    ELSE {AsSigned(l * Pow2[r % RegBits], 8)}

RValue(op_code, l, r) ==
    CASE op_code = "ADD" -> Arith(l + r)
      [] op_code = "SUB" -> Arith(l - r)
      [] op_code = "DIV" -> Div(l, r)
      [] op_code = "MUL" -> Arith(l * r)
      [] op_code = "SLL" -> ShiftLeft(l, r)

\* resolve_address: the sum is an i64, cast to u64.
ResolveAddress(ref, regs) ==
    {AsUnsigned(x, 8) : x \in Arith(regs[ref.register] + ref.offset)}

-----------------------------------------------------------------------------
(* Memory accesses and branches. *)

Width(op_code) ==
    CASE op_code \in {"LB", "LBU", "SB"} -> 1
      [] op_code \in {"LH", "LHU", "SH"} -> 2
      [] op_code \in {"LW", "SW"}        -> 4
      [] op_code \in {"LD", "SD"}        -> 8

\* Faulty variant: every load sign-extends.
LoadValueSigned(op_code, raw) == AsSigned(raw, Width(op_code))

\* The i64 that a load makes of the raw bytes it read.
LoadValue(op_code, raw) ==
    IF op_code \in {"LBU", "LHU"} THEN raw ELSE AsSigned(raw, Width(op_code))

\* Faulty variant: the unsigned branches compare signed values.
BranchTakenSigned(op_code, l, r) ==
    CASE op_code = "BEQ"             -> l = r
      [] op_code = "BNE"             -> l # r
      [] op_code \in {"BLT", "BLTU"} -> l < r
      [] op_code \in {"BGE", "BGEU"} -> l >= r

BranchTaken(op_code, l, r) ==
    CASE op_code = "BEQ"  -> l = r
      [] op_code = "BNE"  -> l # r
      [] op_code = "BLT"  -> l < r
      [] op_code = "BGE"  -> l >= r
      [] op_code = "BLTU" -> AsUnsigned(l, 8) < AsUnsigned(r, 8)
      [] op_code = "BGEU" -> AsUnsigned(l, 8) >= AsUnsigned(r, 8)

\* The instruction at pc, if there is one (Assembler::instruction_at_pc).
InstructionAt(code, pc) ==
    IF pc % WordSize = 0 /\ pc \div WordSize < Len(code)
    THEN {code[pc \div WordSize + 1]}
    ELSE {}
=============================================================================
