------------------------ MODULE InferenceProperties ------------------------
(***************************************************************************)
(* What must be true of the values that the browser asks for, which it     *)
(* reads out of the text on its own: against the program that the          *)
(* assembler makes of the same text, and against the run of it.            *)
(***************************************************************************)
EXTENDS PipelineProperties

Infer == INSTANCE Inference

-----------------------------------------------------------------------------
(* The registers that an instruction reads, apart from ra for a return.    *)
ReadBy(inst) ==
    CASE inst.type \in {"R", "B"} -> {inst.rs1, inst.rs2}
      [] inst.type = "I"          -> {inst.rs}
      [] inst.type = "L"          -> {inst.address.register}
      [] inst.type = "S"          -> {inst.rs, inst.address.register}
      [] OTHER                    -> {}

Index(addr)     == addr \div WordSize + 1
IsCall(inst)    == inst.type = "JAL" /\ inst.rd # "zero"
AfterCall(code) == {k \in DOMAIN code : k > 1 /\ IsCall(code[k - 1])}

\* Where control may go from k, a return going after any call.
MayFollow(code, k) ==
    LET direct == {Index(a) : a \in DirectTargets(code[k])}
    IN  (CASE code[k].type = "B"    -> direct \cup {k + 1}
           [] code[k].type = "JAL"  -> direct
           [] code[k].type = "JALR" -> AfterCall(code)
           [] OTHER                 -> {k + 1}) \cap DOMAIN code

\* The instructions that some way from the entry leads to without writing r.
UnwrittenAt(code, entry, r) ==
    LET within[n \in 0 .. Len(code)] ==
            IF n = 0 THEN {entry}
            ELSE within[n - 1] \cup
                 UNION {MayFollow(code, k) :
                           k \in {i \in within[n - 1] : r \notin Run!WrittenBy(code[i])}}
    IN  within[Len(code)]

(* What the browser asks values for, reading the text alone, is exact for  *)
(* the program that the assembler makes of it: the registers that some way *)
(* from the entry comes to read with no write before it, and no others     *)
(* (inferredInputRegisters; assemble, resolve, entry_pc).                  *)
InferenceIsExact ==
    stage = "analyze" /\ Index(Asm!EntryPc) \in DOMAIN Asm!Code =>
        Infer!InferredInputs(source) =
            {{r \in Reg \ Infer!Runtime :
                \E k \in UnwrittenAt(Asm!Code, Index(Asm!EntryPc), r) :
                    r \in ReadBy(Asm!Code[k])}}

(* A run never reads a register that the browser did not ask a value for,  *)
(* that does not start with one and that no earlier step wrote, as long as *)
(* its returns have all gone to the instruction after some call            *)
(* (inferredInputRegisters; the steps of execute).                         *)
InferredInputsSuffice ==
    stage \in {"ok", "err", "panic"} /\ phase = "assembled" =>
        \A asked \in Infer!InferredInputs(source) : \A k \in 2 .. Len(States) :
            \/ \E j \in 2 .. k - 1 :
                  /\ States[j].instr.type = "JALR"
                  /\ Index(States[j].next_pc) \notin AfterCall(Asm!Code)
            \/ ReadBy(States[k].instr) \subseteq
                  Infer!Runtime \cup asked
                  \cup UNION {Run!WrittenBy(States[j].instr) : j \in 2 .. k - 1}
=============================================================================
