------------------------- MODULE PipelineProperties -------------------------
(***************************************************************************)
(* What must be true across the components that run_pipeline() strings     *)
(* together: the trace against the analysis, the result against the trace, *)
(* and the whole against what the repository's tests assert.               *)
(***************************************************************************)
EXTENDS Pipeline

CONSTANT Tests  \* requests, with the stage and the registers they must end with

Run == INSTANCE ExecutorProperties WITH Jobs <- {}

States == trace.states

-----------------------------------------------------------------------------
(* The trace runs along the graph: a step that is no jump stays inside its *)
(* block, to the next instruction, or follows an edge, of the kind the     *)
(* step recorded, to the top of a block (analyze: edges; execute_b).       *)
(* Code that only a return can reach may be in no block.                   *)
KindOf(s) ==
    CASE s.branch_taken = {TRUE}  -> "BranchTaken"
      [] s.branch_taken = {FALSE} -> "BranchNotTaken"
      [] OTHER                    -> "Fallthrough"

TraceFollowsGraph ==
    \A a \in analysis : \A k \in 3 .. Len(States) :
        LET s == States[k - 1]
        IN  s.instr.type \notin {"JAL", "JALR"} =>
               \A b \in BlockOf(a.blocks, s.pc) :
                   \E c \in BlockOf(a.blocks, States[k].pc) :
                       \/ c = b /\ States[k].pc = s.pc + WordSize
                       \/ /\ [from |-> b, to |-> c, kind |-> KindOf(s)] \in Range(a.edges)
                          /\ States[k].pc = a.blocks[c + 1].start_pc

(* A decoded array is what the trace says was stored: each value has the   *)
(* bytes that the last stores to its place recorded, in the range its      *)
(* width and sign allow; and without an error there is one for each        *)
(* element (decode_array, execute_s).                                      *)
Fits(value, w, signed) ==
    IF signed \/ w = 8 THEN value \in Signed(w) ELSE value \in Unsigned(w)

ArrayIsWhatWasStored ==
    \A r \in result : r.kind = "array" =>
        /\ r.error = {} => Len(r.values) = r.length
        /\ \A n \in DOMAIN r.values :
              LET w == request.spec.elem_width
              IN  /\ Fits(r.values[n], w, request.spec.signed)
                  /\ \A i \in 0 .. w - 1 :
                        ByteOf(AsUnsigned(r.values[n], w), i)
                            = Run!ByteAfter(r.raw_pointer + (n - 1) * w + i, Len(States))

(* An array is decoded as a whole or not at all, and refused only if it    *)
(* is not all in the stack window, aligned: an error never comes with      *)
(* values, and no error with a part that cannot be read (decode_array).    *)
Readable(r) ==
    LET w == request.spec.elem_width
    IN  /\ r.raw_pointer >= 0 /\ r.length >= 0 /\ w \in Widths
        /\ r.length > 0 =>
              /\ r.raw_pointer % w = 0
              /\ r.raw_pointer >= StackBase
              /\ r.raw_pointer + r.length * w <= StackTop

ArraysAreReadWholeOrRefused ==
    \A r \in result : r.kind = "array" =>
        /\ (r.error = {}) = Readable(r)
        /\ r.error # {} => r.values = <<>>

(* Together: an array is read exactly (decode_array).                      *)
ArraysAreReadExactly == ArraysAreReadWholeOrRefused /\ ArrayIsWhatWasStored

-----------------------------------------------------------------------------
(* The programs of the repository's tests end as the tests assert, and     *)
(* what is refused or fails on the way has no result (run_pipeline).       *)
TestsAgree ==
    \A t \in Tests :
        request = t.request /\ stage \in {"ok", "err", "panic"} =>
            /\ stage = t.stage
            /\ result # {} <=> stage = "ok"
            /\ \A r \in DOMAIN t.regs : FinalRegs[r] = t.regs[r]
            /\ \A x \in result : x.kind = "array" => x.values = t.values

(* What lib.rs says of FinalResult::Array: an array that could not be read *)
(* leaves a result with an error, and does not fail the run.               *)
DecodeErrorsAreReported == stage = "panic" => status = "panic"
=============================================================================
