----------------------------- MODULE FlatMemory -----------------------------
(***************************************************************************)
(* What the rest of the program may rely on of memory.rs: a total array of *)
(* bytes over the stack window.  A word is the little-endian reading of    *)
(* its bytes; an access succeeds exactly when it is aligned and lies in    *)
(* the window, and one that fails changes nothing.  Which of two reasons a *)
(* failing access names is left open here.                                 *)
(***************************************************************************)
EXTENDS Words

CONSTANTS
    Window,     \* the addresses that exist
    Requests    \* what clients ask for

VARIABLES
    cells,      \* the byte at each address of the window
    reply       \* the answer to the last request

NoReply == [request |-> {}, value |-> {}, error |-> {}]

Covered(q) == q.addr .. q.addr + q.width - 1
Aligned(q) == q.addr % q.width = 0
Legal(q)   == Aligned(q) /\ Covered(q) \subseteq Window

\* v is the number of q.width bytes that mem holds at q.addr.
Reads(v, q, mem) ==
    /\ v \in Unsigned(q.width)
    /\ \A k \in 0 .. q.width - 1 : ByteOf(v, k) = mem[q.addr + k]

Init ==
    /\ cells = [a \in Window |-> 0]
    /\ reply = NoReply

Succeed(q, value) ==
    /\ Legal(q)
    /\ reply' = [request |-> {q}, value |-> {value}, error |-> {}]

Load(q, v) ==
    /\ q.kind = "Load"
    /\ Succeed(q, v)
    /\ Reads(v, q, cells)
    /\ UNCHANGED cells

\* A store answers with the old number, read as a signed one.
Store(q, old) ==
    /\ q.kind = "Store"
    /\ Succeed(q, old)
    /\ old \in Signed(q.width)
    /\ Reads(AsUnsigned(old, q.width), q, cells)
    /\ cells' \in [Window -> Unsigned(1)]
    /\ Reads(q.data, q, cells')
    /\ \A a \in Window \ Covered(q) : cells'[a] = cells[a]

Refuse(q, why) ==
    /\ CASE why = "MisalignedMemory" -> ~Aligned(q)
         [] why = "InvalidMemAddr"   -> ~(Covered(q) \subseteq Window)
    /\ reply' = [request |-> {q}, value |-> {}, error |-> {why}]
    /\ UNCHANGED cells

Next ==
    \E q \in reply'.request \cap Requests :
        \/ \E v \in reply'.value : Load(q, v) \/ Store(q, v)
        \/ \E why \in {"MisalignedMemory", "InvalidMemAddr"} : Refuse(q, why)

Spec == Init /\ [][Next]_<<cells, reply>>
=============================================================================
