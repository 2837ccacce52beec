------------------------------- MODULE Memory -------------------------------
(***************************************************************************)
(* memory.rs as a state machine: the sparse map of stored bytes, and the   *)
(* answer to the last request.  A client makes one request at a time (the  *)
(* methods take `&self` and `&mut self` and nothing runs concurrently).    *)
(***************************************************************************)
EXTENDS MemoryOps

CONSTANT Requests   \* the requests that a client may make

\* Addresses are u64; the data of a store has the width of the store.
RequestType ==
    [kind : {"Load"}, addr : U64, width : Widths] \cup
    (UNION {[kind : {"Store"}, addr : U64, width : {w}, data : Unsigned(w)] :
              w \in Widths})

ASSUME RequestsAssumption == Requests \subseteq RequestType

VARIABLES bytes, reply

vars == <<bytes, reply>>

NoReply == [request |-> {}, value |-> {}, error |-> {}]

Init ==
    /\ bytes = NoBytes
    /\ reply = NoReply

\* load8, load16, load32, load64
Load(q) ==
    /\ q.kind = "Load"
    /\ Fault(q.addr, q.width) = {}
    /\ reply' = [request |-> {q},
                 value   |-> {LoadRaw(bytes, q.addr, q.width)},
                 error   |-> {}]
    /\ UNCHANGED bytes

\* store8, store16, store32, store64
Store(q) ==
    /\ q.kind = "Store"
    /\ Fault(q.addr, q.width) = {}
    /\ bytes' = StoreRaw(bytes, q.addr, q.width, q.data)
    /\ reply' = [request |-> {q},
                 value   |-> {PreviousValue(bytes, q.addr, q.width)},
                 error   |-> {}]

\* The `?` of either: the error returns before anything is read or inserted.
Refuse(q) ==
    /\ Fault(q.addr, q.width) # {}
    /\ reply' = [request |-> {q}, value |-> {}, error |-> Fault(q.addr, q.width)]
    /\ UNCHANGED bytes

Next == \E q \in Requests : Load(q) \/ Store(q) \/ Refuse(q)

Spec == Init /\ [][Next]_vars

-----------------------------------------------------------------------------
(* Type invariant: the sparse map of memory.rs holds bytes of the stack    *)
(* window only, and a request is answered with a value or with one error.  *)
TypeOK ==
    /\ IsSparseMap(bytes)
    /\ reply.request \in {{}} \cup {{q} : q \in Requests}
    /\ \/ reply.error = {} /\ \A v \in reply.value : v \in Int
       \/ reply.value = {} /\ \E e \in MemFaults : reply.error = {e}

(* The sparse map of memory.rs behaves as the total array of bytes of      *)
(* FlatMemory: multi-byte loads and stores agree with each other and with  *)
(* byte accesses, stores answer with the value they overwrite, and refused *)
(* accesses have no effect and a reason that is true of them.              *)
Flat == INSTANCE FlatMemory WITH cells <- [a \in Window |-> Load8(bytes, a)]

ImplementsFlatMemory == Flat!Spec
=============================================================================
