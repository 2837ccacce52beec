---------------------------- MODULE MemoryProofs ----------------------------
(***************************************************************************)
(* The memory of memory.rs is the byte array of FlatMemory.tla, for every  *)
(* stack window, every set of requests and every number of bits in a byte. *)
(***************************************************************************)
EXTENDS Memory, MemoryOpsProofs

-----------------------------------------------------------------------------
\* FlatMemory has its own copy of the operators on words.
LEMMA FlatWords ==
    /\ \A w : Flat!Unsigned(w) = Unsigned(w)
    /\ \A w : Flat!Signed(w) = Signed(w)
    /\ \A x, w : Flat!AsUnsigned(x, w) = AsUnsigned(x, w)
    /\ \A x, k : Flat!ByteOf(x, k) = ByteOf(x, k)
BY DEF Flat!Unsigned, Flat!Signed, Flat!AsUnsigned, Flat!ByteOf, Flat!Modulus,
       Unsigned, Signed, AsUnsigned, ByteOf, Modulus

\* The types of a request.
LEMMA RequestTypes ==
    ASSUME NEW q \in Requests
    PROVE  /\ q.width \in Widths /\ q.width \in 1 .. 8
           /\ q.addr \in Nat /\ q.addr \in Int
           /\ q.kind = "Store" => q.data \in Unsigned(q.width) /\ q.data \in Int
<1>1. q \in RequestType
    BY RequestsAssumption
<1>2. q.width \in Widths /\ q.addr \in U64
    BY <1>1 DEF RequestType
<1>3. q.kind = "Store" => q.data \in Unsigned(q.width)
    BY <1>1 DEF RequestType
<1>4. /\ \A x \in U64 : x \in Nat /\ x \in Int
      /\ \A x \in Unsigned(q.width) : x \in Int
    BY <1>2, ModulusPositive, WidthsAreByteCounts DEF U64, Unsigned
<1>5. q.width \in 1 .. 8
    <2>1. \A w \in Widths : w \in 1 .. 8
        BY DEF Widths
    <2> QED BY <1>2, <2>1
<1>6. q.addr \in Nat /\ q.addr \in Int
    BY <1>2, <1>4
<1> QED BY <1>2, <1>3, <1>4, <1>5, <1>6

\* The faults of memory.rs are those of the byte array.
LEMMA FaultsAreTrue ==
    ASSUME NEW q \in Requests
    PROVE  /\ Fault(q.addr, q.width) = {} => Flat!Legal(q)
           /\ Fault(q.addr, q.width) # {} =>
                 \E why \in MemFaults :
                    /\ Fault(q.addr, q.width) = {why}
                    /\ CASE why = "MisalignedMemory" -> ~Flat!Aligned(q)
                         [] why = "InvalidMemAddr" -> ~(Flat!Covered(q) \subseteq Window)
<1> DEFINE addr == q.addr
           w == q.width
<1>1. w \in Widths /\ w \in 1 .. 8 /\ addr \in Nat
    BY RequestTypes
<1>2. Flat!Covered(q) = Span(addr, w)
    BY DEF Flat!Covered, Span
<1>3. Misaligned(addr, w) <=> ~Flat!Aligned(q)
    BY DEF Misaligned, Flat!Aligned
<1>4. Fault(addr, w) = {} => Flat!Legal(q)
    <2> SUFFICES ASSUME Fault(addr, w) = {} PROVE Flat!Legal(q)
        OBVIOUS
    <2>1. ~Misaligned(addr, w)
        BY DEF Fault
    <2>2. Span(addr, w) \subseteq Window
        BY <1>1, NoFaultInWindow
    <2> QED BY <1>2, <1>3, <2>1, <2>2 DEF Flat!Legal
<1>5. OutsideWindow(addr, w) => ~(Span(addr, w) \subseteq Window)
    BY <1>1, OutsideLeavesWindow
<1>6. CASE Misaligned(addr, w)
    <2>1. Fault(addr, w) = {"MisalignedMemory"}
        BY <1>6 DEF Fault
    <2> QED BY <1>3, <1>6, <2>1 DEF MemFaults
<1>7. CASE ~Misaligned(addr, w) /\ OutsideWindow(addr, w)
    <2>1. Fault(addr, w) = {"InvalidMemAddr"}
        BY <1>7 DEF Fault
    <2> QED BY <1>2, <1>5, <1>7, <2>1 DEF MemFaults
<1>8. CASE ~Misaligned(addr, w) /\ ~OutsideWindow(addr, w)
    <2>1. Fault(addr, w) = {}
        BY <1>8 DEF Fault
    <2> QED BY <1>4, <2>1
<1> QED BY <1>6, <1>7, <1>8

Cells == [a \in Window |-> Load8(bytes, a)]

\* What a load returns is what the byte array reads.
LEMMA LoadsReadCells ==
    ASSUME NEW m, IsSparseMap(m), NEW q \in Requests, Flat!Legal(q), NEW v,
           IsWordAt(v, m, q.addr, q.width)
    PROVE  Flat!Reads(v, q, [a \in Window |-> Load8(m, a)])
<1>1. q.width \in 1 .. 8 /\ q.addr \in Nat
    BY RequestTypes
<1>2. \A k \in 0 .. q.width - 1 : q.addr + k \in Window
    BY <1>1 DEF Flat!Legal, Flat!Covered
<1> QED BY <1>2, FlatWords DEF Flat!Reads, IsWordAt

\* A store writes the bytes of its data, and no others.
LEMMA StoresWriteCells ==
    ASSUME NEW m, IsSparseMap(m), NEW q \in Requests, q.kind = "Store",
           Fault(q.addr, q.width) = {}, NEW c,
           c = [a \in Window |-> Load8(StoreRaw(m, q.addr, q.width, q.data), a)]
    PROVE  /\ c \in [Window -> Unsigned(1)]
           /\ Flat!Reads(q.data, q, c)
           /\ \A a \in Window \ Flat!Covered(q) : c[a] = Load8(m, a)
<1> DEFINE s == StoreRaw(m, q.addr, q.width, q.data)
<1>1. /\ q.width \in Widths /\ q.width \in 1 .. 8 /\ q.addr \in Nat
      /\ q.data \in Unsigned(q.width) /\ q.data \in Int
    BY RequestTypes
<1>2. IsSparseMap(s)
    BY <1>1, StoreRawType
<1>3. \A a \in Window : Load8(s, a) =
         IF a \in Span(q.addr, q.width) THEN ByteOf(q.data, a - q.addr) ELSE Load8(m, a)
    BY DEF StoreRaw, Load8
<1>4. c \in [Window -> Unsigned(1)]
    <2>1. \A a \in Window : Load8(s, a) \in Unsigned(1)
        BY <1>2, ModulusPositive DEF Load8, IsSparseMap, Unsigned
    <2> HIDE DEF s
    <2> QED BY <2>1 DEF s
<1>5. Flat!Covered(q) = Span(q.addr, q.width)
    BY DEF Flat!Covered, Span
<1>6. Flat!Reads(q.data, q, c)
    <2>1. ASSUME NEW k \in 0 .. q.width - 1 PROVE ByteOf(q.data, k) = c[q.addr + k]
        <3>1. /\ q.addr + k \in Span(q.addr, q.width)
              /\ (q.addr + k) - q.addr = k
            BY <1>1 DEF Span
        <3>2. q.addr + k \in Window
            BY <1>1, <3>1, NoFaultInWindow
        <3> QED BY <1>3, <3>1, <3>2
    <2> QED BY <1>1, <2>1, FlatWords DEF Flat!Reads
<1>7. \A a \in Window \ Flat!Covered(q) : c[a] = Load8(m, a)
    BY <1>3, <1>5
<1> QED BY <1>4, <1>6, <1>7

-----------------------------------------------------------------------------
(* The map holds bytes of the window only, and a request has one answer    *)
(* (Memory's fields and methods in memory.rs).                             *)
THEOREM MemoryTypeCorrect == Spec => []TypeOK
<1>1. Init => TypeOK
    <2> SUFFICES ASSUME Init PROVE TypeOK
        OBVIOUS
    <2>1. IsSparseMap(bytes)
        BY DEF Init, NoBytes, IsSparseMap
    <2> QED BY <2>1 DEF Init, NoReply, TypeOK
<1>2. TypeOK /\ [Next]_vars => TypeOK'
    <2> SUFFICES ASSUME TypeOK, [Next]_vars PROVE TypeOK'
        OBVIOUS
    <2>1. ASSUME NEW q \in Requests, Load(q) PROVE TypeOK'
        <3>1. LoadRaw(bytes, q.addr, q.width) \in Int
            BY RequestTypes, LoadRawType, ModulusPositive DEF TypeOK, Unsigned
        <3> QED BY <2>1, <3>1 DEF Load, TypeOK
    <2>2. ASSUME NEW q \in Requests, Store(q) PROVE TypeOK'
        <3>1. /\ q.addr \in Int /\ q.width \in Widths /\ q.data \in Int
              /\ Fault(q.addr, q.width) = {}
            BY <2>2, RequestTypes DEF Store
        <3>2. IsSparseMap(bytes')
            BY <2>2, <3>1, StoreRawType DEF Store, TypeOK
        <3>3. PreviousValue(bytes, q.addr, q.width) \in Int
            BY <3>1, PreviousValueType DEF TypeOK, Signed
        <3> QED BY <2>2, <3>2, <3>3 DEF Store, TypeOK
    <2>3. ASSUME NEW q \in Requests, Refuse(q) PROVE TypeOK'
        <3>1. \E why \in MemFaults : Fault(q.addr, q.width) = {why}
            BY <2>3, FaultsAreTrue DEF Refuse
        <3> QED BY <2>3, <3>1 DEF Refuse, TypeOK
    <2>4. CASE UNCHANGED vars
        BY <2>4 DEF vars, TypeOK
    <2> QED BY <2>1, <2>2, <2>3, <2>4 DEF Next
<1> QED BY <1>1, <1>2, PTL DEF Spec

LEMMA LoadImplements ==
    ASSUME IsSparseMap(bytes), NEW q \in Requests, Load(q)
    PROVE  Flat!Next
<1> DEFINE v == LoadRaw(bytes, q.addr, q.width)
<1>1. /\ q.kind = "Load" /\ Fault(q.addr, q.width) = {} /\ bytes' = bytes
      /\ reply' = [request |-> {q}, value |-> {v}, error |-> {}]
    BY DEF Load
<1>2. Flat!Legal(q) /\ q.addr \in Int /\ q.width \in Widths
    <2>1. Flat!Legal(q)
        BY <1>1, FaultsAreTrue
    <2> QED BY <2>1, RequestTypes
<1>3. IsWordAt(v, bytes, q.addr, q.width)
    BY <1>2, LoadRawReads
<1> HIDE DEF v
<1>4. Flat!Reads(v, q, Cells)
    BY <1>2, <1>3, LoadsReadCells DEF Cells
<1>5. Flat!Load(q, v)
    BY <1>1, <1>2, <1>4 DEF Flat!Load, Flat!Succeed, Cells
<1> QED BY <1>1, <1>5 DEF Flat!Next

LEMMA StoreImplements ==
    ASSUME IsSparseMap(bytes), NEW q \in Requests, Store(q)
    PROVE  Flat!Next
<1> DEFINE raw == LoadRaw(bytes, q.addr, q.width)
           old == AsSigned(raw, q.width)
<1>1. /\ q.kind = "Store" /\ Fault(q.addr, q.width) = {}
      /\ bytes' = StoreRaw(bytes, q.addr, q.width, q.data)
      /\ reply' = [request |-> {q}, value |-> {old}, error |-> {}]
    BY DEF Store, PreviousValue
<1>2. Flat!Legal(q) /\ q.addr \in Int /\ q.width \in Widths
    <2>1. Flat!Legal(q)
        BY <1>1, FaultsAreTrue
    <2> QED BY <2>1, RequestTypes
<1>3. IsWordAt(raw, bytes, q.addr, q.width)
    BY <1>2, LoadRawReads
<1>4. old \in Signed(q.width) /\ AsUnsigned(old, q.width) = raw
    <2>1. raw \in Unsigned(q.width) /\ raw \in Int
        BY <1>2, <1>3, ModulusPositive DEF IsWordAt, Unsigned
    <2> HIDE DEF raw
    <2> QED BY <1>2, <2>1, AsSignedType, UnsignedOfSigned
<1> HIDE DEF raw, old
<1>5. Flat!Reads(raw, q, Cells)
    BY <1>2, <1>3, LoadsReadCells DEF Cells
<1>6. /\ Cells' \in [Window -> Unsigned(1)]
      /\ Flat!Reads(q.data, q, Cells')
      /\ \A a \in Window \ Flat!Covered(q) : Cells'[a] = Cells[a]
    <2>1. Cells' = [a \in Window |-> Load8(StoreRaw(bytes, q.addr, q.width, q.data), a)]
        BY <1>1 DEF Cells
    <2>2. \A a \in Window : Cells[a] = Load8(bytes, a)
        BY DEF Cells
    <2> QED BY <1>1, <2>1, <2>2, StoresWriteCells
<1>7. Flat!Store(q, old)
    BY <1>1, <1>2, <1>4, <1>5, <1>6, FlatWords DEF Flat!Store, Flat!Succeed, Cells
<1> QED BY <1>1, <1>7 DEF Flat!Next

LEMMA RefuseImplements ==
    ASSUME NEW q \in Requests, Refuse(q)
    PROVE  Flat!Next
<1>1. PICK why \in MemFaults :
         /\ Fault(q.addr, q.width) = {why}
         /\ CASE why = "MisalignedMemory" -> ~Flat!Aligned(q)
              [] why = "InvalidMemAddr" -> ~(Flat!Covered(q) \subseteq Window)
    BY FaultsAreTrue DEF Refuse
<1>2. Flat!Refuse(q, why)
    BY <1>1 DEF Refuse, Flat!Refuse
<1>3. reply'.request = {q}
    BY DEF Refuse
<1> QED BY <1>2, <1>3 DEF Flat!Next, MemFaults

(* memory.rs implements the byte array: whatever a client asks, in any     *)
(* order, it gets the answers of FlatMemory.                               *)
THEOREM MemoryIsFlat == Spec => ImplementsFlatMemory
<1>1. Init => Flat!Init
    BY DEF Init, NoReply, NoBytes, Load8, Flat!Init, Flat!NoReply
<1>2. TypeOK /\ [Next]_vars => [Flat!Next]_<<Cells, reply>>
    <2> SUFFICES ASSUME TypeOK, [Next]_vars PROVE [Flat!Next]_<<Cells, reply>>
        OBVIOUS
    <2>1. CASE UNCHANGED vars
        BY <2>1 DEF vars, Cells
    <2>2. CASE Next
        BY <2>2, LoadImplements, StoreImplements, RefuseImplements DEF Next, TypeOK
    <2> QED BY <2>1, <2>2
<1> QED BY <1>1, <1>2, MemoryTypeCorrect, PTL
        DEF Spec, ImplementsFlatMemory, Flat!Spec, Cells
=============================================================================
