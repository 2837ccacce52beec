----------------------------- MODULE MemoryOps -----------------------------
(***************************************************************************)
(* The emulated stack memory of memory.rs as operators on its one field,   *)
(* the sparse map `bytes` from addresses to bytes.  Memory.tla makes a     *)
(* state machine of them, and Executor.tla uses them for its loads and     *)
(* stores.                                                                 *)
(***************************************************************************)
EXTENDS Words

CONSTANTS StackBase, StackSize

StackTop == StackBase + StackSize

ASSUME MemoryAssumption ==
    /\ StackBase \in Nat
    /\ StackSize \in Nat
    /\ 8 <= StackTop
    /\ 2 * StackTop <= Modulus(8)

InitialStackPointer == StackTop - 8

Window    == StackBase .. StackTop - 1
MemFaults == {"MisalignedMemory", "InvalidMemAddr"}

\* The states of the sparse map: only bytes that were stored are present.
IsSparseMap(m) ==
    /\ DOMAIN m \subseteq Window
    /\ m \in [DOMAIN m -> Unsigned(1)]

NoBytes == [a \in {} |-> 0]

\* The bytes that an access of width w at addr covers.
Span(addr, w) == addr .. addr + w - 1

(***************************************************************************)
(* validate_alignment, then validate_address: the error of an access, if   *)
(* it has one.  An access whose last address is not a u64 fails before its *)
(* range is looked at, with the same error.                                *)
(***************************************************************************)
Misaligned(addr, w)    == addr % w # 0
\* Faulty variant: the end of the window is taken to be an address of it.
OutsideWindowEndIncluded(addr, w) ==
    \/ addr + w - 1 >= Modulus(8)
    \/ addr < StackBase
    \/ addr + w - 1 > StackTop

OutsideWindow(addr, w) ==
    \/ addr + w - 1 >= Modulus(8)
    \/ addr < StackBase
    \/ addr + w - 1 >= StackTop

\* Faulty variant: the range is validated before the alignment.
FaultRangeFirst(addr, w) ==
    IF OutsideWindow(addr, w)   THEN {"InvalidMemAddr"}
    ELSE IF Misaligned(addr, w) THEN {"MisalignedMemory"}
    ELSE {}

Fault(addr, w) ==
    IF Misaligned(addr, w)         THEN {"MisalignedMemory"}
    ELSE IF OutsideWindow(addr, w) THEN {"InvalidMemAddr"}
    ELSE {}

(***************************************************************************)
(* Loads: little-endian, and a byte that was never stored reads as zero.   *)
(* The code ORs the shifted bytes of a word in one expression; here each   *)
(* width is put together from two halves.                                  *)
(***************************************************************************)
Load8(m, addr)  == IF addr \in DOMAIN m THEN m[addr] ELSE 0
Load16(m, addr) == Load8(m, addr)  + Load8(m, addr + 1)  * Modulus(1)
Load32(m, addr) == Load16(m, addr) + Load16(m, addr + 2) * Modulus(2)
Load64(m, addr) == Load32(m, addr) + Load32(m, addr + 4) * Modulus(4)

LoadRaw(m, addr, w) ==
    CASE w = 1 -> Load8(m, addr)
      [] w = 2 -> Load16(m, addr)
      [] w = 4 -> Load32(m, addr)
      [] w = 8 -> Load64(m, addr)

(***************************************************************************)
(* Stores: the bytes of the value replace or extend the map; the old       *)
(* contents come back sign-extended.                                       *)
(***************************************************************************)
StoreRaw(m, addr, w, value) ==
    [a \in DOMAIN m \cup Span(addr, w) |->
        IF a \in Span(addr, w) THEN ByteOf(value, a - addr) ELSE m[a]]

\* Faulty variant: a store answers with the raw old contents.
PreviousValueUnsigned(m, addr, w) == LoadRaw(m, addr, w)

PreviousValue(m, addr, w) == AsSigned(LoadRaw(m, addr, w), w)
=============================================================================
