------------------------------ MODULE MCMemory ------------------------------
(***************************************************************************)
(* Memory.tla on a small machine: one bit in a byte, a window of a few     *)
(* double words, and every request of every width around the window and at *)
(* the end of the address space.                                           *)
(***************************************************************************)
EXTENDS Memory

CONSTANTS
    LoadsAt,    \* the addresses that loads name
    StoresAt,   \* the addresses that stores name
    Patterns    \* the numbers they store, cut to the width of the store

MCPow2 == [n \in 0 .. 8 * ByteBits |-> 2 ^ n]

MCRequests ==
    {[kind |-> "Load", addr |-> a, width |-> w] : a \in LoadsAt, w \in Widths}
    \cup
    UNION {{[kind |-> "Store", addr |-> a, width |-> w, data |-> AsUnsigned(p, w)]
              : a \in StoresAt, p \in Patterns} : w \in Widths}
=============================================================================
