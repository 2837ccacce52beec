------------------------------- MODULE Words -------------------------------
(***************************************************************************)
(* The fixed-width integers of the emulator: what Rust's `as u8` ... `as   *)
(* i64` casts do to a value (executor.rs, execute_l and execute_s).        *)
(*                                                                         *)
(* The number of bits in a byte is a parameter, 8 in the program, so that  *)
(* TLC can check every value of a small machine.  A width w is a number of *)
(* bytes: 1, 2, 4 or 8, as in the program, whatever ByteBits is.           *)
(* Pow2 is the table of the powers of two; a table, because the provers    *)
(* know nothing of 2^n for a variable n.                                   *)
(***************************************************************************)
EXTENDS Integers

CONSTANTS
    ByteBits,   \* bits in a byte
    Pow2        \* Pow2[n] is 2^n, for n in 0 .. 8 * ByteBits

RegBits == 8 * ByteBits

ASSUME WordsAssumption ==
    /\ ByteBits \in Nat \ {0}
    /\ Pow2 \in [0 .. RegBits -> Nat \ {0}]
    /\ Pow2[0] = 1
    /\ Pow2[1] = 2
    /\ \A m, n \in 0 .. RegBits :
          m + n <= RegBits => Pow2[m + n] = Pow2[m] * Pow2[n]

Widths == {1, 2, 4, 8}

\* The number of values of a w-byte integer.
Modulus(w) == Pow2[ByteBits * w]

\* u8, u16, u32, u64 and i8, i16, i32, i64.
Unsigned(w) == 0 .. Modulus(w) - 1
Signed(w)   == {x \in Int : -Modulus(w) <= 2 * x /\ 2 * x < Modulus(w)}

U64  == Unsigned(8)
I64  == Signed(8)
I32  == Signed(4)

\* At most one value of S: an Option, or the result of what may fail.
Option(S) == {o \in SUBSET S : \A x, y \in o : x = y}

\* `x as uN`: the low-order bits of x.
AsUnsigned(x, w) == x % Modulus(w)

\* `x as iN as i64`: the low-order bits of x, sign-extended.
AsSigned(x, w) ==
    LET u == AsUnsigned(x, w)
    IN  IF 2 * u < Modulus(w) THEN u ELSE u - Modulus(w)

\* Byte k of x, counting from the least significant one.
ByteOf(x, k) == (x \div Pow2[ByteBits * k]) % Modulus(1)
=============================================================================
