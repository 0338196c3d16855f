------------------------------ MODULE RingIndex ------------------------------
(***************************************************************************)
(* The u32 indices of an AF_XDP ring.  A ring's four counters (producer,   *)
(* consumer and each side's cached copies) are free-running: they count    *)
(* entries modulo 2^32 and only `idx & mask` selects a slot.  Modulus      *)
(* stands for 2^32 and is small in the model-checked instances, so that    *)
(* the counters really wrap.                                               *)
(***************************************************************************)
EXTENDS Integers

CONSTANTS
  Modulus,   \* number of values of a ring index: 2^32 in the code
  Size       \* number of slots of the ring: a QueueSize, so a power of two

(***************************************************************************)
(* A QueueSize is a non-zero power of two that fits in a u32, hence a      *)
(* proper divisor of 2^32; that is all the ring arithmetic relies on.      *)
(***************************************************************************)
ASSUME RingAssumption ==
  /\ Modulus \in Nat \ {0}
  /\ Size \in Nat \ {0}
  /\ Size < Modulus
  /\ Modulus % Size = 0

Index == 0 .. (Modulus - 1)

SlotId == 0 .. (Size - 1)

\* Wrapping u32 addition and subtraction.
WrapAdd(a, b) == (a + b) % Modulus
WrapSub(a, b) == (a - b) % Modulus

\* `idx & mask`, where mask = size - 1 and size is a power of two.
Slot(idx) == idx % Size

\* The indices of the half-open window [from, from + n).
Window(from, n) == {WrapAdd(from, k) : k \in 0 .. (n - 1)}

=============================================================================
