-------------------------------- MODULE U64 --------------------------------
(***************************************************************************)
(* u64 arithmetic of the mask computations: lib.rs (pointer_size,          *)
(* register_size) and Size::mask / MemorySize::mask of the two front ends  *)
(* all compute 2^(8 * bytes) - 1 with wrapping u64 operations. TLC's       *)
(* integers are 32-bit, so a u64 is a function from the bit positions      *)
(* 0..63 to {0, 1}; 2^64 then wraps to 0 exactly as the code's does.       *)
(***************************************************************************)
LOCAL INSTANCE FiniteSetsExt

Bits == 0..63

\* faulty variant: 1u64.wrapping_shl(k), which takes the shift amount mod 64
U64Pow2Shl(k) == [b \in Bits |-> IF b = k % 64 THEN 1 ELSE 0]

\* faulty variant: 2u64.saturating_pow(k), u64::MAX once k reaches 64
U64Pow2Sat(k) == [b \in Bits |-> IF k >= 64 THEN 1 ELSE IF b = k THEN 1 ELSE 0]

\* 2u64.wrapping_pow(k) (and overflowing_pow(k).0): bit k, or 0 once k
\* reaches 64
U64Pow2(k) == [b \in Bits |-> IF b = k THEN 1 ELSE 0]

\* v.wrapping_sub(1) (and overflowing_add_signed(-1).0): borrow from the
\* lowest set bit; 0 wraps to u64::MAX
U64Dec(v) ==
  LET ones == {b \in Bits : v[b] = 1} IN
  IF ones = {} THEN [b \in Bits |-> 1]
  ELSE [b \in Bits |-> IF b < Min(ones) THEN 1 ELSE IF b = Min(ones) THEN 0 ELSE v[b]]

\* the mask with the n low bits set: the reference the computed masks are
\* checked against
Ones(n) == [b \in Bits |-> IF b < n THEN 1 ELSE 0]

\* no mask argument
NoMask == [b \in {} |-> 0]
=============================================================================
