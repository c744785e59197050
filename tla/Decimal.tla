------------------------------- MODULE Decimal --------------------------------
(***************************************************************************)
(* u64 as decimal text: what ReadableDisplay does to initial_shared_version *)
(* and bridge_object_version in human-readable mode (u64's Display on the  *)
(* way out, u64's FromStr on the way in).  Both are outside this           *)
(* repository and follow spec section 4.2 and Rust's from_str_radix:       *)
(* an optional leading '+', then one or more ASCII digits, leading zeros   *)
(* allowed, values of 2^64 or more rejected.                               *)
(*                                                                         *)
(* Text is a sequence of ASCII codes.  A u64 is four little-endian u16     *)
(* limbs (as in Bcs), so all arithmetic stays within TLC's integers.       *)
(***************************************************************************)
EXTENDS Bcs

Plus == 43
Minus == 45
IsDigit(c) == c \in 48..57

Zero == [i \in 1..4 |-> 0]

\* Division of a u64 by 10, most significant limb first: [q, r].
RECURSIVE DivLimbs(_, _, _, _)
DivLimbs(limbs, i, r, q) ==
  IF i = 0 THEN [q |-> q, r |-> r]
  ELSE LET cur == r * 65536 + limbs[i]
       IN DivLimbs(limbs, i - 1, cur % 10, [q EXCEPT ![i] = cur \div 10])

RECURSIVE DigitsOf(_)
DigitsOf(limbs) ==
  IF limbs = Zero THEN <<>>
  ELSE LET d == DivLimbs(limbs, 4, 0, Zero)
       IN DigitsOf(d.q) \o <<48 + d.r>>

\* u64's Display: the shortest decimal spelling.
DisplayU64(limbs) == IF limbs = Zero THEN <<48>> ELSE DigitsOf(limbs)

\* limbs * 10 + d, least significant limb first; the final carry is the
\* overflow out of 64 bits.
RECURSIVE MulAddLimbs(_, _, _, _)
MulAddLimbs(limbs, i, carry, out) ==
  IF i = 5 THEN [val |-> out, overflow |-> carry > 0]
  ELSE LET cur == limbs[i] * 10 + carry
       IN MulAddLimbs(limbs, i + 1, cur \div 65536, [out EXCEPT ![i] = cur % 65536])

\* The digit loop of from_str_radix: every character a digit, and
\* acc * 10 + digit must not overflow.
RECURSIVE ParseDigits(_, _)
ParseDigits(s, acc) ==
  IF s = <<>> THEN Ok(acc, <<>>)
  ELSE IF ~IsDigit(Head(s)) THEN Fail("InvalidDigit")
  ELSE LET m == MulAddLimbs(acc, 1, Head(s) - 48, Zero)
       IN IF m.overflow THEN Fail("PosOverflow") ELSE ParseDigits(Tail(s), m.val)

\* u64's FromStr: empty input, a lone sign, a '-' (u64 is unsigned, so the
\* '-' is read as a digit) or a non-digit are errors; '+' is skipped.
ParseU64(s) ==
  CASE s = <<>>                 -> Fail("Empty")
    [] s \in {<<Plus>>, <<Minus>>} -> Fail("InvalidDigit")
    [] Head(s) = Plus           -> ParseDigits(Tail(s), Zero)
    [] OTHER                    -> ParseDigits(s, Zero)
=============================================================================
