-------------------------------- MODULE Bcs ----------------------------------
(***************************************************************************)
(* Canonical binary primitives (BCS) that every binary-mode entity codec   *)
(* of serialization.rs is built on.  The bcs crate itself is not part of   *)
(* this repository; these definitions follow spec section 4.1 (fixed-width *)
(* little-endian integers, ULEB128 lengths and discriminants that must be  *)
(* minimal, one-byte booleans, no trailing input at the top level).        *)
(*                                                                         *)
(* A decoder is an operator from a byte sequence to a result record:       *)
(*   Ok(v, rest)  the value v was read and rest is the unread input,       *)
(*   Fail(e)      decoding stopped with error e; no partial value.         *)
(* u64 values are kept as four little-endian u16 limbs so that 2^64-1 is   *)
(* representable with TLC's 32-bit integers.                               *)
(***************************************************************************)
EXTENDS Integers, Sequences, SequencesExt

Byte == 0..255
U16 == 0..65535
U64 == [1..4 -> U16]
U64Max == [i \in 1..4 |-> 65535]
U64Of(n) == <<n % 65536, n \div 65536, 0, 0>>   \* n < 2^31

Ok(v, rest) == [ok |-> TRUE, val |-> v, rest |-> rest]
Fail(e) == [ok |-> FALSE, err |-> e]

\* Sequencing of decoders: run F on the value and the remaining input of r.
Bind(r, F(_, _)) == IF r.ok THEN F(r.val, r.rest) ELSE r
\* Apply a constructor to the value of a successful result.
Lift(r, F(_)) == IF r.ok THEN Ok(F(r.val), r.rest) ELSE r

(***************************************************************************)
(* Encoders.                                                               *)
(***************************************************************************)
EncodeU8(n) == <<n>>
\* Fault model: the low byte is not masked to 8 bits.
EncodeU16Unmasked(n) == <<n, n \div 256>>
EncodeU64Unmasked(limbs) ==
  [i \in 1..8 |-> IF i % 2 = 1 THEN limbs[(i + 1) \div 2]
                               ELSE limbs[i \div 2] \div 256]
EncodeU16(n) == <<n % 256, n \div 256>>
EncodeU64(limbs) ==
  [i \in 1..8 |-> IF i % 2 = 1 THEN limbs[(i + 1) \div 2] % 256
                               ELSE limbs[i \div 2] \div 256]
EncodeBool(b) == IF b THEN <<1>> ELSE <<0>>

RECURSIVE Uleb128(_)
Uleb128(n) == IF n < 128 THEN <<n>> ELSE <<128 + (n % 128)>> \o Uleb128(n \div 128)

\* A byte vector (serde_with::Bytes or Vec<u8>): length prefix, raw bytes.
EncodeBytes(s) == Uleb128(Len(s)) \o s
\* The discriminant of variant `tag` of an enum declared as `variants`.
IndexIn(variants, tag) == CHOOSE i \in 1..Len(variants) : variants[i] = tag
EncodeVariant(variants, tag) == Uleb128(IndexIn(variants, tag) - 1)
\* A sequence of already-encoded elements: length prefix, then elements.
EncodeSeq(encoded) == Uleb128(Len(encoded)) \o FlattenSeq(encoded)

(***************************************************************************)
(* Decoders.                                                               *)
(***************************************************************************)
DecodeU8(b) == IF b = <<>> THEN Fail("Eof") ELSE Ok(Head(b), Tail(b))

DecodeU16(b) ==
  IF Len(b) < 2 THEN Fail("Eof")
  ELSE Ok(b[1] + 256 * b[2], SubSeq(b, 3, Len(b)))

DecodeU64(b) ==
  IF Len(b) < 8 THEN Fail("Eof")
  ELSE Ok([i \in 1..4 |-> b[2 * i - 1] + 256 * b[2 * i]], SubSeq(b, 9, Len(b)))

DecodeBool(b) ==
  CASE b = <<>>       -> Fail("Eof")
    [] Head(b) = 0    -> Ok(FALSE, Tail(b))
    [] Head(b) = 1    -> Ok(TRUE, Tail(b))
    [] OTHER          -> Fail("ExpectedBoolean")

\* A u32 in [2^31, 2^32) does not fit TLC integers; it is reported as the
\* sentinel U32High, which every caller rejects (length above MAX_SEQUENCE_LENGTH,
\* variant index out of range).
U32High == -1

\* ULEB128 decoding of a u32: at most five base-128 digits, the last digit
\* of a multi-digit encoding must be non-zero, the value must fit in u32.
RECURSIVE Uleb128Digits(_, _, _)
Uleb128Digits(b, acc, k) ==
  IF b = <<>> THEN Fail("Eof")
  ELSE LET byte  == Head(b)
           digit == byte % 128
       IN CASE byte >= 128 /\ k = 4  -> Fail("IntegerOverflowDuringUleb128")
            [] byte >= 128           -> Uleb128Digits(Tail(b), acc + digit * 128^k, k + 1)
            [] k > 0 /\ digit = 0    -> Fail("NonCanonicalUleb128Encoding")
            [] k = 4 /\ digit > 15   -> Fail("IntegerOverflowDuringUleb128")
            [] k = 4 /\ digit > 7    -> Ok(U32High, Tail(b))
            [] OTHER                 -> Ok(acc + digit * 128^k, Tail(b))

DecodeUleb128(b) == Uleb128Digits(b, 0, 0)

\* Sequence and byte-vector lengths: MAX_SEQUENCE_LENGTH = 2^31 - 1.
DecodeLength(b) ==
  Bind(DecodeUleb128(b), LAMBDA n, r :
         IF n = U32High THEN Fail("ExceededMaxLen") ELSE Ok(n, r))

DecodeBytes(b) ==
  Bind(DecodeLength(b), LAMBDA n, r :
         IF Len(r) < n THEN Fail("Eof") ELSE Ok(SubSeq(r, 1, n), SubSeq(r, n + 1, Len(r))))

\* Enum discriminant: the value is the variant's name.
DecodeVariant(variants, b) ==
  Bind(DecodeUleb128(b), LAMBDA i, r :
         IF i = U32High \/ i >= Len(variants) THEN Fail("UnknownVariant")
         ELSE Ok(variants[i + 1], r))

\* bcs::from_bytes: a complete value and no remaining input.
FromBytes(r) ==
  CASE ~r.ok          -> r
    [] r.rest # <<>>  -> Fail("RemainingInput")
    [] OTHER          -> [ok |-> TRUE, val |-> r.val]
=============================================================================
