------------------------------- MODULE MCBase64 --------------------------------
(***************************************************************************)
(* The Base64 text of InputArgument::Pure's value (serialization.rs 537,   *)
(* crate::_serde::Base64Encoded over base64ct's padded standard alphabet,  *)
(* the same codec the transaction_fixtures test decodes with) checked      *)
(* against the RFC 4648 definition, which is stated on the bit string      *)
(* rather than byte group by byte group.  A writer encodes a byte string,  *)
(* the text may be altered sextet by sextet, and a reader decodes it.     *)
(* Sextets are 0..63, the padding character is Pad.                        *)
(***************************************************************************)
EXTENDS SerdeJson, FiniteSets

CONSTANTS
  ByteSample,   \* bytes a Pure value is built from
  MaxBytes,     \* longest Pure value
  SextetSample, \* sextets (and Pad) an altered position may take
  MaxEdits      \* bound on the alterations of one text

VARIABLES
  bytes,   \* the value the writer encoded
  text,    \* the text as it reaches the reader
  edits,   \* number of alterations since the text was written
  result   \* Pending, or the reader's decode result

vars == <<bytes, text, edits, result>>

Pending == [ok |-> FALSE, err |-> "Pending"]

(***************************************************************************)
(* Reference: RFC 4648 section 4.  The input is a bit string, read six     *)
(* bits at a time after zero bits are appended to a multiple of six; each  *)
(* input group of fewer than three bytes is completed by padding to four   *)
(* characters.                                                             *)
(***************************************************************************)
BitAt(s, k) ==
  IF k > 8 * Len(s) THEN 0
  ELSE (s[(k - 1) \div 8 + 1] \div 2^(7 - ((k - 1) % 8))) % 2

SextetAt(s, k) == FoldLeft(LAMBDA acc, j : 2 * acc + BitAt(s, 6 * (k - 1) + j), 0, <<1, 2, 3, 4, 5, 6>>)

Base64Ref(s) ==
  [k \in 1..((8 * Len(s) + 5) \div 6) |-> SextetAt(s, k)]
    \o [k \in 1..((3 - (Len(s) % 3)) % 3) |-> Pad]

\* The padded-base64 example of the input_argument unit test:
\* vec![1, 2, 3, 4] is "AQIDBA==".
ASSUME Base64Ref(<<1, 2, 3, 4>>) = <<0, 16, 8, 3, 1, 0, Pad, Pad>>

Write ==
  /\ result # Pending
  /\ \E s \in BoundedSeq(ByteSample, MaxBytes) :
       /\ bytes' = s
       /\ text' = Base64(s)
  /\ edits' = 0
  /\ result' = Pending

Init ==
  /\ bytes \in BoundedSeq(ByteSample, MaxBytes)
  /\ text = Base64(bytes)
  /\ edits = 0
  /\ result = Pending

\* A sextet of the text overwritten, removed or appended.
Alter ==
  /\ result = Pending
  /\ edits < MaxEdits
  /\ \E t \in {[text EXCEPT ![i] = c] : i \in DOMAIN text, c \in SextetSample}
                \cup {RemoveAt(text, i) : i \in DOMAIN text}
                \cup {Append(text, c) : c \in SextetSample} :
       /\ t # text
       /\ text' = t
  /\ edits' = edits + 1
  /\ UNCHANGED <<bytes, result>>

Read ==
  /\ result = Pending
  /\ result' = UnBase64(text)
  /\ UNCHANGED <<bytes, text, edits>>

Next == Write \/ Alter \/ Read

Spec == Init /\ [][Next]_vars

(***************************************************************************)
(* Properties.                                                             *)
(***************************************************************************)
\* Base64Encoded::serialize_as writes the RFC 4648 padded text of the
\* bytes: sextet order, bit order within bytes and the number of padding
\* characters for every remainder of the length modulo 3.
Base64MatchesReference == edits = 0 => text = Base64Ref(bytes)

\* Base64Encoded::deserialize_as is the exact inverse: it accepts a text
\* only when it is the padded encoding of the bytes it returns, so an
\* altered text (misplaced padding, a short group, non-zero bits after the
\* last byte) is either refused or is itself the encoding of other bytes,
\* and no two texts name the same Pure value.
Base64Strict ==
  result # Pending /\ result.ok => Base64Ref(result.val) = text
====
