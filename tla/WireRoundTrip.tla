---------------------------- MODULE WireRoundTrip -----------------------------
(***************************************************************************)
(* How the codec is used: a producer (wallet, build tooling) serializes a  *)
(* value of some entity type to bytes, the bytes cross an untrusted        *)
(* boundary (network, storage, another implementation) where any of them   *)
(* may arrive altered, and a consumer (validator, indexer) that expects    *)
(* that entity type deserializes them with bcs::from_bytes.  Every call    *)
(* is synchronous and pure (spec section 5), so one message is in flight   *)
(* at a time.                                                              *)
(*                                                                         *)
(* The codec is a parameter: Serialize(e, v) is the byte image of value v  *)
(* of entity e and Deserialize(e, bytes) the result of decoding it.        *)
(***************************************************************************)
EXTENDS Integers, Sequences

CONSTANTS
  Values,            \* pairs <<entity, value>> a producer may serialize
  Serialize(_, _),   \* Serialize(entity, value) : byte sequence
  Deserialize(_, _), \* Deserialize(entity, bytes) : [ok, val] or [ok, err]
  AlterBytes,        \* byte values an altered position may take
  MaxAlter           \* bound on the alterations of one message

ASSUME MaxAlter \in Nat

VARIABLES
  sent,      \* [entity, value] last serialized by the producer
  wire,      \* the bytes as they reach the consumer
  edits,     \* history: the alterations applied to wire since it was sent
  received   \* Pending, or the consumer's decode result

vars == <<sent, wire, edits, received>>

Pending == [ok |-> FALSE, err |-> "Pending"]

\* One alteration of bytes w: overwrite, delete or append a byte.
Edits(w) ==
  [op : {"set"}, pos : 1..Len(w), byte : AlterBytes]
    \cup [op : {"del"}, pos : 1..Len(w)]
    \cup [op : {"add"}, pos : {Len(w) + 1}, byte : AlterBytes]

Apply(w, e) ==
  CASE e.op = "set" -> [w EXCEPT ![e.pos] = e.byte]
    [] e.op = "del" -> SubSeq(w, 1, e.pos - 1) \o SubSeq(w, e.pos + 1, Len(w))
    [] e.op = "add" -> Append(w, e.byte)

Send(p) ==
  /\ sent' = [entity |-> p[1], value |-> p[2]]
  /\ wire' = Serialize(p[1], p[2])
  /\ edits' = <<>>
  /\ received' = Pending

\* The first message is in flight.
Init ==
  \E p \in Values :
    /\ sent = [entity |-> p[1], value |-> p[2]]
    /\ wire = Serialize(p[1], p[2])
    /\ edits = <<>>
    /\ received = Pending

(***************************************************************************)
(* Actions.                                                                *)
(***************************************************************************)
\* The producer serializes the next value once the previous one was decoded.
Produce ==
  /\ received # Pending
  /\ \E p \in Values : Send(p)

\* The bytes are altered in transit (or were produced by another encoder).
Alter ==
  /\ received = Pending
  /\ Len(edits) < MaxAlter
  /\ \E e \in Edits(wire) :
       /\ Apply(wire, e) # wire
       /\ wire' = Apply(wire, e)
       /\ edits' = Append(edits, e)
  /\ UNCHANGED <<sent, received>>

\* The consumer deserializes the bytes as the entity type it expects.
Consume ==
  /\ received = Pending
  /\ received' = Deserialize(sent.entity, wire)
  /\ UNCHANGED <<sent, wire, edits>>

Next == Produce \/ Alter \/ Consume

Spec == Init /\ [][Next]_vars

(***************************************************************************)
(* Properties.                                                             *)
(***************************************************************************)
Decoded == received # Pending

TypeOK ==
  /\ <<sent.entity, sent.value>> \in Values
  /\ wire \in Seq(0..255)
  /\ Len(edits) <= MaxAlter
  /\ received.ok \in BOOLEAN

\* Round-trip law (spec 8): bytes that arrive as they were serialized
\* decode to exactly the value that was serialized.
RoundTrip ==
  Decoded /\ edits = <<>> => received = [ok |-> TRUE, val |-> sent.value]

\* Binary canonicality (spec 4.1, 8): whatever bytes the consumer accepts,
\* altered or not, are the one encoding of the value it returns, so no two
\* byte strings are accepted as the same value (one signing pre-image per
\* value).
Canonical ==
  Decoded /\ received.ok => Serialize(sent.entity, received.val) = wire
=============================================================================
