---------------------------- MODULE TextRoundTrip -----------------------------
(***************************************************************************)
(* How the human-readable codec is used: a service (e.g. a query API)      *)
(* serializes a value of some entity type as a document, the document      *)
(* crosses a boundary where a person or another implementation may change  *)
(* it, and a client deserializes it as the entity type it expects.         *)
(*                                                                         *)
(* Three kinds of change are explored.  A character of a decimal-string    *)
(* u64 field (ReadableDisplay) is overwritten, inserted or deleted.  An    *)
(* entry of an object is dropped, repeated, or an unknown entry is added.  *)
(* A number (a u16 index of Argument) is incremented or decremented.  A   *)
(* variant tag is replaced by a number (serde's variant index form).  An   *)
(* object is replaced by the array of its values (serde's sequence form).  *)
(* The codec is a parameter, as in WireRoundTrip.                          *)
(***************************************************************************)
EXTENDS SerdeJson

CONSTANTS
  Values,            \* pairs <<entity, value>> the service may serialize
  ValueType,         \* pairs <<entity, value>> of any value of the entity types
  Encode(_, _),      \* Encode(entity, value) : document
  Decode(_, _),      \* Decode(entity, document) : Ok(value, <<>>) or Fail(e)
  DecimalKeys,       \* keys of the fields written with ReadableDisplay
  Chars,             \* characters a decimal-string edit may write
  UnknownKey,        \* a key no Readable type declares
  TagIndices,        \* numbers a tag may be replaced by
  EditOps,           \* the kinds of edit explored, a subset of AllOps
  MaxEdits           \* bound on the edits of one document

ASSUME MaxEdits \in Nat

VARIABLES
  sent,      \* [entity, value] last serialized
  doc,       \* the document as it reaches the client
  edits,     \* history: the changes applied to doc since it was sent
  received   \* Pending, or the client's decode result

vars == <<sent, doc, edits, received>>

Pending == [ok |-> FALSE, err |-> "Pending"]

(***************************************************************************)
(* Positions in a document: a path is the sequence of entry (object) or    *)
(* element (array) indices leading to a node.                              *)
(***************************************************************************)
Children(d) ==
  CASE d.j = "obj" -> [i \in DOMAIN d.o |-> d.o[i][2]]
    [] d.j = "arr" -> d.a
    [] OTHER       -> <<>>

RECURSIVE Paths(_)
Paths(d) ==
  {<<>>} \cup UNION {{<<i>> \o p : p \in Paths(Children(d)[i])} : i \in DOMAIN Children(d)}

RECURSIVE At(_, _)
At(d, p) == IF p = <<>> THEN d ELSE At(Children(d)[Head(p)], Tail(p))

RECURSIVE Put(_, _, _)
Put(d, p, x) ==
  CASE p = <<>>    -> x
    [] d.j = "obj" -> [d EXCEPT !.o[Head(p)][2] = Put(@, Tail(p), x)]
    [] d.j = "arr" -> [d EXCEPT !.a[Head(p)] = Put(@, Tail(p), x)]

\* Paths of the string values of ReadableDisplay fields.
DecimalPaths(d) ==
  {p \in Paths(d) \ {<<>>} :
     LET parent == At(d, Front(p))
     IN parent.j = "obj" /\ parent.o[Last(p)][1] \in DecimalKeys /\ At(d, p).j = "str"}

ObjectPaths(d) == {p \in Paths(d) : At(d, p).j = "obj"}
NumberPaths(d) == {p \in Paths(d) : At(d, p).j = "num"}
TagPaths(d) == {p \in Paths(d) : At(d, p).j = "name"}

CharOps == {"set", "ins", "del"}
EntryOps == {"drop", "dup", "add"}
NumOps == {"inc", "dec"}
TagOps == {"index"}
SeqOps == {"seq"}
AllOps == CharOps \cup EntryOps \cup NumOps \cup TagOps \cup SeqOps

\* The changes that can be made to document d.
DocEdits(d) ==
  UNION {LET s == At(d, p).s IN
           [op : {"set"}, path : {p}, pos : DOMAIN s, char : Chars]
             \cup [op : {"ins"}, path : {p}, pos : 1..Len(s) + 1, char : Chars]
             \cup [op : {"del"}, path : {p}, pos : DOMAIN s]
         : p \in DecimalPaths(d)}
  \cup UNION {LET es == At(d, p).o IN
                [op : {"drop", "dup"}, path : {p},
                 pos : {i \in DOMAIN es : es[i][1] # UnknownKey}]
                  \cup [op : {"add"}, path : {p}, pos : {Len(es) + 1}]
              : p \in ObjectPaths(d)}
  \cup [op : NumOps, path : NumberPaths(d)]
  \cup [op : TagOps, path : TagPaths(d), num : TagIndices]
  \cup [op : SeqOps, path : ObjectPaths(d)]

ApplyEdit(d, e) ==
  LET n == At(d, e.path)
  IN Put(d, e.path,
       CASE e.op = "set"  -> JStr([n.s EXCEPT ![e.pos] = e.char])
         [] e.op = "ins"  -> JStr(InsertAt(n.s, e.pos, e.char))
         [] e.op = "del"  -> JStr(RemoveAt(n.s, e.pos))
         [] e.op = "drop" -> JObj(RemoveAt(n.o, e.pos))
         [] e.op = "dup"  -> JObj(InsertAt(n.o, e.pos, n.o[e.pos]))
         [] e.op = "add"  -> JObj(Append(n.o, <<UnknownKey, JBool(TRUE)>>))
         [] e.op = "inc"  -> JNum(n.n + 1)
         [] e.op = "dec"  -> JNum(n.n - 1)
         [] e.op = "index" -> JNum(e.num)
         [] e.op = "seq"  -> JArr([i \in DOMAIN n.o |-> n.o[i][2]]))

(***************************************************************************)
(* Actions.                                                                *)
(***************************************************************************)
Init ==
  \E p \in Values :
    /\ sent = [entity |-> p[1], value |-> p[2]]
    /\ doc = Encode(p[1], p[2])
    /\ edits = <<>>
    /\ received = Pending

\* The service serializes the next value once the previous one was decoded.
Produce ==
  /\ received # Pending
  /\ \E p \in Values :
       /\ sent' = [entity |-> p[1], value |-> p[2]]
       /\ doc' = Encode(p[1], p[2])
       /\ edits' = <<>>
       /\ received' = Pending

\* The document is changed on the way.
Edit ==
  /\ received = Pending
  /\ Len(edits) < MaxEdits
  /\ \E e \in DocEdits(doc) :
       /\ e.op \in EditOps
       /\ ApplyEdit(doc, e) # doc
       /\ doc' = ApplyEdit(doc, e)
       /\ edits' = Append(edits, e)
  /\ UNCHANGED <<sent, received>>

\* The client deserializes the document as the entity type it expects.
Consume ==
  /\ received = Pending
  /\ received' = Decode(sent.entity, doc)
  /\ UNCHANGED <<sent, doc, edits>>

Next == Produce \/ Edit \/ Consume

Spec == Init /\ [][Next]_vars

(***************************************************************************)
(* Reference for the decimal text of a u64, written without the parser:    *)
(* an optional '+', at least one digit, and, leading zeros removed, at     *)
(* most as long as 18446744073709551615 and not above it digit by digit.   *)
(***************************************************************************)
U64MaxText == <<49, 56, 52, 52, 54, 55, 52, 52, 48, 55, 51, 55, 48, 57, 53, 53, 49, 54, 49, 53>>

Unsigned(s) == IF s # <<>> /\ Head(s) = Plus THEN Tail(s) ELSE s

RECURSIVE StripZeros(_)
StripZeros(t) == IF t # <<>> /\ Head(t) = 48 THEN StripZeros(Tail(t)) ELSE t

NotAboveMax(t) ==
  \/ Len(t) < Len(U64MaxText)
  \/ /\ Len(t) = Len(U64MaxText)
     /\ \/ t = U64MaxText
        \/ \E i \in DOMAIN t : t[i] < U64MaxText[i] /\ \A k \in 1..(i - 1) : t[k] = U64MaxText[k]

IsU64Text(s) ==
  LET t == Unsigned(s)
  IN t # <<>> /\ (\A i \in DOMAIN t : IsDigit(t[i])) /\ NotAboveMax(StripZeros(t))

CanonicalText(s) ==
  IF StripZeros(Unsigned(s)) = <<>> THEN <<48>> ELSE StripZeros(Unsigned(s))

(***************************************************************************)
(* Properties.                                                             *)
(***************************************************************************)
Decoded == received # Pending
OnlyEdits(ops) == \A i \in DOMAIN edits : edits[i].op \in ops

\* Every decoded value is a value of the entity type the client asked for,
\* with its u16 and u64 fields in range, and nothing of the document left.
TypeOK ==
  /\ <<sent.entity, sent.value>> \in Values
  /\ doc.j \in {"obj", "arr"}
  /\ Len(edits) <= MaxEdits
  /\ \A i \in DOMAIN edits : edits[i].op \in AllOps
  /\ received.ok => received.rest = <<>> /\ <<sent.entity, received.val>> \in ValueType

\* Text round trip (spec 8): a document that arrives as the Serialize impl
\* wrote it (tags, flattened kind and transaction, decimal and Base64
\* fields) decodes to exactly the value that was serialized.
TextRoundTrip ==
  Decoded /\ edits = <<>> => received = Ok(sent.value, <<>>)

\* ReadableDisplay u64 fields (initial_shared_version, bridge_object_version):
\* after edits to their decimal strings the client accepts the document
\* exactly when every such string is the decimal text of a u64 by the
\* reference above (a '+' and leading zeros allowed, '-', a lone sign,
\* non-digits and values past 2^64 - 1 rejected), and then each value it
\* decoded serializes back to the canonical text of the string it read.
DecimalExact ==
  Decoded /\ edits # <<>> /\ OnlyEdits(CharOps) =>
    /\ received.ok <=> \A p \in DecimalPaths(doc) : IsU64Text(At(doc, p).s)
    /\ received.ok =>
         LET back == Encode(sent.entity, received.val)
         IN \A p \in DecimalPaths(doc) : At(back, p) = JStr(CanonicalText(At(doc, p).s))

\* The document without the entries of UnknownKey, at every depth.
RECURSIVE WithoutUnknown(_)
WithoutUnknown(d) ==
  CASE d.j = "obj" ->
         JObj([i \in 1..Len(SelectSeq(d.o, LAMBDA e : e[1] # UnknownKey)) |->
                 LET e == SelectSeq(d.o, LAMBDA x : x[1] # UnknownKey)[i]
                 IN <<e[1], WithoutUnknown(e[2])>>])
    [] d.j = "arr" -> JArr([i \in DOMAIN d.a |-> WithoutUnknown(d.a[i])])
    [] OTHER -> d

\* Strict fields across flatten: after entries were dropped, repeated or
\* added, the client accepts the document exactly when, unknown entries
\* aside, it is the document the service wrote (so a missing or repeated
\* tag, struct or variant field, merged payload field, or sender or
\* signatures of a flattened transaction is always rejected), and then
\* decodes the value that was sent.
FieldEditsDetected ==
  Decoded /\ edits # <<>> /\ OnlyEdits(EntryOps) =>
    /\ received.ok <=> WithoutUnknown(doc) = Encode(sent.entity, sent.value)
    /\ received.ok => received.val = sent.value

\* Spec 4.2: a discriminant that is not the name of a known variant fails
\* decode.  After variant tags were replaced by numbers, the client never
\* accepts the document (serde's Content-buffered identifier path, which
\* reads the flattened kind, the end-of-epoch kinds and a flattened
\* transaction's version, takes an index as well).
TagNamesOnly ==
  Decoded /\ edits # <<>> /\ OnlyEdits(TagOps) => ~received.ok

\* Spec 6: the textual format is a nested named-field structure.  After
\* objects were replaced by the arrays of their values, the client never
\* accepts the document (serde's TaggedContentVisitor also visits a
\* sequence whose first element is the tag, and derived structs read a
\* sequence by position).
NamedFieldsOnly ==
  Decoded /\ edits # <<>> /\ OnlyEdits(SeqOps) => ~received.ok
=============================================================================
