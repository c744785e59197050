------------------------------ MODULE SerdeJson -------------------------------
(***************************************************************************)
(* Human-readable documents and the serde rules that the Readable* types   *)
(* of serialization.rs rely on.  serde, serde_derive, serde_json and       *)
(* base64 are not part of this repository; these definitions follow spec  *)
(* sections 4.2 and 6 and serde's documented behaviour for internally      *)
(* tagged enums, structs and #[serde(flatten)].                            *)
(*                                                                         *)
(* A document is a tagged record:                                          *)
(*   JObj(es)   an object; es a sequence of <<key, value>> entries, in     *)
(*              the order written (keys may repeat in a text)              *)
(*   JArr(vs)   an array          JNum(n)   an integer                     *)
(*   JBool(b)   a boolean         JStr(cs)  a string of ASCII codes        *)
(*   JName(x)   a string that names a variant (x its spelling)             *)
(*   JOpaque(p) the document of a value of a type defined elsewhere        *)
(*              (address, object reference, digest, signature)             *)
(***************************************************************************)
EXTENDS Decimal, TLC

JObj(es) == [j |-> "obj", o |-> es]
JArr(vs) == [j |-> "arr", a |-> vs]
JNum(n) == [j |-> "num", n |-> n]
JBool(b) == [j |-> "bool", b |-> b]
JStr(cs) == [j |-> "str", s |-> cs]
JName(x) == [j |-> "name", x |-> x]
JOpaque(p) == [j |-> "opaque", p |-> p]

\* #[serde(rename_all = "snake_case")]: the variant's snake_case spelling.
SnakeCase(v) == <<"snake_case", v>>
\* #[serde(rename = "...")]: the given spelling.
Renamed(s) == <<"rename", s>>

(***************************************************************************)
(* Scalars.                                                                *)
(***************************************************************************)
\* u16 from a number; any other document, or a number out of range, is an
\* invalid type or value.
\* Fault model: the number taken without the range check of u16.
DecodeU16DocUnchecked(d) ==
  IF d.j = "num" THEN Ok(d.n, <<>>) ELSE Fail("InvalidValue")
DecodeU16Doc(d) ==
  IF d.j = "num" /\ d.n \in 0..65535 THEN Ok(d.n, <<>>) ELSE Fail("InvalidValue")

DecodeBoolDoc(d) == IF d.j = "bool" THEN Ok(d.b, <<>>) ELSE Fail("InvalidType")

\* ReadableDisplay (DisplayFromStr): a string parsed with u64's FromStr.
EncodeDisplayU64(limbs) == JStr(DisplayU64(limbs))
DecodeDisplayU64(d) == IF d.j = "str" THEN ParseU64(d.s) ELSE Fail("InvalidType")

\* Base64Encoded: standard alphabet as sextets 0..63, padding as 64.
Pad == 64
\* Fault model: a one-byte remainder is completed with a single Pad.
RECURSIVE Base64PadOnce(_)
Base64PadOnce(s) ==
  CASE Len(s) = 0 -> <<>>
    [] Len(s) = 1 -> <<s[1] \div 4, (s[1] % 4) * 16, Pad>>
    [] Len(s) = 2 -> <<s[1] \div 4, (s[1] % 4) * 16 + s[2] \div 16, (s[2] % 16) * 4, Pad>>
    [] OTHER      -> <<s[1] \div 4, (s[1] % 4) * 16 + s[2] \div 16,
                       (s[2] % 16) * 4 + s[3] \div 64, s[3] % 64>>
                     \o Base64PadOnce(SubSeq(s, 4, Len(s)))

RECURSIVE Base64(_)
Base64(s) ==
  CASE Len(s) = 0 -> <<>>
    [] Len(s) = 1 -> <<s[1] \div 4, (s[1] % 4) * 16, Pad, Pad>>
    [] Len(s) = 2 -> <<s[1] \div 4, (s[1] % 4) * 16 + s[2] \div 16, (s[2] % 16) * 4, Pad>>
    [] OTHER      -> <<s[1] \div 4, (s[1] % 4) * 16 + s[2] \div 16,
                       (s[2] % 16) * 4 + s[3] \div 64, s[3] % 64>>
                     \o Base64(SubSeq(s, 4, Len(s)))

\* Fault model: the bits after the last byte of a padded group are not
\* required to be zero.
RECURSIVE UnBase64Lax(_)
UnBase64Lax(t) ==
  IF t = <<>> THEN Ok(<<>>, <<>>)
  ELSE IF Len(t) < 4 \/ \E i \in 1..Len(t) : t[i] \notin 0..Pad THEN Fail("InvalidBase64")
  ELSE LET g == SubSeq(t, 1, 4)
           last == Len(t) = 4
       IN CASE \A i \in 1..4 : g[i] < Pad ->
                 Lift(UnBase64Lax(SubSeq(t, 5, Len(t))), LAMBDA r :
                   <<g[1] * 4 + g[2] \div 16, (g[2] % 16) * 16 + g[3] \div 4,
                     (g[3] % 4) * 64 + g[4]>> \o r)
            [] last /\ g[1] < Pad /\ g[2] < Pad /\ g[3] = Pad /\ g[4] = Pad ->
                 Ok(<<g[1] * 4 + g[2] \div 16>>, <<>>)
            [] last /\ g[1] < Pad /\ g[2] < Pad /\ g[3] < Pad /\ g[4] = Pad ->
                 Ok(<<g[1] * 4 + g[2] \div 16, (g[2] % 16) * 16 + g[3] \div 4>>, <<>>)
            [] OTHER -> Fail("InvalidBase64")

\* Strict decoding: whole groups of four, padding only at the end, unused
\* bits zero.
RECURSIVE UnBase64(_)
UnBase64(t) ==
  IF t = <<>> THEN Ok(<<>>, <<>>)
  ELSE IF Len(t) < 4 \/ \E i \in 1..Len(t) : t[i] \notin 0..Pad THEN Fail("InvalidBase64")
  ELSE LET g == SubSeq(t, 1, 4)
           last == Len(t) = 4
       IN CASE \A i \in 1..4 : g[i] < Pad ->
                 Lift(UnBase64(SubSeq(t, 5, Len(t))), LAMBDA r :
                   <<g[1] * 4 + g[2] \div 16, (g[2] % 16) * 16 + g[3] \div 4,
                     (g[3] % 4) * 64 + g[4]>> \o r)
            [] last /\ g[1] < Pad /\ g[2] < Pad /\ g[3] = Pad /\ g[4] = Pad
                    /\ g[2] % 16 = 0 ->
                 Ok(<<g[1] * 4 + g[2] \div 16>>, <<>>)
            [] last /\ g[1] < Pad /\ g[2] < Pad /\ g[3] < Pad /\ g[4] = Pad
                    /\ g[3] % 4 = 0 ->
                 Ok(<<g[1] * 4 + g[2] \div 16, (g[2] % 16) * 16 + g[3] \div 4>>, <<>>)
            [] OTHER -> Fail("InvalidBase64")

DecodeBase64Doc(d) == IF d.j = "str" THEN UnBase64(d.s) ELSE Fail("InvalidType")
(***************************************************************************)
(* Internally tagged enums, #[serde(tag = "...")].  Serializing writes the *)
(* tag entry first, then the variant's fields (a newtype variant's payload *)
(* struct is merged into the same object).  Deserializing reads the whole  *)
(* object: the tag key may appear once, the other entries are kept in      *)
(* order for the variant.  The tag value must be the spelling of one of    *)
(* the deserializer's variants.                                            *)
(***************************************************************************)
TagEntry(key, spelling) == <<key, JName(spelling)>>

\* The spellings of a variant list under rename_all = "snake_case".
SnakeCaseOf(variants) == [i \in DOMAIN variants |-> SnakeCase(variants[i])]

\* The variant of `variants` the tag document names.  Read straight from
\* the input, the derived identifier visitor sees a string: spell[i] names
\* variants[i].  Read from serde's Content buffer (the tag of a value that
\* sits inside a flattened or internally tagged parent), a non-negative
\* integer reaches the visitor's visit_u64 too and names the variant at
\* that index of the deserializer's declaration.
VariantOf(variants, spell, buffered, d) ==
  CASE d.j = "name" /\ \E i \in DOMAIN variants : spell[i] = d.x ->
         Ok(variants[CHOOSE i \in DOMAIN variants : spell[i] = d.x], <<>>)
    [] buffered /\ d.j = "num" /\ d.n + 1 \in DOMAIN variants ->
         Ok(variants[d.n + 1], <<>>)
    [] OTHER -> Fail("UnknownVariant")

RECURSIVE ScanTag(_, _, _, _)
ScanTag(key, es, tag, rest) ==
  IF es = <<>> THEN
    IF tag = <<>> THEN Fail("MissingTag") ELSE Ok(tag[1], rest)
  ELSE IF Head(es)[1] = key THEN
    IF tag # <<>> THEN Fail("DuplicateTag") ELSE ScanTag(key, Tail(es), <<Head(es)[2]>>, rest)
  ELSE ScanTag(key, Tail(es), tag, Append(rest, Head(es)))

\* TaggedContentVisitor: from an object the tag entry is taken out and the
\* other entries are the variant's content; from an array (visit_seq) the
\* first element is the tag and the other elements are the content.
\* Result: Ok(variant, the content as a document).
DecodeTagged(key, variants, spell, buffered, d) ==
  CASE d.j = "obj" ->
         Bind(ScanTag(key, d.o, <<>>, <<>>), LAMBDA t, rest :
           Lift(VariantOf(variants, spell, buffered, t), LAMBDA v : <<v, JObj(rest)>>))
    [] d.j = "arr" /\ d.a # <<>> ->
         Lift(VariantOf(variants, spell, buffered, Head(d.a)), LAMBDA v : <<v, JArr(Tail(d.a))>>)
    [] d.j = "arr" -> Fail("MissingTag")
    [] OTHER -> Fail("InvalidType")

(***************************************************************************)
(* Structs (derived, without deny_unknown_fields).  A known field may      *)
(* appear once; an unknown one is skipped, or, when the struct has a       *)
(* #[serde(flatten)] field, kept in order for it; every known field must   *)
(* be present.  Result: Ok(field -> document, the unknown entries).        *)
(***************************************************************************)
RECURSIVE ScanFields(_, _, _, _)
ScanFields(fields, es, got, rest) ==
  IF es = <<>> THEN
    IF fields \subseteq DOMAIN got THEN Ok(got, rest) ELSE Fail("MissingField")
  ELSE LET k == Head(es)[1]
       IN IF k \in fields THEN
            IF k \in DOMAIN got THEN Fail("DuplicateField")
            ELSE ScanFields(fields, Tail(es), got @@ (k :> Head(es)[2]), rest)
          ELSE ScanFields(fields, Tail(es), got, Append(rest, Head(es)))

DecodeFields(fields, es) == ScanFields(fields, es, <<>>, <<>>)

\* A derived struct, or a struct variant, read from buffered content c:
\* from a map by name (fields in declaration order), or from a sequence
\* by position, one element per field and none left over (visit_seq,
\* then the SeqDeserializer's end check).  Result: Ok(field -> document).
DecodeStruct(fields, c) ==
  CASE c.j = "obj" -> DecodeFields({fields[i] : i \in DOMAIN fields}, c.o)
    [] c.j = "arr" /\ Len(c.a) = Len(fields) ->
         Ok([f \in {fields[i] : i \in DOMAIN fields} |->
               c.a[CHOOSE i \in DOMAIN fields : fields[i] = f]], <<>>)
    [] OTHER -> Fail("InvalidLength")

\* A unit variant read from its content (InternallyTaggedUnitVisitor): a
\* map's entries are all ignored, a sequence must be empty.
DecodeUnit(c) ==
  IF c.j = "obj" \/ c = JArr(<<>>) THEN Ok(<<>>, <<>>) ELSE Fail("InvalidLength")
=============================================================================
