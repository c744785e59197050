# TLA+ models of the transaction codec and the ability-field verifier

This directory holds TLA+ models of the two source files of the repository:

- `src/sui-rust-sdk/src/types/transaction/serialization.rs`: the serde
  codecs of the transaction types. Every type has a binary shape (BCS) and a
  human-readable shape (JSON), selected by `is_human_readable()`.
- `src/sui/external-crates/move/crates/move-bytecode-verifier/src/ability_field_requirements.rs`:
  the verifier pass that checks each field of each struct and enum variant
  against the abilities of its datatype.

Everything is checked with TLC. The runs, their properties and the mutants
that show each property can fail are listed in `PROJECT.json`.

## 1. The system

### Codec (serialization.rs)

Each type keeps private mirror types. `*Ref` enums are used to serialize and
owned enums to deserialize. In binary mode a value is written as a mirror
enum: the ULEB128 discriminant of its variant, then its fields in
declaration order. Variant order therefore *is* the wire format, and it is
written twice (Ref and owned).

| Entity | Binary shape (code lines) |
|---|---|
| `Argument` | `BinaryArgument` 689-695: GasCoin, Input(u16), Result(u16), NestedResult(u16,u16) |
| `InputArgument` | re-nested as `CallArg::{Pure(bytes), Object(ObjectArg::{ImmutableOrOwned, Shared{id, u64, bool}, Receiving})}` 550-565, 592-611, 640-658 |
| `Command` | `BinaryCommandRef` / `BinaryCommand` 790-810 |
| `EndOfEpochTransactionKind` | 385-405, seven variants, `BridgeCommitteeInit` holds a raw u64 |
| `TransactionKind` | 212-233, eight variants, `EndOfEpoch(Vec<EndOfEpochTransactionKind>)` |
| `Transaction` | `BinaryTransactionData::V1(kind, sender, gas_payment, expiration)` 57-81 |
| `SignedTransaction` | `(transaction, signatures)` 897-907 |
| signing envelope | `SignedTransactionWithIntentMessage`: a sequence of declared length 1 holding `((0u8,0u8,0u8, transaction), signatures)`. On the way in, the intent is checked after the tuple is decoded (1014-1032), and the visitor rejects any size_hint other than 1 (1105-1125). |

In human-readable mode each type is written as a `Readable*` enum tagged
internally (`#[serde(tag = "...")]`, snake_case or renamed variants). The
tag entry comes first, then the variant's fields; a newtype payload struct
is merged into the same object. `ReadableTransaction` flattens its kind
into the transaction object (line 39), and `ReadableSignedTransaction`
flattens the transaction into the signed object (885). Two u64 fields are
decimal strings via `ReadableDisplay` (initial_shared_version 543,
bridge_object_version 363), pure bytes are Base64 (537), and Argument indices
are JSON numbers. `SignedTransactionWithIntentMessage` drops the intent and
wrapper in this mode (1062). The Ref and owned declarations again carry the
tag keys and spellings twice.

The types defined elsewhere are opaque to this file: addresses, object
references, gas payment, expiration, signatures, and the payload structs of
commands and kinds. The model treats them the same way.

### Ability verifier

`verify_module_impl` (lines 18-81) works in two phases:

1. It loops over the struct definitions and skips native ones.
2. It loops over the enum definitions, their variants and their fields.

For each field it calls `module.abilities` with every type parameter taken
as having all abilities. That call can fail (`?`). It then checks that the
abilities required by the datatype are a subset of the field's abilities.
The required abilities are `Ability::requires` folded over the datatype's
abilities; note that key requires store. The first field that fails ends the
call with `FIELD_MISSING_TYPE_ABILITY` at 0-based struct, or enum/variant/field,
indices.

## 2. Modules

| Module | Models | State / actions |
|---|---|---|
| `Bcs` | the bcs primitives the binary codecs call (spec 4.1; the crate is not in the repository, so these definitions are spec_modelled) | Decoders are operators from bytes to `Ok(v, rest)` or `Fail(e)`. A u64 is four u16 limbs. A u32 at or above 2^31 comes back as `U32High`, which every caller rejects, as bcs rejects it against `MAX_SEQUENCE_LENGTH`. ULEB128 rejects non-minimal and overflowing encodings. |
| `TxCodec` | every binary Serialize/Deserialize branch of serialization.rs | One encoder and one decoder per entity. The Ref and owned variant orders are separate definitions, as in the code. Opaque external types are a member of `Payload`, written as one byte. |
| `WireRoundTrip` | how the codec is used: a producer serializes, the bytes may be altered in transit, and a consumer calls `bcs::from_bytes` for the entity it expects | Variables: `sent`, `wire`, `edits` (history), `received`. Actions: `Produce`, `Alter` (overwrite, delete or append a byte, at most `MaxAlter` times), `Consume`. The codec is a constant operator parameter. |
| `SerdeJson` | serde's JSON data model as the readable codecs use it (spec_modelled: serde and serde_json are not in the repository) | Documents are records: object (entries in order), array, number, bool, string, variant name, opaque. Internally tagged enums (`ScanTag`: missing or repeated tag fails), derived structs without `deny_unknown_fields` (`ScanFields`: unknown keys skipped or kept for flatten, missing or repeated field fails), strict Base64, `ReadableDisplay`. Two serde behaviours outside the named-field format are included: a tag read from serde's Content buffer (`buffered`: the flattened kind, the end-of-epoch kinds, a signed transaction's version) may be the variant's index (`VariantOf`), and an internally tagged enum may be a JSON array, tag first, fields by position (`DecodeTagged`, `DecodeStruct`, `DecodeUnit`). |
| `Decimal` | u64 `Display` and `FromStr` on four u16 limbs (spec_modelled, std) | `DisplayU64` by repeated division by 10; `ParseU64` accepts one optional '+' and at least one digit, and fails on overflow through a limb-wise multiply-add. |
| `TextCodec` | every `is_human_readable` branch of serialization.rs | One document encoder and decoder per entity, from the Readable*Ref (encode) and Readable* (decode) declarations, each with its own tag key and variant list; the two flatten levels pass their unread entries down. |
| `TextRoundTrip` | a service writes a document, a person or another implementation may change it, and a client reads it | Variables `sent`, `doc`, `edits`, `received`. Actions `Produce`, `Edit` (a character of a decimal string set, inserted or deleted; an entry dropped, repeated or an unknown one added; a number incremented or decremented; a tag replaced by a number from `TagIndices`; an object replaced by the array of its values; at most `MaxEdits`), `Consume`. |
| `MCTextRoundTrip` | value sets of every entity for the text harness | `IndexTagMeansWireVariant`, which compares text indices with the binary declarations of `TxCodec`. |
| `MCCrossFormat` | `WireRoundTrip` whose consumer reads the bytes, republishes the value as a document, reads that back and re-serializes it (spec 8) | Entities: InputArgument, Transaction and the signing envelope `SignedTransactionWithIntentMessage`, whose text form has neither intent nor wrapper. |
| `MCBase64` | the Base64 text of `InputArgument::Pure` (line 537) against RFC 4648 | Variables `bytes`, `text`, `edits`, `result`. Actions `Write` (encode a byte string), `Alter` (a sextet overwritten, removed or appended, at most `MaxEdits`), `Read` (decode). `Base64Ref` is the RFC definition on the bit string; the unit test's `"AQIDBA=="` for `vec![1, 2, 3, 4]` is an `ASSUME` of it. |
| `TxValues` | bounded value sets of transactions | input enumeration only |
| `MCPtbEntities`, `MCTransaction`, `MCIntentEnvelope` | instances of `WireRoundTrip` for one group of entities each | |
| `MoveModule` | the part of a `CompiledModule` the pass reads; `Ability::requires`; the abilities of a field signature; the result values | |
| `AbilityFieldRequirements` | `verify_module_impl`, one loop iteration per step | Variables: `module`, `pc` (structs / enums / done), cursors `di`, `vi`, `fi`, and `result`. There is one action per outcome of an iteration: field ok, field missing an ability, abilities error, next struct (including the native `continue`), next variant, next enum, and end. |
| `AbilityCheck` | the abstract specification: one step sets `result` to the reference verdict `Verdict(m)` | `Verdict(m)` is the lexicographically first offending field position, found over the set of all positions. |
| `MCAbilityFieldRequirements` | bounded modules; the refinement `INSTANCE AbilityCheck WITH result <- IF pc = "done" THEN result ELSE Pending` | |

## 3. Runs

| Run | Checks | Shows |
|---|---|---|
| `ptb_entities` | `TypeOK`, `RoundTrip`, `Canonical` | Argument, InputArgument and Command round-trip. After up to 2 byte alterations, every accepted byte string is exactly the encoding of the decoded value. |
| `transaction` | `RoundTrip`, `Canonical` | The same for Transaction (every kind, end-of-epoch lists up to 2) and SignedTransaction, with 1 alteration. |
| `intent_envelope` | `RoundTrip`, `Canonical`, plus `IntentRejected` and `EnvelopeLengthEnforced` | A non-zero scope, version or app_id byte gives the invalid-intent error. A declared length of 0 or 2..127 gives the envelope error. |
| `text_entities` | `TypeOK`, `TextRoundTrip`, `FieldEditsDetected` | Every entity's document reads back as the value written. After up to 3 entry or number edits, a document is accepted exactly when, unknown entries aside, it is the one written, at every flatten level; u16 numbers leaving 0..65535 are rejected. |
| `text_decimal` | `DecimalExact` | After up to 2 character edits of the decimal strings at 0 and 2^64-1, a document is accepted exactly when every string is u64 text by an independent reference (optional '+', leading zeros, no '-', no overflow), and the value writes back as the canonical text. |
| `text_tag_index` | `IndexTagMeansWireVariant` | Where the code accepts a numeric tag (up to 2 tags replaced by 0..8), the number means the variant with that discriminant in the binary format; a reorder of an owned Readable declaration that keeps every name breaks this while every name round trip still passes. |
| `text_tag_names` (expect violation) | `TagNamesOnly` | Spec 4.2 wants an unknown discriminant rejected; the code accepts `{"version": "1", "kind": 0, ...}` as a ProgrammableTransaction. |
| `text_seq_form` (expect violation) | `NamedFieldsOnly` | Spec 6 describes named-field objects; the code accepts `["gas_coin"]` as `Argument::GasCoin`. |
| `cross_format` | `Canonical` | binary → value → text → value → binary is the identity on every byte string the binary decoder accepts, after up to 2 byte alterations: the readable codec loses nothing the signature covers. This is the `transaction_fixtures` test applied to every byte string a bounded alteration reaches, rather than to six fixtures. Signed envelopes (0, 1 or 2 signatures) come back with intent and wrapper restored. |
| `base64` | `Base64MatchesReference`, `Base64Strict` | Pure bytes of length 0..4 over {1, 128, 255} encode to the RFC 4648 padded text; after up to 2 sextet alterations ({0, 1, 16, 63} and padding) the reader accepts only a text that is the encoding of the bytes it returns, so no Pure value has two texts. |
| `ability_check` | `TypeOK`, `ImplementsAbilityCheck` | The loop refines the one-step verdict: the same decision, the same error position and indices, and it terminates. |

Notes on the properties:

- `Canonical` is the property that matters for signing. It is stronger than
  round-trip, because it catches a decoder that accepts several spellings of
  one value, such as a padded ULEB128 or an unknown version read as V1.
- Every property has a mutant in `PROJECT.json`: a plausible bug in a mapped
  definition that TLC reports as a violation.

Bounds and why they are enough:

- **u16 values** are {0, 1, 65535} and **u64 values** are {1, 2^64-1}. These
  expose truncation and byte order.
- **Payload** is {0,1} or {0,1,2}. Sender, gas and expiration use distinct
  codes, so that reading fields in the wrong order is visible.
- **Altered bytes** are {0,1,2,127,128,255}, plus 3, 4 and 7 for the PTB
  entities (the first out-of-range ObjectArg, Argument and Command
  discriminants). These cover the ULEB128 continuation bit, the boolean
  range and the variant-count boundaries.
- **Modules** come in two families. Family 1 has up to 2 one-field structs
  and an enum with one variant of one field, which reaches the struct index,
  the native skip and the order of the two loops. Family 2 has no struct and
  one enum with up to 2 variants of up to 2 fields, which reaches the variant
  and field indices.
- **Text edits** write the characters {'+', '-', '/', '0', '1', '9', ':'}:
  '/' and ':' are the neighbours of the digit range, '+' and '-' the signs.
  Two edits reach an overflowing 21-digit string, a signed zero and a
  non-digit in any position; three entry edits reach dup-then-drop at two
  flatten levels. Pure bytes have every length modulo 3 (Base64 padding).
- **Tag indices** 0..8 reach every variant of the eight-variant kind enum,
  the seven end-of-epoch kinds and the one version, and one past each end.
  The tag-index values include neighbours (ProgrammableTransaction,
  ChangeEpoch, Genesis; unit and newtype end-of-epoch kinds). An index
  that names a variant with another payload struct is rejected, as the
  code rejects it for the missing fields; an index read against a
  reordered declaration is accepted with the fields it names and then
  compared with the wire discriminant.
- **Base64**: bytes 1, 128 and 255 set the first, last and all bits of a
  byte; lengths 0..4 give every remainder modulo 3 and a second group.
  After a one- or two-byte group, sextets 1 and 63 leave unused bits set
  and 0 and 16 leave them clear, so both zero-bit checks are reached.
- **Signature kinds** are a type parameter, datatypes with and without
  store, and a malformed one. **Ability sets** are {}, {key} and {copy, drop}.

**Fairness.** `AbilityFieldRequirements` has `WF_vars(Next)`.
`verify_module` is an ordinary synchronous call, so once it runs it keeps
going. The codec harnesses assert no liveness: encoding and decoding are pure functions.

**Deadlock.** `ability_check` has `CHECK_DEADLOCK FALSE`, because the call
returns and the loop stops at `pc = "done"`. The codec and text runs check deadlock.

## 4. Not modelled

1. **serde_json's error texts.** The model keeps only which error class
   fails.
2. **Payload structs of newtype variants** (MoveCall, ChangeEpoch,
   ObjectReference, ...). They are defined outside this file. Each is one
   required opaque field keyed by the struct's name (`PayloadStruct`), read
   by name or by position as a derived struct is. Variants that carry the
   same struct share a shape; different structs never accept each other's
   fields. A struct whose fields are a superset of another's (for example,
   if ConsensusCommitPrologueV2 extends ConsensusCommitPrologue) would in
   the code be readable as the smaller one, since unknown fields are
   ignored. The model does not represent that.
3. **schemars impls.** These describe schemas only and have no behaviour.
4. **The `Location::Module` wrapping of `verify_module` (line 15).** It only
   attaches the module id to the error.
5. **`module.abilities`.** This belongs to another crate; it is abstracted to
   the abilities of a field signature, or a failure.
6. **The literal JSON of the `argument` and `input_argument` tests.** The
   model spells names abstractly, so their texts cannot be compared; their
   round-trip half is `TextRoundTrip`, and the one literal the model can
   spell, the Base64 `"AQIDBA=="`, is assumed in `MCBase64`. `transaction_fixtures` is modelled by
   `MCCrossFormat`.

## 5. Findings

Both are runs expected to end in a violation (see `PROJECT.json`
"findings"). They concern serde behaviour the code inherits: documents
outside the specified textual format are accepted.

- `text_tag_names`: the flattened kind, the end-of-epoch kinds and a signed
  transaction's version accept the variant's index in place of its name, so
  the owned declaration order is part of the text format. TLC's trace is
  a ProgrammableTransaction document whose `"kind"` is replaced by `0` and
  that is still read as that ProgrammableTransaction. `text_tag_index`
  shows the index at least agrees with the binary discriminant.
- `text_seq_form`: Argument, InputArgument, Command and the end-of-epoch
  kinds are also read from JSON arrays.
