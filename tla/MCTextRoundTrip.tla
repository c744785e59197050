--------------------------- MODULE MCTextRoundTrip ----------------------------
(***************************************************************************)
(* Human-readable round trip of every entity: Argument, InputArgument,     *)
(* Command, Transaction (every kind, end-of-epoch lists), SignedTransaction *)
(* and the SignedTransactionWithIntentMessage adapter.  Two value sets:    *)
(* all entities with short decimal fields (field edits), and the entities  *)
(* with a ReadableDisplay field at 0 and at 2^64 - 1 (decimal edits).      *)
(***************************************************************************)
EXTENDS TextCodec, TextRoundTrip

\* Opaque payloads (object ids, references, kind payloads, signatures).
Opaque == {0}
\* Pure byte strings of every length modulo 3 (Base64 padding 0, 2 or 1).
PureBytes == {<<>>, <<255>>, <<0, 255>>, <<1, 2, 3>>}

ArgumentValues ==
  {[tag |-> "GasCoin"], [tag |-> "Input", input |-> 65535],
   [tag |-> "Result", result |-> 0],
   [tag |-> "NestedResult", result |-> 1, subresult |-> 65535]}

InputArgumentValuesOf(U64s) ==
  [tag : {"Pure"}, value : PureBytes]
    \cup [tag : {"ImmutableOrOwned", "Receiving"}, object_ref : Opaque]
    \cup [tag : {"Shared"}, object_id : Opaque, initial_shared_version : U64s,
          mutable : BOOLEAN]

CommandValues == [tag : {"MoveCall", "Upgrade"}, payload : Opaque]

EndOfEpochKindValuesOf(U64s) ==
  [tag : UnitEndOfEpoch]
    \cup [tag : {"ChangeEpoch", "AuthenticatorStateExpire"}, payload : Opaque]
    \cup [tag : {"BridgeStateCreate"}, chain_id : Opaque]
    \cup [tag : {"BridgeCommitteeInit"}, bridge_object_version : U64s]

TransactionValuesOf(Commands) ==
  [kind : [tag : {"ProgrammableTransaction", "ConsensusCommitPrologueV2"}, payload : Opaque]
            \cup [tag : {"EndOfEpoch"}, commands : Commands],
   sender : Opaque, gas_payment : Opaque, expiration : Opaque]

\* Value sets for the field-edit run: every entity, decimal fields short.
SmallU64 == {U64Of(7)}
EntityValues ==
  ({"Argument"} \X ArgumentValues)
    \cup ({"InputArgument"} \X InputArgumentValuesOf(SmallU64))
    \cup ({"Command"} \X CommandValues)
    \cup ({"Transaction"} \X
           TransactionValuesOf({<<>>} \cup {<<k>> : k \in EndOfEpochKindValuesOf(SmallU64)}))
    \cup ({"SignedTransaction", "SignedTransactionWithIntent"} \X
           [transaction : TransactionValuesOf({<<[tag |-> "RandomnessStateCreate"]>>}),
            signatures : {<<>>, <<0, 0>>}])

\* Value sets for the decimal-edit run: 0 and 2^64 - 1 in both fields.
EdgeU64 == {Zero, U64Max}
DecimalValues ==
  ({"InputArgument"} \X
     [tag : {"Shared"}, object_id : Opaque, initial_shared_version : EdgeU64,
      mutable : {TRUE}])
    \cup ({"SignedTransaction"} \X
           [transaction : TransactionValuesOf(
                            {<<[tag |-> "BridgeCommitteeInit", bridge_object_version |-> v]>>
                             : v \in EdgeU64}),
            signatures : {<<0>>}])

\* Value sets for the tag-index runs: kinds whose neighbours by index have
\* the same shape (newtype payload, unit), in a Transaction and flattened
\* in a SignedTransaction, and one entity of each directly read tag.
TagTransactions ==
  [kind : [tag : {"ProgrammableTransaction", "Genesis"}, payload : Opaque]
            \cup [tag : {"EndOfEpoch"},
                   commands : {<<[tag |-> "RandomnessStateCreate"]>>,
                               <<[tag |-> "ChangeEpoch", payload |-> 0]>>}],
   sender : Opaque, gas_payment : Opaque, expiration : Opaque]
TagValues ==
  ({"Transaction"} \X TagTransactions)
    \cup ({"SignedTransaction"} \X [transaction : TagTransactions, signatures : {<<0>>}])
    \cup {<<"Argument", [tag |-> "GasCoin"]>>, <<"Command", [tag |-> "MoveCall", payload |-> 0]>>,
         <<"InputArgument", [tag |-> "Receiving", object_ref |-> 0]>>}

\* The types of the entities, for TypeOK.
ArgumentType ==
  [tag : {"GasCoin"}] \cup [tag : {"Input"}, input : U16] \cup [tag : {"Result"}, result : U16]
    \cup [tag : {"NestedResult"}, result : U16, subresult : U16]
InputArgumentType ==
  [tag : {"Pure"}, value : Seq(0..255)]
    \cup [tag : {"ImmutableOrOwned", "Receiving"}, object_ref : Payload]
    \cup [tag : {"Shared"}, object_id : Payload, initial_shared_version : U64,
          mutable : BOOLEAN]
EndOfEpochKindType ==
  [tag : UnitEndOfEpoch]
    \cup [tag : {"ChangeEpoch", "AuthenticatorStateExpire"}, payload : Payload]
    \cup [tag : {"BridgeStateCreate"}, chain_id : Payload]
    \cup [tag : {"BridgeCommitteeInit"}, bridge_object_version : U64]
TransactionType ==
  [kind : [tag : Range(ReadableTransactionKind) \ {"EndOfEpoch"}, payload : Payload]
            \cup [tag : {"EndOfEpoch"}, commands : Seq(EndOfEpochKindType)],
   sender : Payload, gas_payment : Payload, expiration : Payload]
MCValueType ==
  ({"Argument"} \X ArgumentType) \cup ({"InputArgument"} \X InputArgumentType)
    \cup ({"Command"} \X [tag : Range(ReadableCommand), payload : Payload])
    \cup ({"Transaction"} \X TransactionType)
    \cup ({"SignedTransaction", "SignedTransactionWithIntent"} \X
           [transaction : TransactionType, signatures : Seq(Payload)])

EncodeEntityDoc(e, v) ==
  CASE e = "Argument"                    -> EncodeArgumentDoc(v)
    [] e = "InputArgument"               -> EncodeInputArgumentDoc(v)
    [] e = "Command"                     -> EncodeCommandDoc(v)
    [] e = "Transaction"                 -> EncodeTransactionDoc(v)
    [] e = "SignedTransaction"           -> EncodeSignedTransactionDoc(v)
    [] e = "SignedTransactionWithIntent" -> EncodeSignedTransactionWithIntentDoc(v)

DecodeEntityDoc(e, d) ==
  CASE e = "Argument"                    -> DecodeArgumentDoc(d)
    [] e = "InputArgument"               -> DecodeInputArgumentDoc(d)
    [] e = "Command"                     -> DecodeCommandDoc(d)
    [] e = "Transaction"                 -> DecodeTransactionDoc(FALSE, d)
    [] e = "SignedTransaction"           -> DecodeSignedTransactionDoc(d)
    [] e = "SignedTransactionWithIntent" -> DecodeSignedTransactionWithIntentDoc(d)

(***************************************************************************)
(* The binary declaration whose discriminants a numeric tag is set against *)
(* (the tag at path p of document d), and the document with every numeric *)
(* tag the edits wrote replaced by the spelling of the variant with that    *)
(* discriminant on the wire.                                               *)
(***************************************************************************)
TagKey(d, p) == At(d, Front(p)).o[Last(p)][1]
WireVariants(d, p) ==
  CASE TagKey(d, p) = "version"                -> BinaryTransactionData
    [] TagKey(d, p) = "kind" /\ Len(p) = 1     -> BinaryTransactionKind
    [] TagKey(d, p) = "kind"                   -> BinaryEndOfEpochTransactionKind
    [] sent.entity = "Argument"                -> BinaryArgument
    [] sent.entity = "Command"                 -> BinaryCommand
    [] OTHER                                   -> <<>>
WireName(d, p, n) ==
  LET vs == WireVariants(d, p)
  IN IF n + 1 \notin DOMAIN vs THEN JNum(n)
     ELSE IF TagKey(d, p) = "version" THEN JName(VersionName(vs[n + 1]))
     ELSE JName(SnakeCase(vs[n + 1]))
RECURSIVE WireNamed(_, _)
WireNamed(d, es) ==
  IF es = <<>> THEN d
  ELSE WireNamed(Put(d, Head(es).path, WireName(d, Head(es).path, Head(es).num)), Tail(es))

\* serde's index form of a tag (read from the Content buffer for the
\* flattened kind, the end-of-epoch kinds and a signed transaction's
\* version) follows the owned Readable* declaration's order.  Wherever the
\* client accepts a document whose tags were replaced by numbers, it reads
\* the value it would read had each number been the name of the variant
\* with that discriminant in the binary format: text indices and wire
\* discriminants never disagree.
IndexTagMeansWireVariant ==
  Decoded /\ edits # <<>> /\ OnlyEdits(TagOps) /\ received.ok =>
    received = DecodeEntityDoc(sent.entity, WireNamed(doc, edits))
=============================================================================
