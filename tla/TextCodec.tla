------------------------------ MODULE TextCodec -------------------------------
(***************************************************************************)
(* Human-readable mode of serialization.rs: for every entity the Serialize *)
(* impl maps the domain value to a private Readable*Ref type and the       *)
(* Deserialize impl maps a Readable* type back.  The Ref and owned types   *)
(* are separate declarations; their tag keys and spellings must agree.     *)
(*                                                                         *)
(* Types defined outside this file are opaque documents JOpaque(p), p a    *)
(* member of Payload.  A payload struct carried by a newtype variant of an *)
(* internally tagged enum (MoveCall, ChangeEpoch, ObjectReference, ...) is *)
(* merged into the variant's object; its fields are abstracted to one      *)
(* required entry keyed by the struct's name, so distinct structs have     *)
(* distinct shapes and variants carrying the same struct (ImmutableOrOwned *)
(* and Receiving: ObjectReference; both ChangeEpoch variants) share one.   *)
(***************************************************************************)
EXTENDS TxCodec, SerdeJson

DecodeOpaqueDoc(d) ==
  IF d.j = "opaque" /\ d.p \in Payload THEN Ok(d.p, <<>>) ELSE Fail("InvalidPayload")

\* The entries of a merged payload struct, and its (derived) deserializer
\* reading the variant's content.
\* The payload struct a newtype variant carries, by the variant's name.
PayloadStruct(tag) ==
  CASE tag \in {"ImmutableOrOwned", "Receiving"} -> "ObjectReference"
    [] tag = "Genesis"                           -> "GenesisTransaction"
    [] OTHER                                     -> tag
PayloadEntries(tag, p) == << <<PayloadStruct(tag), JOpaque(p)>> >>
DecodePayload(tag, c) ==
  Bind(DecodeStruct(<<PayloadStruct(tag)>>, c), LAMBDA f, r :
    DecodeOpaqueDoc(f[PayloadStruct(tag)]))

\* A JSON array of opaque values (Vec<UserSignature>).
RECURSIVE DecodeOpaqueList(_, _)
DecodeOpaqueList(vs, acc) ==
  IF vs = <<>> THEN Ok(acc, <<>>)
  ELSE Bind(DecodeOpaqueDoc(Head(vs)), LAMBDA p, r :
         DecodeOpaqueList(Tail(vs), Append(acc, p)))

(***************************************************************************)
(* Argument <-> ReadableArgument (tag "type", snake_case): GasCoin,        *)
(* Input {input}, Result {result}, NestedResult {result, subresult}.       *)
(***************************************************************************)
ReadableArgumentTag == "type"
ReadableArgument == <<"GasCoin", "Input", "Result", "NestedResult">>

EncodeArgumentDoc(a) ==
  JObj(<<TagEntry(ReadableArgumentTag, SnakeCase(a.tag))>> \o
       CASE a.tag = "GasCoin"      -> <<>>
         [] a.tag = "Input"        -> << <<"input", JNum(a.input)>> >>
         [] a.tag = "Result"       -> << <<"result", JNum(a.result)>> >>
         [] a.tag = "NestedResult" ->
              << <<"result", JNum(a.result)>>, <<"subresult", JNum(a.subresult)>> >>)

DecodeArgumentDoc(d) ==
  Bind(DecodeTagged(ReadableArgumentTag, ReadableArgument, SnakeCaseOf(ReadableArgument), FALSE, d), LAMBDA vr, r0 :
    LET tag == vr[1]
        c == vr[2]
    IN CASE tag = "GasCoin" -> Lift(DecodeUnit(c), LAMBDA u : [tag |-> tag])
         [] tag = "Input" ->
              Bind(DecodeStruct(<<"input">>, c), LAMBDA f, r :
                Lift(DecodeU16Doc(f["input"]), LAMBDA i : [tag |-> tag, input |-> i]))
         [] tag = "Result" ->
              Bind(DecodeStruct(<<"result">>, c), LAMBDA f, r :
                Lift(DecodeU16Doc(f["result"]), LAMBDA i : [tag |-> tag, result |-> i]))
         [] tag = "NestedResult" ->
              Bind(DecodeStruct(<<"result", "subresult">>, c), LAMBDA f, r :
                Bind(DecodeU16Doc(f["result"]), LAMBDA i, r2 :
                  Lift(DecodeU16Doc(f["subresult"]), LAMBDA j :
                    [tag |-> tag, result |-> i, subresult |-> j]))))

(***************************************************************************)
(* InputArgument <-> ReadableInputArgument (tag "type", snake_case), one   *)
(* declaration for both directions: Pure {value: Base64}, ImmutableOrOwned *)
(* (ObjectReference), Shared {object_id, initial_shared_version:           *)
(* ReadableDisplay, mutable}, Receiving(ObjectReference).                  *)
(***************************************************************************)
ReadableInputArgumentTag == "type"
ReadableInputArgument == <<"Pure", "ImmutableOrOwned", "Shared", "Receiving">>

EncodeInputArgumentDoc(x) ==
  JObj(<<TagEntry(ReadableInputArgumentTag, SnakeCase(x.tag))>> \o
       CASE x.tag = "Pure"   -> << <<"value", JStr(Base64(x.value))>> >>
         [] x.tag = "Shared" ->
              << <<"object_id", JOpaque(x.object_id)>>,
                 <<"initial_shared_version", EncodeDisplayU64(x.initial_shared_version)>>,
                 <<"mutable", JBool(x.mutable)>> >>
         [] OTHER            -> PayloadEntries(x.tag, x.object_ref))

\* Fault model: #[serde(default)] on `mutable`, so a missing field reads false.
DecodeSharedDefaultMutable(c) ==
  LET c2 == IF c.j # "obj" \/ \E i \in DOMAIN c.o : c.o[i][1] = "mutable" THEN c
            ELSE JObj(Append(c.o, <<"mutable", JBool(FALSE)>>))
  IN Bind(DecodeStruct(<<"object_id", "initial_shared_version", "mutable">>, c2), LAMBDA f, r :
       Bind(DecodeOpaqueDoc(f["object_id"]), LAMBDA id, r1 :
         Bind(DecodeDisplayU64(f["initial_shared_version"]), LAMBDA isv, r2 :
           Lift(DecodeBoolDoc(f["mutable"]), LAMBDA m :
             [tag |-> "Shared", object_id |-> id,
              initial_shared_version |-> isv, mutable |-> m]))))

DecodeShared(c) ==
  Bind(DecodeStruct(<<"object_id", "initial_shared_version", "mutable">>, c), LAMBDA f, r :
    Bind(DecodeOpaqueDoc(f["object_id"]), LAMBDA id, r1 :
      Bind(DecodeDisplayU64(f["initial_shared_version"]), LAMBDA isv, r2 :
        Lift(DecodeBoolDoc(f["mutable"]), LAMBDA m :
          [tag |-> "Shared", object_id |-> id,
           initial_shared_version |-> isv, mutable |-> m]))))

\* Fault model: the Receiving arm of the readable match copied from the
\* ImmutableOrOwned arm.
ReadableToInputReceivingAsOwned(tag) ==
  IF tag = "Receiving" THEN "ImmutableOrOwned" ELSE tag
ReadableToInput(tag) == tag

DecodeInputArgumentDoc(d) ==
  Bind(DecodeTagged(ReadableInputArgumentTag, ReadableInputArgument, SnakeCaseOf(ReadableInputArgument), FALSE, d),
    LAMBDA vr, r0 :
      LET tag == vr[1]
          c == vr[2]
      IN CASE tag = "Pure" ->
                Bind(DecodeStruct(<<"value">>, c), LAMBDA f, r :
                  Lift(DecodeBase64Doc(f["value"]), LAMBDA v : [tag |-> tag, value |-> v]))
           [] tag = "Shared" -> DecodeShared(c)
           [] OTHER ->
                Lift(DecodePayload(tag, c), LAMBDA o :
                  [tag |-> ReadableToInput(tag), object_ref |-> o]))

(***************************************************************************)
(* Command <-> ReadableCommandRef / ReadableCommand (tag "command",        *)
(* snake_case): seven newtype variants, payload merged.                    *)
(***************************************************************************)
ReadableCommandRefTag == "command"
ReadableCommandRef ==
  <<"MoveCall", "TransferObjects", "SplitCoins", "MergeCoins", "Publish",
    "MakeMoveVector", "Upgrade">>
ReadableCommandTag == "command"
ReadableCommand ==
  <<"MoveCall", "TransferObjects", "SplitCoins", "MergeCoins", "Publish",
    "MakeMoveVector", "Upgrade">>

EncodeCommandDoc(c) ==
  JObj(<<TagEntry(ReadableCommandRefTag, SnakeCase(c.tag))>> \o PayloadEntries(c.tag, c.payload))

DecodeCommandDoc(d) ==
  Bind(DecodeTagged(ReadableCommandTag, ReadableCommand, SnakeCaseOf(ReadableCommand), FALSE, d), LAMBDA vr, r0 :
    Lift(DecodePayload(vr[1], vr[2]), LAMBDA p : [tag |-> vr[1], payload |-> p]))

(***************************************************************************)
(* EndOfEpochTransactionKind <-> ReadableEndOfEpochTransactionKind(Ref)    *)
(* (tag "kind", snake_case): three unit variants, two newtype variants,    *)
(* BridgeStateCreate {chain_id} and BridgeCommitteeInit                    *)
(* {bridge_object_version: ReadableDisplay}.                               *)
(***************************************************************************)
ReadableEndOfEpochTransactionKindRefTag == "kind"
ReadableEndOfEpochTransactionKindRef ==
  <<"ChangeEpoch", "AuthenticatorStateCreate", "AuthenticatorStateExpire",
    "RandomnessStateCreate", "DenyListStateCreate", "BridgeStateCreate",
    "BridgeCommitteeInit">>
ReadableEndOfEpochTransactionKindTag == "kind"
ReadableEndOfEpochTransactionKind ==
  <<"ChangeEpoch", "AuthenticatorStateCreate", "AuthenticatorStateExpire",
    "RandomnessStateCreate", "DenyListStateCreate", "BridgeStateCreate",
    "BridgeCommitteeInit">>

EncodeEndOfEpochKindDoc(k) ==
  JObj(<<TagEntry(ReadableEndOfEpochTransactionKindRefTag, SnakeCase(k.tag))>> \o
       CASE k.tag \in UnitEndOfEpoch    -> <<>>
         [] k.tag = "BridgeStateCreate" -> << <<"chain_id", JOpaque(k.chain_id)>> >>
         [] k.tag = "BridgeCommitteeInit" ->
              << <<"bridge_object_version", EncodeDisplayU64(k.bridge_object_version)>> >>
         [] OTHER                       -> PayloadEntries(k.tag, k.payload))

\* Fault model: the ReadableDisplay attribute missing on the owned
\* declaration, so bridge_object_version is read as a plain number.
DecodeBridgeObjectVersionAsNumber(d) ==
  IF d.j = "num" THEN Ok(d.n, <<>>) ELSE Fail("InvalidType")
DecodeBridgeObjectVersion(d) == DecodeDisplayU64(d)

DecodeEndOfEpochKindDoc(d) ==
  Bind(DecodeTagged(ReadableEndOfEpochTransactionKindTag,
                    ReadableEndOfEpochTransactionKind, SnakeCaseOf(ReadableEndOfEpochTransactionKind), TRUE, d), LAMBDA vr, r0 :
    LET tag == vr[1]
        c == vr[2]
    IN CASE tag \in UnitEndOfEpoch -> Lift(DecodeUnit(c), LAMBDA u : [tag |-> tag])
         [] tag = "BridgeStateCreate" ->
              Bind(DecodeStruct(<<"chain_id">>, c), LAMBDA f, r :
                Lift(DecodeOpaqueDoc(f["chain_id"]), LAMBDA id : [tag |-> tag, chain_id |-> id]))
         [] tag = "BridgeCommitteeInit" ->
              Bind(DecodeStruct(<<"bridge_object_version">>, c), LAMBDA f, r :
                Lift(DecodeBridgeObjectVersion(f["bridge_object_version"]), LAMBDA v :
                  [tag |-> tag, bridge_object_version |-> v]))
         [] OTHER ->
              Lift(DecodePayload(tag, c), LAMBDA p : [tag |-> tag, payload |-> p]))

RECURSIVE DecodeEndOfEpochKindDocs(_, _)
DecodeEndOfEpochKindDocs(vs, acc) ==
  IF vs = <<>> THEN Ok(acc, <<>>)
  ELSE Bind(DecodeEndOfEpochKindDoc(Head(vs)), LAMBDA k, r :
         DecodeEndOfEpochKindDocs(Tail(vs), Append(acc, k)))

(***************************************************************************)
(* TransactionKind <-> ReadableTransactionKind(Ref) (tag "kind",           *)
(* snake_case): EndOfEpoch {commands}, seven newtype variants.  Its        *)
(* entries are what a flattening parent merges into its own object.        *)
(***************************************************************************)
\* Fault model: the Ref declaration's tag attribute drifts from the owned
\* one ("type" instead of "kind").
ReadableTransactionKindRefTagType == "type"
ReadableTransactionKindRefTag == "kind"
ReadableTransactionKindRef ==
  <<"ProgrammableTransaction", "ChangeEpoch", "Genesis",
    "ConsensusCommitPrologue", "AuthenticatorStateUpdate", "EndOfEpoch",
    "RandomnessStateUpdate", "ConsensusCommitPrologueV2">>
ReadableTransactionKindTag == "kind"
\* Fault model: two variants of the owned declaration swapped; names still
\* agree with the Ref declaration, indices no longer with the wire.
ReadableTransactionKindReordered ==
  <<"ProgrammableTransaction", "Genesis", "ChangeEpoch",
    "ConsensusCommitPrologue", "AuthenticatorStateUpdate", "EndOfEpoch",
    "RandomnessStateUpdate", "ConsensusCommitPrologueV2">>
ReadableTransactionKind ==
  <<"ProgrammableTransaction", "ChangeEpoch", "Genesis",
    "ConsensusCommitPrologue", "AuthenticatorStateUpdate", "EndOfEpoch",
    "RandomnessStateUpdate", "ConsensusCommitPrologueV2">>

TransactionKindEntries(k) ==
  <<TagEntry(ReadableTransactionKindRefTag, SnakeCase(k.tag))>> \o
  IF k.tag = "EndOfEpoch"
  THEN << <<"commands", JArr([i \in 1..Len(k.commands) |->
                                EncodeEndOfEpochKindDoc(k.commands[i])])>> >>
  ELSE PayloadEntries(k.tag, k.payload)

DecodeTransactionKindDoc(d) ==
  Bind(DecodeTagged(ReadableTransactionKindTag, ReadableTransactionKind, SnakeCaseOf(ReadableTransactionKind), TRUE, d),
    LAMBDA vr, r0 :
      IF vr[1] = "EndOfEpoch"
      THEN Bind(DecodeStruct(<<"commands">>, vr[2]), LAMBDA f, r :
             IF f["commands"].j # "arr" THEN Fail("InvalidType")
             ELSE Lift(DecodeEndOfEpochKindDocs(f["commands"].a, <<>>), LAMBDA cs :
                    [tag |-> "EndOfEpoch", commands |-> cs]))
      ELSE Lift(DecodePayload(vr[1], vr[2]), LAMBDA p : [tag |-> vr[1], payload |-> p]))

(***************************************************************************)
(* Transaction <-> ReadableTransactionData(Ref)::V1 (tag "version",        *)
(* variant renamed "1") around ReadableTransaction(Ref): #[serde(flatten)] *)
(* kind, then sender, gas_payment, expiration.  The kind's entries are     *)
(* merged into the transaction's object; on the way in the entries that    *)
(* are not a field of the struct are collected and handed to the kind.    *)
(***************************************************************************)
ReadableTransactionDataRefTag == "version"
ReadableTransactionDataRef == <<"V1">>
ReadableTransactionDataTag == "version"
ReadableTransactionData == <<"V1">>
VersionName(v) == Renamed("1")

TransactionEntries(t) ==
  <<TagEntry(ReadableTransactionDataRefTag, VersionName("V1"))>>
    \o TransactionKindEntries(t.kind)
    \o << <<"sender", JOpaque(t.sender)>>, <<"gas_payment", JOpaque(t.gas_payment)>>,
          <<"expiration", JOpaque(t.expiration)>> >>

\* ReadableTransaction: the three named fields, the rest to the flattened
\* kind.  A struct with a flatten field is read as a map only.
DecodeReadableTransaction(c) ==
  IF c.j # "obj" THEN Fail("InvalidType")
  ELSE Bind(DecodeFields({"sender", "gas_payment", "expiration"}, c.o), LAMBDA f, rest :
    Bind(DecodeTransactionKindDoc(JObj(rest)), LAMBDA kind, r1 :
      Bind(DecodeOpaqueDoc(f["sender"]), LAMBDA sender, r2 :
        Bind(DecodeOpaqueDoc(f["gas_payment"]), LAMBDA gas, r3 :
          Lift(DecodeOpaqueDoc(f["expiration"]), LAMBDA exp :
            [kind |-> kind, sender |-> sender, gas_payment |-> gas,
             expiration |-> exp])))))

\* `buffered`: the document is read from serde's Content buffer, as it is
\* when ReadableSignedTransaction flattens the transaction.
DecodeTransactionDoc(buffered, d) ==
  Bind(DecodeTagged(ReadableTransactionDataTag, ReadableTransactionData,
                    [i \in DOMAIN ReadableTransactionData |-> VersionName(ReadableTransactionData[i])],
                    buffered, d),
    LAMBDA vr, r0 : DecodeReadableTransaction(vr[2]))

(***************************************************************************)
(* SignedTransaction <-> ReadableSignedTransaction(Ref): #[serde(flatten)] *)
(* transaction, then signatures.  SignedTransactionWithIntentMessage uses  *)
(* the same two types in this mode: no intent, no singleton sequence.      *)
(***************************************************************************)
SignedTransactionEntries(st) ==
  TransactionEntries(st.transaction)
    \o << <<"signatures", JArr([i \in 1..Len(st.signatures) |-> JOpaque(st.signatures[i])])>> >>

DecodeReadableSignedTransaction(d) ==
  IF d.j # "obj" THEN Fail("InvalidType")
  ELSE Bind(DecodeFields({"signatures"}, d.o), LAMBDA f, rest :
         Bind(DecodeTransactionDoc(TRUE, JObj(rest)), LAMBDA t, r1 :
           IF f["signatures"].j # "arr" THEN Fail("InvalidType")
           ELSE Lift(DecodeOpaqueList(f["signatures"].a, <<>>), LAMBDA sigs :
                  [transaction |-> t, signatures |-> sigs])))

EncodeTransactionDoc(t) == JObj(TransactionEntries(t))
EncodeSignedTransactionDoc(st) == JObj(SignedTransactionEntries(st))
EncodeSignedTransactionWithIntentDoc(st) == JObj(SignedTransactionEntries(st))
DecodeSignedTransactionDoc(d) == DecodeReadableSignedTransaction(d)
DecodeSignedTransactionWithIntentDoc(d) == DecodeReadableSignedTransaction(d)
=============================================================================
