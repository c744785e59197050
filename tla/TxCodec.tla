------------------------------ MODULE TxCodec --------------------------------
(***************************************************************************)
(* Binary-mode (non human-readable) codec of serialization.rs: for every   *)
(* entity the Serialize impl maps the domain value to a private Binary*    *)
(* enum or struct whose derived BCS layout is the wire format, and the     *)
(* Deserialize impl maps it back.  Values are records whose `tag` is the   *)
(* Rust variant name.                                                      *)
(*                                                                         *)
(* Types defined outside this file (ObjectReference, ObjectId, Address,    *)
(* GasPayment, TransactionExpiration, UserSignature, CheckpointDigest and  *)
(* the payload structs of commands and transaction kinds) are opaque: a    *)
(* member of Payload, written as one byte, rejected on decode when the     *)
(* byte is not a member.                                                   *)
(***************************************************************************)
EXTENDS Bcs

CONSTANT Payload     \* codes of opaque payload values, a subset of Byte

ASSUME Payload \subseteq Byte

EncodeOpaque(p) == <<p>>
DecodeOpaque(b) ==
  CASE b = <<>>           -> Fail("Eof")
    [] Head(b) \in Payload -> Ok(Head(b), Tail(b))
    [] OTHER              -> Fail("InvalidPayload")

(***************************************************************************)
(* Argument <-> BinaryArgument.                                            *)
(***************************************************************************)
BinaryArgument == <<"GasCoin", "Input", "Result", "NestedResult">>

EncodeArgument(a) ==
  EncodeVariant(BinaryArgument, a.tag) \o
  CASE a.tag = "GasCoin"      -> <<>>
    [] a.tag = "Input"        -> EncodeU16(a.input)
    [] a.tag = "Result"       -> EncodeU16(a.result)
    [] a.tag = "NestedResult" -> EncodeU16(a.result) \o EncodeU16(a.subresult)

DecodeArgument(b) ==
  Bind(DecodeVariant(BinaryArgument, b), LAMBDA tag, r :
    CASE tag = "GasCoin" -> Ok([tag |-> "GasCoin"], r)
      [] tag = "Input"   -> Lift(DecodeU16(r), LAMBDA i : [tag |-> "Input", input |-> i])
      [] tag = "Result"  -> Lift(DecodeU16(r), LAMBDA i : [tag |-> "Result", result |-> i])
      [] tag = "NestedResult" ->
           Bind(DecodeU16(r), LAMBDA i, r2 :
             Lift(DecodeU16(r2), LAMBDA j :
               [tag |-> "NestedResult", result |-> i, subresult |-> j])))

(***************************************************************************)
(* InputArgument <-> CallArg / ObjectArg: the one entity whose binary      *)
(* shape is not parallel to the domain type.  ToCallArg is the table of    *)
(* the Serialize impl, FromCallArg the table of the Deserialize impl.      *)
(***************************************************************************)
CallArg == <<"Pure", "Object">>
ObjectArg == <<"ImmutableOrOwned", "Shared", "Receiving">>

ToCallArg ==
  [Pure             |-> <<"Pure">>,
   ImmutableOrOwned |-> <<"Object", "ImmutableOrOwned">>,
   Shared           |-> <<"Object", "Shared">>,
   Receiving        |-> <<"Object", "Receiving">>]

\* Fault model: the Deserialize table maps ObjectArg::Receiving back to
\* ImmutableOrOwned (a copied match arm).
FromCallArgReceivingAsOwned(path) ==
  CASE path = <<"Pure">>                       -> "Pure"
    [] path = <<"Object", "ImmutableOrOwned">> -> "ImmutableOrOwned"
    [] path = <<"Object", "Shared">>           -> "Shared"
    [] path = <<"Object", "Receiving">>        -> "ImmutableOrOwned"

FromCallArg(path) ==
  CASE path = <<"Pure">>                       -> "Pure"
    [] path = <<"Object", "ImmutableOrOwned">> -> "ImmutableOrOwned"
    [] path = <<"Object", "Shared">>           -> "Shared"
    [] path = <<"Object", "Receiving">>        -> "Receiving"

EncodeInputArgument(x) ==
  LET path == ToCallArg[x.tag]
  IN EncodeVariant(CallArg, path[1]) \o
     IF path[1] = "Pure" THEN EncodeBytes(x.value)
     ELSE EncodeVariant(ObjectArg, path[2]) \o
          IF path[2] = "Shared"
          THEN EncodeOpaque(x.object_id) \o EncodeU64(x.initial_shared_version)
                 \o EncodeBool(x.mutable)
          ELSE EncodeOpaque(x.object_ref)

\* Fields of the wire variant at `path`, then the domain value of FromCallArg.
DecodeCallArgFields(path, b) ==
  LET tag == FromCallArg(path)
  IN CASE path = <<"Pure">> ->
            Lift(DecodeBytes(b), LAMBDA v : [tag |-> tag, value |-> v])
       [] path = <<"Object", "Shared">> ->
            Bind(DecodeOpaque(b), LAMBDA id, r1 :
              Bind(DecodeU64(r1), LAMBDA isv, r2 :
                Lift(DecodeBool(r2), LAMBDA m :
                  [tag |-> tag, object_id |-> id,
                   initial_shared_version |-> isv, mutable |-> m])))
       [] OTHER ->
            Lift(DecodeOpaque(b), LAMBDA o : [tag |-> tag, object_ref |-> o])

DecodeInputArgument(b) ==
  Bind(DecodeVariant(CallArg, b), LAMBDA outer, r :
    IF outer = "Pure" THEN DecodeCallArgFields(<<"Pure">>, r)
    ELSE Bind(DecodeVariant(ObjectArg, r), LAMBDA inner, r2 :
           DecodeCallArgFields(<<"Object", inner>>, r2)))

(***************************************************************************)
(* Command <-> BinaryCommand: seven single-payload variants.               *)
(***************************************************************************)
BinaryCommandRef ==
  <<"MoveCall", "TransferObjects", "SplitCoins", "MergeCoins", "Publish",
    "MakeMoveVector", "Upgrade">>
\* Fault model: the deserializer's enum keeps a trailing legacy variant
\* that is also read as Upgrade.
BinaryCommandLegacyUpgrade ==
  <<"MoveCall", "TransferObjects", "SplitCoins", "MergeCoins", "Publish",
    "MakeMoveVector", "Upgrade", "Upgrade">>
BinaryCommand ==
  <<"MoveCall", "TransferObjects", "SplitCoins", "MergeCoins", "Publish",
    "MakeMoveVector", "Upgrade">>

EncodeCommand(c) == EncodeVariant(BinaryCommandRef, c.tag) \o EncodeOpaque(c.payload)

DecodeCommand(b) ==
  Bind(DecodeVariant(BinaryCommand, b), LAMBDA tag, r :
    Lift(DecodeOpaque(r), LAMBDA p : [tag |-> tag, payload |-> p]))

(***************************************************************************)
(* EndOfEpochTransactionKind <-> BinaryEndOfEpochTransactionKind.  The    *)
(* serializer's Ref enum and the deserializer's enum are two declarations  *)
(* whose variant orders must agree.                                        *)
(***************************************************************************)
BinaryEndOfEpochTransactionKindRef ==
  <<"ChangeEpoch", "AuthenticatorStateCreate", "AuthenticatorStateExpire",
    "RandomnessStateCreate", "DenyListStateCreate", "BridgeStateCreate",
    "BridgeCommitteeInit">>
BinaryEndOfEpochTransactionKind ==
  <<"ChangeEpoch", "AuthenticatorStateCreate", "AuthenticatorStateExpire",
    "RandomnessStateCreate", "DenyListStateCreate", "BridgeStateCreate",
    "BridgeCommitteeInit">>

UnitEndOfEpoch ==
  {"AuthenticatorStateCreate", "RandomnessStateCreate", "DenyListStateCreate"}

EncodeEndOfEpochKind(k) ==
  EncodeVariant(BinaryEndOfEpochTransactionKindRef, k.tag) \o
  CASE k.tag \in UnitEndOfEpoch           -> <<>>
    [] k.tag = "BridgeStateCreate"        -> EncodeOpaque(k.chain_id)
    [] k.tag = "BridgeCommitteeInit"      -> EncodeU64(k.bridge_object_version)
    [] OTHER                              -> EncodeOpaque(k.payload)

DecodeEndOfEpochKind(b) ==
  Bind(DecodeVariant(BinaryEndOfEpochTransactionKind, b), LAMBDA tag, r :
    CASE tag \in UnitEndOfEpoch -> Ok([tag |-> tag], r)
      [] tag = "BridgeStateCreate" ->
           Lift(DecodeOpaque(r), LAMBDA c : [tag |-> tag, chain_id |-> c])
      [] tag = "BridgeCommitteeInit" ->
           Lift(DecodeU64(r), LAMBDA v : [tag |-> tag, bridge_object_version |-> v])
      [] OTHER ->
           Lift(DecodeOpaque(r), LAMBDA p : [tag |-> tag, payload |-> p]))

\* Vec<EndOfEpochTransactionKind>: n elements read one after the other.
RECURSIVE DecodeEndOfEpochKinds(_, _, _)
DecodeEndOfEpochKinds(n, b, acc) ==
  IF n = 0 THEN Ok(acc, b)
  ELSE Bind(DecodeEndOfEpochKind(b), LAMBDA k, r :
         DecodeEndOfEpochKinds(n - 1, r, Append(acc, k)))

(***************************************************************************)
(* TransactionKind <-> BinaryTransactionKind.  EndOfEpoch carries its      *)
(* command list positionally; every other variant one opaque payload.      *)
(***************************************************************************)
BinaryTransactionKindRef ==
  <<"ProgrammableTransaction", "ChangeEpoch", "Genesis",
    "ConsensusCommitPrologue", "AuthenticatorStateUpdate", "EndOfEpoch",
    "RandomnessStateUpdate", "ConsensusCommitPrologueV2">>
\* Fault model: a variant added to the Deserialize enum at another position
\* than in the Ref enum.
BinaryTransactionKindReordered ==
  <<"ProgrammableTransaction", "ChangeEpoch", "Genesis",
    "ConsensusCommitPrologue", "AuthenticatorStateUpdate", "EndOfEpoch",
    "ConsensusCommitPrologueV2", "RandomnessStateUpdate">>
BinaryTransactionKind ==
  <<"ProgrammableTransaction", "ChangeEpoch", "Genesis",
    "ConsensusCommitPrologue", "AuthenticatorStateUpdate", "EndOfEpoch",
    "RandomnessStateUpdate", "ConsensusCommitPrologueV2">>

EncodeTransactionKind(k) ==
  EncodeVariant(BinaryTransactionKindRef, k.tag) \o
  IF k.tag = "EndOfEpoch"
  THEN EncodeSeq([i \in 1..Len(k.commands) |-> EncodeEndOfEpochKind(k.commands[i])])
  ELSE EncodeOpaque(k.payload)

DecodeTransactionKind(b) ==
  Bind(DecodeVariant(BinaryTransactionKind, b), LAMBDA tag, r :
    IF tag = "EndOfEpoch"
    THEN Bind(DecodeLength(r), LAMBDA n, r2 :
           Lift(DecodeEndOfEpochKinds(n, r2, <<>>),
                LAMBDA cs : [tag |-> tag, commands |-> cs]))
    ELSE Lift(DecodeOpaque(r), LAMBDA p : [tag |-> tag, payload |-> p]))

(***************************************************************************)
(* Transaction <-> BinaryTransactionData::V1(BinaryTransaction): a version *)
(* discriminant, then kind, sender, gas_payment, expiration by position.   *)
(***************************************************************************)
BinaryTransactionDataRef == <<"V1">>
BinaryTransactionData == <<"V1">>

EncodeTransaction(t) ==
  EncodeVariant(BinaryTransactionDataRef, "V1") \o EncodeTransactionKind(t.kind)
    \o EncodeOpaque(t.sender) \o EncodeOpaque(t.gas_payment)
    \o EncodeOpaque(t.expiration)

\* Fault model: the version tag is skipped instead of matched against V1.
DecodeTransactionAnyVersion(b) ==
  Bind(DecodeUleb128(b), LAMBDA version, r0 :
    Bind(DecodeTransactionKind(r0), LAMBDA kind, r1 :
      Bind(DecodeOpaque(r1), LAMBDA sender, r2 :
        Bind(DecodeOpaque(r2), LAMBDA gas, r3 :
          Lift(DecodeOpaque(r3), LAMBDA exp :
            [kind |-> kind, sender |-> sender, gas_payment |-> gas,
             expiration |-> exp])))))

DecodeTransaction(b) ==
  Bind(DecodeVariant(BinaryTransactionData, b), LAMBDA version, r0 :
    Bind(DecodeTransactionKind(r0), LAMBDA kind, r1 :
      Bind(DecodeOpaque(r1), LAMBDA sender, r2 :
        Bind(DecodeOpaque(r2), LAMBDA gas, r3 :
          Lift(DecodeOpaque(r3), LAMBDA exp :
            [kind |-> kind, sender |-> sender, gas_payment |-> gas,
             expiration |-> exp])))))

(***************************************************************************)
(* SignedTransaction <-> BinarySignedTransaction: transaction, then the    *)
(* signature list.                                                         *)
(***************************************************************************)
RECURSIVE DecodeSignatures(_, _, _)
DecodeSignatures(n, b, acc) ==
  IF n = 0 THEN Ok(acc, b)
  ELSE Bind(DecodeOpaque(b), LAMBDA s, r : DecodeSignatures(n - 1, r, Append(acc, s)))

EncodeSignatures(sigs) == EncodeSeq([i \in 1..Len(sigs) |-> EncodeOpaque(sigs[i])])

DecodeSignatureList(b) ==
  Bind(DecodeLength(b), LAMBDA n, r : DecodeSignatures(n, r, <<>>))

EncodeSignedTransaction(st) ==
  EncodeTransaction(st.transaction) \o EncodeSignatures(st.signatures)

DecodeSignedTransaction(b) ==
  Bind(DecodeTransaction(b), LAMBDA t, r :
    Lift(DecodeSignatureList(r), LAMBDA sigs : [transaction |-> t, signatures |-> sigs]))

(***************************************************************************)
(* Signing envelope.  IntentMessageWrappedTransaction writes the tuple     *)
(* (scope, version, app_id, transaction) = (0, 0, 0, transaction) and on   *)
(* decode reads the whole tuple before it checks the three intent bytes.   *)
(***************************************************************************)
Intent == <<0, 0, 0>>

EncodeIntentMessage(t) ==
  EncodeU8(0) \o EncodeU8(0) \o EncodeU8(0) \o EncodeTransaction(t)

\* Fault models: the intent bytes are read and dropped; only the scope byte
\* is compared.
DecodeIntentMessageUnchecked(b) ==
  Bind(DecodeU8(b), LAMBDA scope, r1 :
    Bind(DecodeU8(r1), LAMBDA version, r2 :
      Bind(DecodeU8(r2), LAMBDA app, r3 : DecodeTransaction(r3))))

DecodeIntentMessageScopeOnly(b) ==
  Bind(DecodeU8(b), LAMBDA scope, r1 :
    Bind(DecodeU8(r1), LAMBDA version, r2 :
      Bind(DecodeU8(r2), LAMBDA app, r3 :
        Bind(DecodeTransaction(r3), LAMBDA t, r4 :
          IF scope = 0 THEN Ok(t, r4) ELSE Fail("InvalidIntentMessage")))))

DecodeIntentMessage(b) ==
  Bind(DecodeU8(b), LAMBDA scope, r1 :
    Bind(DecodeU8(r1), LAMBDA version, r2 :
      Bind(DecodeU8(r2), LAMBDA app, r3 :
        Bind(DecodeTransaction(r3), LAMBDA t, r4 :
          IF <<scope, version, app>> = Intent THEN Ok(t, r4)
          ELSE Fail("InvalidIntentMessage")))))

\* SignedTransactionWithIntentMessage, binary: a sequence declared to have
\* length 1 whose element is the intent-wrapped transaction and signatures.
\* Fault model: the serialize_seq(Some(1)) wrapper is left out.
EncodeSignedTransactionWithIntentUnwrapped(st) ==
  EncodeIntentMessage(st.transaction) \o EncodeSignatures(st.signatures)

EncodeSignedTransactionWithIntent(st) ==
  Uleb128(1) \o EncodeIntentMessage(st.transaction)
    \o EncodeSignatures(st.signatures)

\* The visitor of deserialize_seq: BCS reports the declared length as the
\* size hint; a hint other than 1 is rejected, then one element is read.
\* Fault model: the size hint is not checked; the first element is read if
\* there is one.
VisitFirstElement(len, b) ==
  CASE len = 0 -> Fail("ExpectedSequenceWithLength1")
    [] OTHER   ->
         Bind(DecodeIntentMessage(b), LAMBDA t, r :
           Lift(DecodeSignatureList(r), LAMBDA sigs :
             [transaction |-> t, signatures |-> sigs]))

VisitSingletonSeq(len, b) ==
  CASE len # 1 -> Fail("ExpectedSequenceWithLength1")
    [] OTHER   ->
         Bind(DecodeIntentMessage(b), LAMBDA t, r :
           Lift(DecodeSignatureList(r), LAMBDA sigs :
             [transaction |-> t, signatures |-> sigs]))

DecodeSignedTransactionWithIntent(b) ==
  Bind(DecodeLength(b), LAMBDA len, r : VisitSingletonSeq(len, r))
=============================================================================
