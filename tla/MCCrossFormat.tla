---------------------------- MODULE MCCrossFormat -----------------------------
(***************************************************************************)
(* The metamorphic check of spec section 8 across the two formats: a       *)
(* consumer (an indexer) deserializes bytes with bcs::from_bytes and       *)
(* republishes the value in the human-readable format, where a client      *)
(* deserializes it again.  The bytes may be altered in transit, so the     *)
(* values that go through the text codec are whatever the binary decoder  *)
(* accepts: every u64 a byte alteration reaches as a decimal string, and   *)
(* Pure byte strings of every length as Base64.  The signing envelope is   *)
(* republished the same way: in text, SignedTransactionWithIntentMessage   *)
(* writes neither the intent nor the singleton wrapper, and re-signing    *)
(* tools rebuild both from the text value.                                 *)
(***************************************************************************)
EXTENDS TextCodec, WireRoundTrip

U64Vals == {U64Of(1), U64Max}

MCValues ==
  ({"InputArgument"} \X
     ([tag : {"Pure"}, value : {<<>>, <<5>>, <<1, 2>>}]
        \cup [tag : {"ImmutableOrOwned", "Receiving"}, object_ref : {0}]
        \cup [tag : {"Shared"}, object_id : {0}, initial_shared_version : U64Vals,
              mutable : {TRUE}]))
    \cup ({"Transaction"} \X
           [kind : [tag : {"EndOfEpoch"},
                    commands : {<<[tag |-> "BridgeCommitteeInit", bridge_object_version |-> v]>>
                                : v \in U64Vals}]
                     \cup [tag : {"Genesis"}, payload : {0}],
            sender : {0}, gas_payment : {1}, expiration : {2}])
    \cup ({"SignedTransactionWithIntent"} \X
           [transaction : [kind : {[tag |-> "Genesis", payload |-> 0]},
                           sender : {0}, gas_payment : {1}, expiration : {2}],
            signatures : {<<>>, <<1>>, <<1, 2>>}])

SerializeEntity(e, v) ==
  CASE e = "InputArgument" -> EncodeInputArgument(v)
    [] e = "Transaction"   -> EncodeTransaction(v)
    [] e = "SignedTransactionWithIntent" -> EncodeSignedTransactionWithIntent(v)

\* The value the client ends with: binary decode, text encode, text decode.
ThroughText(e, v) ==
  CASE e = "InputArgument" -> DecodeInputArgumentDoc(EncodeInputArgumentDoc(v))
    [] e = "Transaction"   -> DecodeTransactionDoc(FALSE, EncodeTransactionDoc(v))
    [] e = "SignedTransactionWithIntent" ->
         DecodeSignedTransactionWithIntentDoc(EncodeSignedTransactionWithIntentDoc(v))

DeserializeEntity(e, b) ==
  LET r == CASE e = "InputArgument" -> FromBytes(DecodeInputArgument(b))
             [] e = "Transaction"   -> FromBytes(DecodeTransaction(b))
             [] e = "SignedTransactionWithIntent" ->
                  FromBytes(DecodeSignedTransactionWithIntent(b))
  IN IF ~r.ok THEN r ELSE FromBytes(ThroughText(e, r.val))
=============================================================================
