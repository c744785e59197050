---------------------------- MODULE MCPtbEntities -----------------------------
(***************************************************************************)
(* Binary round trip of the programmable-transaction entities: Argument,   *)
(* InputArgument (through CallArg/ObjectArg) and Command.                  *)
(***************************************************************************)
EXTENDS TxCodec, WireRoundTrip

\* u16 indices: both ends of the range and a byte-order witness.
U16Vals == {0, 1, 65535}
U64Vals == {U64Of(1), U64Max}

ArgumentValues ==
  {[tag |-> "GasCoin"]}
    \cup [tag : {"Input"}, input : U16Vals]
    \cup [tag : {"Result"}, result : U16Vals]
    \cup [tag : {"NestedResult"}, result : U16Vals, subresult : U16Vals]

InputArgumentValues ==
  [tag : {"Pure"}, value : {<<>>, <<5>>}]
    \cup [tag : {"ImmutableOrOwned", "Receiving"}, object_ref : Payload]
    \cup [tag : {"Shared"}, object_id : Payload,
          initial_shared_version : U64Vals, mutable : BOOLEAN]

\* The variants of Command, as matched by its Serialize impl.
CommandValues ==
  [tag : {"MoveCall", "TransferObjects", "SplitCoins", "MergeCoins", "Publish",
          "MakeMoveVector", "Upgrade"},
   payload : Payload]

MCValues ==
  ({"Argument"} \X ArgumentValues)
    \cup ({"InputArgument"} \X InputArgumentValues)
    \cup ({"Command"} \X CommandValues)

SerializeEntity(e, v) ==
  CASE e = "Argument"      -> EncodeArgument(v)
    [] e = "InputArgument" -> EncodeInputArgument(v)
    [] e = "Command"       -> EncodeCommand(v)

DeserializeEntity(e, b) ==
  CASE e = "Argument"      -> FromBytes(DecodeArgument(b))
    [] e = "InputArgument" -> FromBytes(DecodeInputArgument(b))
    [] e = "Command"       -> FromBytes(DecodeCommand(b))
=============================================================================
