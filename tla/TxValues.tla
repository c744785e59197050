------------------------------ MODULE TxValues --------------------------------
(***************************************************************************)
(* Bounded sets of transaction values for model checking: every variant of *)
(* TransactionKind and EndOfEpochTransactionKind, end-of-epoch command     *)
(* lists up to MaxCommands long, signature lists up to MaxSignatures long. *)
(* Sender, gas payment and expiration take distinct opaque codes so that a *)
(* decoder that reads the fields in the wrong order is visible.            *)
(***************************************************************************)
EXTENDS TxCodec

CONSTANTS
  KindPayload,     \* opaque payloads of kinds, commands and signatures
  MaxCommands,     \* bound on the EndOfEpoch command list
  MaxSignatures    \* bound on the signature list

ASSUME KindPayload \subseteq Payload /\ {0, 1, 2} \subseteq Payload

\* u64 fields: a small value and 2^64 - 1 (all eight bytes significant).
U64Vals == {U64Of(1), U64Max}

EndOfEpochKindValues ==
  [tag : UnitEndOfEpoch]
    \cup [tag : {"ChangeEpoch", "AuthenticatorStateExpire"}, payload : KindPayload]
    \cup [tag : {"BridgeStateCreate"}, chain_id : KindPayload]
    \cup [tag : {"BridgeCommitteeInit"}, bridge_object_version : U64Vals]

TransactionKindValues ==
  [tag : {"ProgrammableTransaction", "ChangeEpoch", "Genesis",
          "ConsensusCommitPrologue", "AuthenticatorStateUpdate",
          "RandomnessStateUpdate", "ConsensusCommitPrologueV2"},
   payload : KindPayload]
    \cup [tag : {"EndOfEpoch"}, commands : SeqOf(EndOfEpochKindValues, MaxCommands)]

TransactionValues ==
  [kind : TransactionKindValues, sender : {0}, gas_payment : {1}, expiration : {2}]

SignedTransactionValues ==
  [transaction : TransactionValues, signatures : SeqOf(KindPayload, MaxSignatures)]
=============================================================================
