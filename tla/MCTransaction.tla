---------------------------- MODULE MCTransaction -----------------------------
(***************************************************************************)
(* Binary round trip of Transaction (version wrapper, every kind, the      *)
(* end-of-epoch command list) and of the plain SignedTransaction.          *)
(***************************************************************************)
EXTENDS TxValues, WireRoundTrip

MCValues ==
  ({"Transaction"} \X TransactionValues)
    \cup ({"SignedTransaction"} \X SignedTransactionValues)

SerializeEntity(e, v) ==
  CASE e = "Transaction"       -> EncodeTransaction(v)
    [] e = "SignedTransaction" -> EncodeSignedTransaction(v)

DeserializeEntity(e, b) ==
  CASE e = "Transaction"       -> FromBytes(DecodeTransaction(b))
    [] e = "SignedTransaction" -> FromBytes(DecodeSignedTransaction(b))
=============================================================================
