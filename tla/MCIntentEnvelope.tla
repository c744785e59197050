--------------------------- MODULE MCIntentEnvelope ---------------------------
(***************************************************************************)
(* The signing envelope: SignedTransactionWithIntentMessage in binary mode *)
(* is a sequence of declared length 1 holding ((0, 0, 0, transaction),     *)
(* signatures).  Byte 1 of the wire is the declared length, bytes 2..4 the *)
(* intent (scope, version, app_id).                                        *)
(***************************************************************************)
EXTENDS TxValues, WireRoundTrip

MCValues == {"SignedTransactionWithIntent"} \X SignedTransactionValues

SerializeEntity(e, v) == EncodeSignedTransactionWithIntent(v)
DeserializeEntity(e, b) == FromBytes(DecodeSignedTransactionWithIntent(b))

\* The only alteration of the message was overwriting byte `pos` with a
\* byte in S.
OnlyOverwritten(pos, S) ==
  /\ Len(edits) = 1
  /\ edits[1].op = "set" /\ edits[1].pos = pos /\ edits[1].byte \in S

\* Intent rejection (spec 4.3, 8): an envelope whose scope, version or
\* app_id byte is not 0 is refused by IntentMessageWrappedTransaction's
\* decoder with the invalid-intent error, even though the transaction after
\* it is intact.
IntentRejected ==
  Decoded /\ (\E pos \in 2..4 : OnlyOverwritten(pos, Byte))
    => received = Fail("InvalidIntentMessage")

\* Envelope length enforcement (spec 4.3, 8): an envelope whose declared
\* sequence length is a one-byte value other than 1 (0, 2, ...) is refused
\* by the singleton-sequence visitor with the malformed-envelope error.
EnvelopeLengthEnforced ==
  Decoded /\ OnlyOverwritten(1, 0..127)
    => received = Fail("ExpectedSequenceWithLength1")
=============================================================================
