------------------------------ MODULE MoveModule ------------------------------
(***************************************************************************)
(* The part of a compiled Move module that the ability-field check reads,  *)
(* and the results it returns.                                             *)
(*                                                                         *)
(* A compiled module is a record                                           *)
(*   struct_defs : Seq([abilities, field_information])                     *)
(*   enum_defs   : Seq([abilities, variants : Seq(Seq(Sig))])              *)
(* with field_information [kind |-> "Native"] or                           *)
(* [kind |-> "Declared", fields |-> Seq(Sig)],                             *)
(* where a field signature Sig is a type parameter of the datatype, an     *)
(* instantiated datatype with the abilities module.abilities computes for  *)
(* it, or a signature module.abilities fails on.  Indices are 1-based here *)
(* and reported 0-based, as the code's enumerate() does.                   *)
(***************************************************************************)
EXTENDS Integers, Sequences

CONSTANT Modules     \* the compiled modules the verifier may be given

Abilities == {"Copy", "Drop", "Store", "Key"}

\* Ability::requires: the ability every field needs for the datatype to
\* have ability a.
Requires(a) == IF a = "Key" THEN "Store" ELSE a

\* Fault model: the fold collects the abilities themselves, not
\* a.requires(), so key asks its fields for key instead of store.
RequiredAbilitiesUnmapped(abs) == abs

\* The fold over sh.abilities of a.requires().
RequiredAbilities(abs) == {Requires(a) : a \in abs}

\* module.abilities(&field.signature.0, &type_parameter_abilities), where
\* every type parameter is assumed to have AbilitySet::ALL.
FieldAbilities(sig) ==
  CASE sig.kind = "TypeParameter" -> [ok |-> TRUE, abilities |-> Abilities]
    [] sig.kind = "Datatype"      -> [ok |-> TRUE, abilities |-> sig.abilities]
    [] sig.kind = "Malformed"     -> [ok |-> FALSE]

MissingAbility(at) == [status |-> "FIELD_MISSING_TYPE_ABILITY", at |-> at]
AbilitiesFailed == [status |-> "ABILITIES_ERROR", at |-> <<>>]
Verified == [status |-> "OK", at |-> <<>>]

Pending == [status |-> "PENDING", at |-> <<>>]

IsResult(r) ==
  \/ r \in {Pending, Verified, AbilitiesFailed}
  \/ /\ r.status = "FIELD_MISSING_TYPE_ABILITY"
     /\ r.at[1] = "StructDefinition" /\ Len(r.at) = 2 /\ r.at[2] \in Nat
  \/ /\ r.status = "FIELD_MISSING_TYPE_ABILITY"
     /\ r.at[1] = "EnumDefinition" /\ Len(r.at) = 4
     /\ \A i \in 2..4 : r.at[i] \in Nat
=============================================================================
