------------------------ MODULE MCAbilityFieldRequirements ------------------------
(***************************************************************************)
(* Model-checking instance of AbilityFieldRequirements over two families  *)
(* of compiled modules, built from a few datatype ability sets and field   *)
(* signatures (a type parameter, datatypes with and without Store, and a   *)
(* signature module.abilities rejects):                                    *)
(*  - up to MaxStructs structs of at most one field, and at most one enum  *)
(*    of at most one variant of at most one field;                         *)
(*  - no struct, and at most one enum of at most MaxVariants variants of   *)
(*    at most MaxVariantFields fields.                                     *)
(* The first reaches the struct index, the Native skip and the order of    *)
(* the two loops, the second the variant and field indices of the enum     *)
(* loop.                                                                   *)
(***************************************************************************)
EXTENDS AbilityFieldRequirements, SequencesExt

CONSTANTS MaxStructs, MaxVariants, MaxVariantFields

DatatypeAbilities == {{}, {"Key"}, {"Copy", "Drop"}}

Sigs ==
  {[kind |-> "TypeParameter"], [kind |-> "Malformed"]}
    \cup {[kind |-> "Datatype", abilities |-> a] : a \in {{"Store"}, {"Copy", "Drop"}}}

StructDefs ==
  [abilities : DatatypeAbilities,
   field_information :
     {[kind |-> "Native"]}
       \cup {[kind |-> "Declared", fields |-> s] : s \in BoundedSeq(Sigs, 1)}]

EnumDefs(nv, nf) ==
  [abilities : DatatypeAbilities, variants : BoundedSeq(BoundedSeq(Sigs, nf), nv)]

MCModules ==
  [struct_defs : BoundedSeq(StructDefs, MaxStructs),
   enum_defs : BoundedSeq(EnumDefs(1, 1), 1)]
  \cup
  [struct_defs : {<<>>},
   enum_defs : BoundedSeq(EnumDefs(MaxVariants, MaxVariantFields), 1)]

\* The stepwise check implements the one-step specification of its result:
\* the result stays Pending until the loop has returned.
Abs == INSTANCE AbilityCheck WITH result <- IF pc = "done" THEN result ELSE Pending

\* verify_module returns the verdict of the reference definition: Ok exactly
\* when every declared field has the abilities its datatype requires, and
\* otherwise the error of the first offending field in the order the two
\* loops visit them (structs, then enum variants and fields), including the
\* 0-based struct, variant and field indices it reports; and it does return.
ImplementsAbilityCheck == Abs!Spec
=============================================================================
