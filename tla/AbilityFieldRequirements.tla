----------------------- MODULE AbilityFieldRequirements -----------------------
(***************************************************************************)
(* verify_module_impl of ability_field_requirements.rs, one loop iteration *)
(* per step: every field of every declared struct, then every field of     *)
(* every variant of every enum, must have the abilities its datatype's     *)
(* abilities require; the first field that does not ends the call with     *)
(* FIELD_MISSING_TYPE_ABILITY at that position, and an error of            *)
(* module.abilities ends it at once (the `?`).                             *)
(***************************************************************************)
EXTENDS MoveModule

VARIABLES
  module,   \* the CompiledModule under verification
  pc,       \* "structs", "enums" or "done"
  di,       \* current struct or enum definition
  vi,       \* current variant of the enum
  fi,       \* current field
  result    \* Pending, then the VMResult

vars == <<module, pc, di, vi, fi, result>>

Init ==
  /\ module \in Modules
  /\ pc = "structs"
  /\ di = 1 /\ vi = 1 /\ fi = 1
  /\ result = Pending

(***************************************************************************)
(* Struct definitions.                                                     *)
(***************************************************************************)
StructDef == module.struct_defs[di]
\* The declared fields; a native struct has none.
StructFields ==
  IF StructDef.field_information.kind = "Declared"
  THEN StructDef.field_information.fields ELSE <<>>
InStructFields ==
  /\ pc = "structs"
  /\ di <= Len(module.struct_defs)
  /\ StructDef.field_information.kind = "Declared"
  /\ fi <= Len(StructFields)

\* A field that has every required ability: go on with the next field.
StructFieldOk ==
  /\ InStructFields
  /\ LET fa == FieldAbilities(StructFields[fi])
     IN fa.ok /\ RequiredAbilities(StructDef.abilities) \subseteq fa.abilities
  /\ fi' = fi + 1
  /\ UNCHANGED <<module, pc, di, vi, result>>

StructFieldMissing ==
  /\ InStructFields
  /\ LET fa == FieldAbilities(StructFields[fi])
     IN fa.ok /\ ~(RequiredAbilities(StructDef.abilities) \subseteq fa.abilities)
  /\ result' = MissingAbility(<<"StructDefinition", di - 1>>)
  /\ pc' = "done"
  /\ UNCHANGED <<module, di, vi, fi>>

StructFieldAbilitiesError ==
  /\ InStructFields
  /\ ~FieldAbilities(StructFields[fi]).ok
  /\ result' = AbilitiesFailed
  /\ pc' = "done"
  /\ UNCHANGED <<module, di, vi, fi>>

\* Fault model: the field cursor restarted at 0 instead of 1.
NextStructFromZero ==
  /\ pc = "structs"
  /\ di <= Len(module.struct_defs)
  /\ StructDef.field_information.kind = "Native" \/ fi > Len(StructFields)
  /\ di' = di + 1
  /\ fi' = 0
  /\ UNCHANGED <<module, pc, vi, result>>

\* A native struct is skipped (continue); a declared one after its last field.
NextStruct ==
  /\ pc = "structs"
  /\ di <= Len(module.struct_defs)
  /\ \/ StructDef.field_information.kind = "Native"
     \/ fi > Len(StructFields)
  /\ di' = di + 1
  /\ fi' = 1
  /\ UNCHANGED <<module, pc, vi, result>>

StructsDone ==
  /\ pc = "structs"
  /\ di > Len(module.struct_defs)
  /\ pc' = "enums"
  /\ di' = 1 /\ vi' = 1 /\ fi' = 1
  /\ UNCHANGED <<module, result>>

(***************************************************************************)
(* Enum definitions.                                                       *)
(***************************************************************************)
EnumDef == module.enum_defs[di]
InEnumFields ==
  /\ pc = "enums"
  /\ di <= Len(module.enum_defs)
  /\ vi <= Len(EnumDef.variants)
  /\ fi <= Len(EnumDef.variants[vi])

EnumFieldOk ==
  /\ InEnumFields
  /\ LET fa == FieldAbilities(EnumDef.variants[vi][fi])
     IN fa.ok /\ RequiredAbilities(EnumDef.abilities) \subseteq fa.abilities
  /\ fi' = fi + 1
  /\ UNCHANGED <<module, pc, di, vi, result>>

EnumFieldMissing ==
  /\ InEnumFields
  /\ LET fa == FieldAbilities(EnumDef.variants[vi][fi])
     IN fa.ok /\ ~(RequiredAbilities(EnumDef.abilities) \subseteq fa.abilities)
  /\ result' = MissingAbility(<<"EnumDefinition", di - 1, vi - 1, fi - 1>>)
  /\ pc' = "done"
  /\ UNCHANGED <<module, di, vi, fi>>

EnumFieldAbilitiesError ==
  /\ InEnumFields
  /\ ~FieldAbilities(EnumDef.variants[vi][fi]).ok
  /\ result' = AbilitiesFailed
  /\ pc' = "done"
  /\ UNCHANGED <<module, di, vi, fi>>

NextVariant ==
  /\ pc = "enums"
  /\ di <= Len(module.enum_defs)
  /\ vi <= Len(EnumDef.variants)
  /\ fi > Len(EnumDef.variants[vi])
  /\ vi' = vi + 1
  /\ fi' = 1
  /\ UNCHANGED <<module, pc, di, result>>

NextEnum ==
  /\ pc = "enums"
  /\ di <= Len(module.enum_defs)
  /\ vi > Len(EnumDef.variants)
  /\ di' = di + 1
  /\ vi' = 1 /\ fi' = 1
  /\ UNCHANGED <<module, pc, result>>

EnumsDone ==
  /\ pc = "enums"
  /\ di > Len(module.enum_defs)
  /\ result' = Verified
  /\ pc' = "done"
  /\ UNCHANGED <<module, di, vi, fi>>

Next ==
  \/ StructFieldOk \/ StructFieldMissing \/ StructFieldAbilitiesError
  \/ NextStruct \/ StructsDone
  \/ EnumFieldOk \/ EnumFieldMissing \/ EnumFieldAbilitiesError
  \/ NextVariant \/ NextEnum \/ EnumsDone

\* verify_module is an ordinary synchronous call: once running, it goes on.
Spec == Init /\ [][Next]_vars /\ WF_vars(Next)

\* (module never changes and is drawn from Modules by Init.)
TypeOK ==
  /\ pc \in {"structs", "enums", "done"}
  /\ {di, vi, fi} \subseteq Nat \ {0}
  /\ IsResult(result)
=============================================================================
