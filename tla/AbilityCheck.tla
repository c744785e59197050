------------------------------ MODULE AbilityCheck ------------------------------
(***************************************************************************)
(* What the ability-field check promises, in one step: the module is       *)
(* accepted iff every field of every declared struct and of every enum     *)
(* variant has the abilities that its datatype's abilities require, and    *)
(* otherwise the error names the first offending field in declaration      *)
(* order, structs before enums.                                            *)
(***************************************************************************)
EXTENDS MoveModule

VARIABLES module, result

\* Field positions <<table, definition, variant, field>>, 1-based; table 0
\* is the struct definitions (one pseudo-variant), table 1 the enums.
FieldPositions(m) ==
  UNION {{<<0, d, 1, f>> : f \in 1..Len(m.struct_defs[d].field_information.fields)} :
           d \in {d \in DOMAIN m.struct_defs : m.struct_defs[d].field_information.kind = "Declared"}}
  \cup
  UNION {UNION {{<<1, d, v, f>> : f \in 1..Len(m.enum_defs[d].variants[v])} :
                  v \in DOMAIN m.enum_defs[d].variants} :
           d \in DOMAIN m.enum_defs}

DefAt(m, p) == IF p[1] = 0 THEN m.struct_defs[p[2]] ELSE m.enum_defs[p[2]]
SigAt(m, p) ==
  IF p[1] = 0 THEN m.struct_defs[p[2]].field_information.fields[p[4]]
  ELSE m.enum_defs[p[2]].variants[p[3]][p[4]]

\* The Move ability rules: a datatype may have copy, drop or store only if
\* all its fields have it, and key only if all its fields have store.
FieldNeeds == [Copy |-> "Copy", Drop |-> "Drop", Store |-> "Store", Key |-> "Store"]

Offending(m, p) ==
  LET fa == FieldAbilities(SigAt(m, p))
  IN ~fa.ok \/ \E a \in DefAt(m, p).abilities : FieldNeeds[a] \notin fa.abilities

LexLess(p, q) == \E i \in 1..4 : p[i] < q[i] /\ \A j \in 1..(i - 1) : p[j] = q[j]

\* The reference definition of verify_module's result.
Verdict(m) ==
  LET bad == {p \in FieldPositions(m) : Offending(m, p)}
  IN IF bad = {} THEN Verified
     ELSE LET p == CHOOSE p \in bad : \A q \in bad \ {p} : LexLess(p, q)
          IN CASE ~FieldAbilities(SigAt(m, p)).ok -> AbilitiesFailed
               [] p[1] = 0 -> MissingAbility(<<"StructDefinition", p[2] - 1>>)
               [] OTHER    -> MissingAbility(<<"EnumDefinition", p[2] - 1, p[3] - 1, p[4] - 1>>)

Init == module \in Modules /\ result = Pending

Verify ==
  /\ result = Pending
  /\ result' = Verdict(module)
  /\ UNCHANGED module

Spec == Init /\ [][Verify]_<<module, result>> /\ WF_<<module, result>>(Verify)
=============================================================================
