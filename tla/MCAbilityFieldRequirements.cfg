CONSTANTS
  Modules <- MCModules
  MaxStructs = 2
  MaxVariants = 2
  MaxVariantFields = 2
SPECIFICATION Spec
INVARIANT TypeOK
PROPERTY ImplementsAbilityCheck
\* verify_module is a call that returns: the loop stops at pc = "done".
CHECK_DEADLOCK FALSE
