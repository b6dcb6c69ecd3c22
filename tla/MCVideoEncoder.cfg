SPECIFICATION Spec
INVARIANTS
  WholeInUse
  DamageHasCause
  DrainEndsWithUse
