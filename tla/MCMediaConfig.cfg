SPECIFICATION Spec
CONSTANT Focuses <- AllFocuses
INVARIANTS
  DerivedAgrees
  SavedIsLoaded
  CameraTakesConfig
