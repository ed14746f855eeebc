SPECIFICATION Spec
CONSTANTS
  Lens <- MCLens
  MaxBytes = 7
INVARIANTS
  CallbackWhenSent
