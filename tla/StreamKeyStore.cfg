CONSTANTS
  Accounts = {a1, a2}
  Keys = {k1, k2, k3}
  None = None
SPECIFICATION Spec
INVARIANTS
  InverseMaps
  IssuedKeySurvives
