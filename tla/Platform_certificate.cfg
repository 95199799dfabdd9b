SPECIFICATION Spec
CONSTANTS
  MaxGen = 2
  Plans <- Shrinks
  Budgets <- Quiet
INVARIANTS CertificateGoes
CHECK_DEADLOCK FALSE
