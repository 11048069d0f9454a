CONSTANTS
  a1 = a1
  a2 = a2
  b1 = b1
  A = A
  B = B
  Machine = {A, B}
  Caller = {a1, a2, b1}
  Home <- MCHome
  Target = {"path"}
  Bump = 1
  UsedSeq = 3
  Calls = 2
  MaxCalls <- MCMaxCalls
  MaxRepeats = 1
SPECIFICATION Spec
SYMMETRY Symmetry
INVARIANTS TypeOK AdmittedInProgramOrder OncePerCall RefusedHadNoEffect OneRetryIsEnough
CHECK_DEADLOCK FALSE
