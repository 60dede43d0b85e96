SPECIFICATION Spec
CONSTANTS
  Key <- MCKey
  Iv0 <- MCIv0
  Plain <- MCPlain
  Expected <- MCExpected
  Lengths <- MCLengths
  MaxSetIv = 1
INVARIANTS
  Recovered
  AsInTests
CHECK_DEADLOCK FALSE
