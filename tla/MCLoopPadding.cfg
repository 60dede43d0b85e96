SPECIFICATION Spec
CONSTANTS
  SignBit = 8
  Loops <- MCLoops
INVARIANTS
  TypeOK
  Oblivious
  EffectsKept
  UpwardLimits
  CrashesOnNextIndex
PROPERTY
  Ends
