SPECIFICATION Spec
CONSTANT
  Texts <- MCTexts
  None = None
INVARIANT
  TrustedAccepted
