SPECIFICATION Spec
CONSTANT
  Texts <- MCTexts
  None = None
INVARIANTS
  TypeOK
  SplitsAtTopLevel
  TrustsHeadsOnly
  KeepsText
