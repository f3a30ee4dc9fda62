SPECIFICATION Spec
CONSTANTS
  MaxEdits = 3
  MaxFailures = 1
INVARIANT
  TemplatesParse
