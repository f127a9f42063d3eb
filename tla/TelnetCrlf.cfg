SPECIFICATION Spec
CONSTANTS
  MaxLine = 3
  Calls <- MCShort
  Passwords <- MCPasswords
  Banners <- MCNothing
  CallerEnds <- MCCrlf
  PromptEnds <- MCPrompts
  Preludes <- MCNothing
  LfComesAlong = FALSE
INVARIANTS LoggedInAfterPassword
CHECK_DEADLOCK FALSE
