CONSTANTS
  MaxInt = 7
  Exact = 8
  MaxFloat = 16
  Ids = {0, 1}
  MaxPattern = 0
  PageSizes = {1, 2}
  BatchSize = 2
  DataOf <- MCDataOf
  Percent <- MCPercent
  Underscore <- MCUnderscore
  Quote <- MCQuote
  Backslash <- MCBackslash
  Semicolon <- MCSemicolon
  Mark <- MCMark
  Lower <- MCLower
  Wheres <- MCWheres
  Selects <- MCSelects
  Comments <- MCComments
SPECIFICATION Spec
INVARIANT IndexScanIsEquality
