CONSTANTS
  MaxCodes = 2
  CategoryOf <- MCCategoryOf
  PII = {1, 2}
  Health = {3}
  Secret = {4}
  Inputs <- MCInputs
  Tools = {t1, t2}
  MaxEdits = 2
  MaxRowEdits = 1
  SigningKey = SigningKey
  OtherKey = OtherKey
SPECIFICATION Spec
SYMMETRY Symmetry
INVARIANTS
  ValidMeansGenuine
  ReportedExportsStand
  NothingRefused
  EditLocated
CHECK_DEADLOCK FALSE
