SPECIFICATION Spec
CONSTANTS
  Keys <- MCKeys
  Values <- MCValues
  MAX_SIZE = 14
  MAX_CELLS = 14
  MAX_DEPTH = 1
  INITIAL_CAPACITY = 4
  Damage <- MCDamage
INVARIANTS TypeOK ReadsBack WrittenValidates MergePrefersPatch ValidatedIsReadable
CHECK_DEADLOCK FALSE
