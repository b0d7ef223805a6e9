SPECIFICATION Spec
CONSTANTS
  Inputs <- MCInputs
  CAPACITY = 8
  THRESHOLD = 4
INVARIANTS TypeOK WindowIsText LongestOperator LookaheadFits NamesKept ReadsBack
PROPERTY ParsingEnds
\* A parse ends.
CHECK_DEADLOCK FALSE
