\* One call: a string and a prefixed number in a width, and a literal.
CONSTANTS
  RegWrap <- MCRegWrap
  Char <- MCChar
  MAX_ARG_CNT = 2
  Requests <- MCDocumented
SPECIFICATION Spec
INVARIANT OutputIsDocumented
CHECK_DEADLOCK FALSE
