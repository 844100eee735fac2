SPECIFICATION Spec
CONSTANTS
  Args <- MCArgs
  Lines <- MCLines
  MaxArgs = 2
  MaxLines = 2
INVARIANTS CommandLineOverrides
CHECK_DEADLOCK FALSE
