SPECIFICATION Spec
CONSTANTS
  Args <- MCArgs
  Meaning <- MCMeaning
  MaxArgs = 3
  MaxFiles = 2
  Paths <- MCPaths
  Headers <- MCHeaders
  Disks <- MCDisks
INVARIANTS
  TablePastEndReported
