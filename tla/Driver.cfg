CONSTANTS
  Paths <- MCPaths
  OutPaths <- MCOutPaths
  MaxOpts = 3
SPECIFICATION Spec
INVARIANTS
  TypeOK
  Released
  DefaultName
  SourceSurvives
  DoneAsTold
