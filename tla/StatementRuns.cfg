SPECIFICATION Spec
CONSTANTS
  World <- WorldUsed
  Imported <- ImportsUsed
  Widening <- TheWidening
  Primitives <- ThePrimitives
  SizeMax = 100
  Values <- ValuesUsed
  Statements <- StatementsUsed
  Depth <- DepthUsed
  Cases <- AllCases
INVARIANTS
  HolesReported
  ValuesFit
  ReadsAfterDeclaration
