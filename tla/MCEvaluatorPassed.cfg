CONSTANTS
  f1 = f1
  f2 = f2
  f3 = f3
  r1 = r1
  r2 = r2
  Names <- MCNames
  Rules <- MCRules
  Policies <- MCPolicies
  Schemas <- MCSchemas
  Depth <- MCDepth
  Inputs <- MCInputs
  Invalids <- MCInvalids
  NoRule = NoRule
CHECK_DEADLOCK FALSE
SPECIFICATION OutputSpec
INVARIANT PassedRulesCounted
