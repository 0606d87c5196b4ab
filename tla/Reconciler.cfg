SPECIFICATION Spec
CONSTANTS
  Workers = {"w1", "w2"}
  Texts <- MCTexts
  Plan <- MCPlan
  Extra <- MCExtra
  Key <- MCKey
  Sense <- MCSense
  MaxClaims = 3
INVARIANTS TypeOK KeysUnique PlanAccounted DoubtsAreFlagged
PROPERTIES NothingForgotten
