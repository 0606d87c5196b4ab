SPECIFICATION Spec
CONSTANTS
  Workers = {"w1", "w2"}
  Texts <- JapaneseTexts
  Plan <- JapanesePlan
  Extra <- JapaneseExtra
  Key <- JapaneseKey
  Sense <- JapaneseSense
  MaxClaims = 2
INVARIANTS StepLeavesWhenClaimed
