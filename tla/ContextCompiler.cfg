SPECIFICATION FairSpec
CONSTANTS
  Budgets = {15, 57, 100}
  Title <- MCTitle
  Cap <- MCCap
  Anchors <- MCAnchors
  Items <- MCItems
  Placeheld = {6}
  Focus = 2
  Bodies = {20, 60, 150}
CHECK_DEADLOCK FALSE
INVARIANTS TypeOK SpendingBounded Accounted AnchorsFirst BestKept
PROPERTIES Compiles
