SPECIFICATION Spec
CHECK_DEADLOCK FALSE
CONSTANTS
  MinBudget = 250
  Grain = 50
  MinSteps = 2
  MaxSteps = 7
  MaxTotal = 120000
  DefaultSteps = 5
  DemoSteps = 7
  Shapes <- TemplateShapes
  SliderMin = 1500
  SliderMax = 30000
  SliderStep = 500
  Positions <- SliderPositions
  Typed = {0, 100}
  FlatBudgets = {1600}
  NumWorkers = 8
  MaxRows = 8
  MaxAnswer = 3
  MaxEdits = 4
INVARIANTS TypeOK SharesWithinTotal FairShares ShownSharesCurrent TurnsGetTheirShare
