SPECIFICATION Spec
CHECK_DEADLOCK FALSE
CONSTANTS
  Vendors <- MCVendors
  Marks <- MCMarks
  LiteLLMName <- MCLiteLLMName
  Bare = "sk"
  BareVendor = "openai"
  MinContext = 4000
  Keys <- MCKeys
  Issuer <- MCIssuer
  Catalogue <- MCCatalogue
  Pool <- MCPool
  Wants <- MCWants
  DemoSteps = 2
  MaxKeys = 2
  MaxEdits = 6
INVARIANTS TypeOK SpreadIsEven RoutedAsChosen
