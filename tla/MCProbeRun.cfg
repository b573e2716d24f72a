CONSTANTS
  Claims = {"hipaa"}
  Competitors = {"rival"}
  Attributes = {"open"}
  Slug <- MCSlug
  Runs = {r1, r2}
  Brands = {b}
  Models = {gpt}
  NPrompts = 2
  Manifest <- MCManifest
  Answers <- MCAnswers
  MaxCost = 1
  Cap = 1
  MaxFaults = 1
SPECIFICATION Spec
INVARIANTS OvershootBounded PublishedIsDetected CriticalAlerted
CHECK_DEADLOCK FALSE
