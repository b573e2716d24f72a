CONSTANTS
  NRules = 2
  Evaluators = {request, weekly}
  AutoFlush = {weekly}
  RankRules = {2}
  Scores = {0, 1}
  Limits = {1}
  RiskLimit = 1
  Cooldown = 1
  MaxTime = 0
SPECIFICATION FairSpec
PROPERTIES EvaluationEnds
