SPECIFICATION FairSpec
CONSTANTS
  Pollers = {p1}
  NBatches = 2
  Records = {r1, r2}
  MaxRetries = 3
  PageSize = 1
  Budget <- DeployedBudget
PROPERTY BatchesSettle
