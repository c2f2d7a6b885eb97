CONSTANTS
  MaxRules = 3
  MaxSelectors = 3
  Issuer = "issuer"
  Audience = "gateway"
  Leeway = 1
  MaxGroups = 2
  MaxInt = 63
  Million = 10
  Principals = {1, 2}
  Routes = {1, 2}
  Requested = {1, 2, 3}
  Deployments <- MCDeployments
  IssuerKey = "issuer_key"
  Life = 1
  MaxDecisions = 1
SPECIFICATION Spec
INVARIANTS
  PolicyDecides
  DigestIsOfMeaning
  DisabledStaysOut
  TokensWorkWhileFresh
  PricesExact
CHECK_DEADLOCK FALSE
