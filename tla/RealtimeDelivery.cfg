SPECIFICATION FairSpec
CONSTANTS
  None = None
  c1 = c1  c2 = c2  c3 = c3  i1 = i1  i2 = i2
  t1 = t1  t2 = t2  pubA = pubA  pubB = pubB
  JwtSecretSet = TRUE
  RequireAuth = TRUE
  Conns = {c1, c2}
  Ids = {i1, i2}
  Usable = 2
  Topics = {t1}
  Tokens <- AllTokens
  Configs <- MixedConfig
  Events <- TenantEvents
  Leavers = {}
  Closers = {c1, c2}
  MaxEvents = 1
  MaxJoins = 2
  MaxInputs = 3
INVARIANTS TenantIsolation
PROPERTIES QueueDrained MatchDelivered
CHECK_DEADLOCK FALSE
