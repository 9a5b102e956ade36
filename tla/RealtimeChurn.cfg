SPECIFICATION Spec
CONSTANTS
  None = None
  c1 = c1  c2 = c2  c3 = c3  i1 = i1  i2 = i2
  t1 = t1  t2 = t2  pubA = pubA  pubB = pubB
  JwtSecretSet = TRUE
  RequireAuth = FALSE
  Conns = {c1, c2, c3}
  Ids = {i1, i2}
  Usable = 2
  Topics = {t1, t2}
  Tokens <- OneToken
  Configs <- PairConfig
  Events <- OneEvent
  Leavers = {c1}
  Closers = {c2}
  MaxEvents = 2
  MaxJoins = 3
  MaxInputs = 4
SYMMETRY Names
INVARIANTS TypeOK Bookkeeping OwnChannel FeedOrder NoneSkipped LeaveIsPrompt
CHECK_DEADLOCK FALSE
