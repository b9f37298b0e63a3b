CONSTANTS
  Logout = Logout
  NoCmd = NoCmd
  c1 = c1
  a1 = a1
  a2 = a2
  e1 = e1
  e2 = e2
  Cmds <- OneCmd
  Auths <- TwoAuths
  Encrypts <- OneEncrypt
  ApiKeys <- Encrypted
  MAX_ATTEMPTS = 2
  SILENT_TIMEOUTS_BEFORE_BAN = 2
  MayStop = FALSE
  Troubles <- NoTrouble
  MaxTrouble = 0
SPECIFICATION FairSpec
PROPERTIES
  EveryAttemptSettles
CHECK_DEADLOCK FALSE
