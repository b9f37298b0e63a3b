CONSTANTS
  Logout = Logout
  NoCmd = NoCmd
  c1 = c1
  a1 = a1
  a2 = a2
  e1 = e1
  e2 = e2
  Cmds <- OneCmd
  Auths <- TwoAuths
  Encrypts <- TwoEncrypts
  ApiKeys <- PlainOrEncrypted
  MAX_ATTEMPTS = 2
  SILENT_TIMEOUTS_BEFORE_BAN = 2
  MayStop = FALSE
  Troubles <- AnyTrouble
  MaxTrouble = 2
SPECIFICATION Spec
INVARIANTS
  TypeOK
  EveryRequestIsHeld
  

  
CHECK_DEADLOCK FALSE
