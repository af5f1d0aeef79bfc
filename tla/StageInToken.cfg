\* A stage-in of up to 30 minutes with one token, in ticks of 30 s.
SPECIFICATION CredSpec
CONSTANTS
  s1 = s1
  Secrets = {s1}
  MaxVersion = 1
  Data <- Shared
  Asked = {""}
  Threads = {t1}
  Sources = {x1, x2}
  NoSource = NoSource
  NoThread = NoThread
  NoToken = NoToken
  Replies <- TenMinutes
  DefaultLifetime = 20
  Leeway = 2
  CallTime = 1
  UseTime = 60
  MaxTime = 30
SYMMETRY SourceSymmetry
INVARIANTS
  TokenValidWhileUsed
CHECK_DEADLOCK FALSE
