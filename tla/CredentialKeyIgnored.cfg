\* One Secret with two credential entries, each asked for by a pod.
SPECIFICATION CredSpec
CONSTANTS
  s1 = s1
  Secrets = {s1}
  MaxVersion = 1
  Data <- Shared
  Asked = {"", "other.json"}
  Threads = {t1, t2}
  Sources = {x1, x2, x3}
  NoSource = NoSource
  NoThread = NoThread
  NoToken = NoToken
  Replies <- ShortReplies
  DefaultLifetime = 4
  Leeway = 2
  CallTime = 1
  UseTime = 2
  MaxTime = 6
SYMMETRY SourceSymmetry
INVARIANTS
  TokenOfOwnCredential
CHECK_DEADLOCK FALSE
