\* Two threads and one Secret, changed once, with a raw token beside the
\* credential; handlers keep a token for longer than the leeway, and longer
\* than some tokens live.  No symmetry, because one property is temporal.
SPECIFICATION CredFairSpec
CONSTANTS
  s1 = s1
  Secrets = {s1}
  MaxVersion = 2
  Data <- Rotated
  Asked = {"", "raw"}
  Threads = {t1, t2}
  Sources = {x1, x2}
  NoSource = NoSource
  NoThread = NoThread
  NoToken = NoToken
  Replies <- ShortReplies
  DefaultLifetime = 4
  Leeway = 2
  CallTime = 1
  UseTime = 4
  MaxTime = 4
INVARIANTS
  CredTypeOK
  TokenLivesThroughLeeway
  TokenOfOwnCredential
PROPERTIES
  RefreshOnlyWhenDue
  TokenRequestsEnd
CHECK_DEADLOCK FALSE
