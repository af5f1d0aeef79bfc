-------------------------- MODULE CredentialsProofs --------------------------
(***************************************************************************)
(* A token lives through the leeway after it is given out, it is the       *)
(* credential's of the pod, and it is replaced only when due.              *)
(***************************************************************************)
EXTENDS Credentials, TLAPS

ThreadType == [at : {"idle", "resolve", "acquire", "fetch", "use"},
               cred : CredentialType \cup {NoToken},
               source : Sources \cup {NoSource}, since : Nat,
               token : TokenType \cup {NoToken}]

ThreadShape(t) ==
  /\ thread[t].at \in {"resolve", "acquire", "fetch", "use"} => thread[t].cred # NoToken
  /\ thread[t].at \in {"acquire", "fetch"} =>
       /\ thread[t].source # NoSource
       /\ minted[thread[t].source] # NoToken
  /\ thread[t].at = "use" => thread[t].token # NoToken

\* The source of every thread, and of every cache entry, was made from a
\* credential: a reused source object is one that nothing refers to.
TInv ==
  /\ CredTypeOK
  /\ \A t \in Threads : ThreadShape(t)
  /\ \A s \in Secrets :
       sources[s].version # 0 => /\ sources[s].source # NoSource
                                 /\ minted[sources[s].source] # NoToken

\* What Entry names is an entry.
LEMMA CredentialTyped ==
  ASSUME CredTypeOK, NEW s \in Secrets, NEW asked \in Asked
  PROVE  /\ Credential(s, version[s], asked) \in CredentialType
         /\ Credential(s, version[s], asked) # NoToken
  <1>1. Entry(Data[s][version[s]], asked).key \in EntryKeys
    BY DEF Entry, EntryKeys, credentialsFromSecret, credentialFromJSONKey,
       credentialFromSeparateKeys, legacyTokenFromSecret
  <1>2. Credential(s, version[s], asked) \in CredentialType
    BY <1>1 DEF Credential, CredentialType, CredTypeOK
  <1> QED
    BY <1>2, CredentialsAssumption

LEMMA TInvInit == CredInit => TInv
  BY CredentialsAssumption DEF CredInit, TInv, CredTypeOK, ThreadShape, Idle, Versions

\* A thread moves on, and nothing it has its source from changes.
LEMMA ThreadMoves ==
  ASSUME TInv, NEW t \in Threads, NEW rec \in ThreadType, Enter(t, rec),
         rec.at \in {"resolve", "acquire", "fetch", "use"} => rec.cred # NoToken,
         rec.at \in {"acquire", "fetch"} => rec.source # NoSource /\ minted[rec.source] # NoToken,
         rec.at = "use" => rec.token # NoToken,
         UNCHANGED <<clock, version, sources, minted>>,
         cached' \in [Sources -> TokenType \cup {NoToken}],
         lock' \in [Sources -> Threads \cup {NoThread}]
  PROVE  TInv'
  <1> USE DEF TInv, CredTypeOK, ThreadShape, Enter
  <1>1. thread' \in [Threads -> ThreadType]
    BY DEF ThreadType
  <1>2. \A u \in Threads : ThreadShape(u)'
    OBVIOUS
  <1> QED
    BY <1>1, <1>2 DEF ThreadType

LEMMA TInvNext ==
  ASSUME TInv, [CredNext]_credVars
  PROVE  TInv'
  <1> USE DEF TInv, CredTypeOK, ThreadShape, At, Enter, Idle
  <1>1. ASSUME NEW t \in Threads, NEW s \in Secrets, NEW asked \in Asked, Asks(t, s, asked)
        PROVE  TInv'
    <2>1. /\ Credential(s, version[s], asked) \in CredentialType
          /\ Credential(s, version[s], asked) # NoToken
      BY CredentialTyped
    <2>2. CASE ReadCredential(t, s, asked)
      BY <2>1, <2>2 DEF ReadCredential
    <2>3. CASE ReadRawToken(t, s, asked)
      <3>1. [cred |-> Credential(s, version[s], asked), until |-> Never, dies |-> Never]
              \in TokenType \ {NoToken}
        BY <2>1, CredentialsAssumption DEF TokenType, Never
      <3> QED
        BY <2>1, <2>3, <3>1 DEF ReadRawToken
    <2> QED
      BY <1>1, <2>2, <2>3 DEF Asks
  <1>2. ASSUME NEW t \in Threads, tokenSourceForSecret(t)
        PROVE  TInv'
    <2> DEFINE s == thread[t].cred.secret
               v == thread[t].cred.version
    <2>1. s \in Secrets /\ v \in Versions /\ v # 0 /\ thread[t].cred \in CredentialType
      BY <1>2 DEF tokenSourceForSecret, CredentialType, Versions
    <2>2. PICK x \in Sources :
            /\ IF sources[s].version = v
               THEN x = sources[s].source /\ UNCHANGED <<sources, minted, cached>>
               ELSE NewSource(s, thread[t].cred, x)
            /\ Enter(t, [thread[t] EXCEPT !.at = "acquire", !.source = x])
      BY <1>2 DEF tokenSourceForSecret
    <2>3. UNCHANGED <<clock, version, lock>> /\ thread[t].at = "resolve"
      BY <1>2 DEF tokenSourceForSecret
    <2>4. /\ thread' \in [Threads -> ThreadType]
          /\ thread'[t].at = "acquire" /\ thread'[t].source = x /\ thread'[t].cred # NoToken
          /\ \A u \in Threads \ {t} : thread'[u] = thread[u]
      BY <2>2, <2>3 DEF ThreadType
    <2>5. x # NoSource
      BY CredentialsAssumption
    <2>6. CASE sources[s].version = v
      <3>1. minted[x] # NoToken /\ UNCHANGED <<sources, minted, cached>>
        BY <2>1, <2>2, <2>6
      <3> QED
        BY <2>3, <2>4, <2>5, <3>1 DEF ThreadType
    <2>7. CASE NewSource(s, thread[t].cred, x)
      <3>1. /\ sources' \in [Secrets -> [version : Nat, source : Sources \cup {NoSource}]]
            /\ minted' \in [Sources -> CredentialType \cup {NoToken}]
            /\ cached' \in [Sources -> TokenType \cup {NoToken}]
        BY <2>1, <2>7 DEF NewSource, Versions
      <3>2. minted'[x] # NoToken /\ \A y \in Sources \ {x} : minted'[y] = minted[y]
        BY <2>3, <2>7 DEF NewSource
      <3>3. \A u \in Threads \ {t} : thread[u].source # x
        BY <2>7 DEF NewSource, Unreachable
      <3>4. \A r \in Secrets \ {s} : sources'[r] = sources[r] /\ sources[r].source # x
        BY <2>1, <2>7 DEF NewSource, Unreachable
      <3>5. sources'[s].source = x
        BY <2>1, <2>7 DEF NewSource
      <3>6. \A r \in Secrets :
              sources'[r].version # 0 => /\ sources'[r].source # NoSource
                                         /\ minted'[sources'[r].source] # NoToken
        BY <2>5, <3>2, <3>4, <3>5
      <3>7. \A u \in Threads : ThreadShape(u)'
        BY <2>3, <2>4, <2>5, <3>2, <3>3
      <3> QED
        BY <2>3, <2>4, <3>1, <3>6, <3>7 DEF ThreadType
    <2> QED
      BY <2>2, <2>6, <2>7
  <1>3. ASSUME NEW t \in Threads, CachedToken(t)
        PROVE  TInv'
    <2> DEFINE rec == [thread[t] EXCEPT !.at = "use", !.source = NoSource,
                                        !.since = clock, !.token = cached[thread[t].source]]
    <2>1. cached[thread[t].source] \in TokenType /\ cached[thread[t].source] # NoToken
      BY <1>3 DEF CachedToken, Usable
    <2>2. rec \in ThreadType /\ rec.at = "use" /\ rec.cred # NoToken /\ rec.token # NoToken
      BY <1>3, <2>1 DEF CachedToken, ThreadType
    <2> QED
      BY <1>3, <2>2, ThreadMoves DEF CachedToken
  <1>4. ASSUME NEW t \in Threads, FetchBegins(t)
        PROVE  TInv'
    BY <1>4 DEF FetchBegins
  <1>5. ASSUME NEW t \in Threads, FetchAnswers(t)
        PROVE  TInv'
    <2> DEFINE x == thread[t].source
    <2>1. /\ thread[t].at = "fetch" /\ x \in Sources
          /\ minted[x] \in CredentialType /\ thread[t].cred # NoToken
          /\ lock' = [lock EXCEPT ![x] = NoThread]
          /\ UNCHANGED <<clock, version, sources, minted>>
      BY <1>5 DEF FetchAnswers
    <2>2. PICK r \in Replies, issued \in thread[t].since .. clock :
            /\ cached' = [cached EXCEPT ![x] = Minted(minted[x], thread[t].since, issued, r)]
            /\ Enter(t, [thread[t] EXCEPT !.at = "use", !.source = NoSource, !.since = clock,
                          !.token = Minted(minted[x], thread[t].since, issued, r)])
      BY <1>5 DEF FetchAnswers
    <2>3. PICK token : token = Minted(minted[x], thread[t].since, issued, r)
      OBVIOUS
    <2>4. token \in TokenType /\ token # NoToken
      <3>1. r.life \in Nat /\ r.expiresIn \in Nat /\ DefaultLifetime \in Nat
        BY CredentialsAssumption
      <3>2. issued + r.life \in Nat
        BY <3>1
      <3>3. thread[t].since + (IF r.expiresIn = 0 THEN DefaultLifetime ELSE r.expiresIn) \in Nat
        BY <3>1
      <3>4. token \in TokenType
        BY <2>1, <2>3, <3>2, <3>3 DEF Minted, TokenType
      <3> QED
        BY <3>4, CredentialsAssumption
    <2>5. cached' = [cached EXCEPT ![x] = token]
      BY <2>2, <2>3
    <2>6. Enter(t, [thread[t] EXCEPT !.at = "use", !.source = NoSource, !.since = clock,
                                     !.token = token])
      BY <2>2, <2>3
    <2> DEFINE rec == [thread[t] EXCEPT !.at = "use", !.source = NoSource, !.since = clock,
                                        !.token = token]
    <2>7. rec \in ThreadType /\ rec.at = "use" /\ rec.cred # NoToken /\ rec.token # NoToken
      BY <2>1, <2>4 DEF ThreadType
    <2>8. /\ cached' \in [Sources -> TokenType \cup {NoToken}]
          /\ lock' \in [Sources -> Threads \cup {NoThread}]
      BY <2>1, <2>4, <2>5
    <2> QED
      BY <2>1, <2>6, <2>7, <2>8, ThreadMoves
  <1>6. ASSUME NEW t \in Threads, FetchFails(t) \/ UseEnds(t)
        PROVE  TInv'
    <2>1. Idle \in ThreadType
      BY DEF ThreadType
    <2>2. /\ UNCHANGED <<clock, version, sources, minted, cached>> /\ Enter(t, Idle)
          /\ lock' \in [Sources -> Threads \cup {NoThread}]
      BY <1>6 DEF FetchFails, UseEnds
    <2> QED
      BY <2>1, <2>2, ThreadMoves
  <1>7. ASSUME NEW s \in Secrets, SecretUpdated(s)
        PROVE  TInv'
    BY <1>7, CredentialsAssumption DEF SecretUpdated, Versions
  <1>8. CASE Tick
    BY <1>8 DEF Tick
  <1>9. CASE UNCHANGED credVars
    BY <1>9 DEF credVars
  <1> QED
    BY <1>1, <1>2, <1>3, <1>4, <1>5, <1>6, <1>7, <1>8, <1>9
    DEF CredNext, TakesMutex, FetchEnds

\* Tokens, sources and threads keep their types, and a thread has the source
\* or the token its place in Token calls for (auth.go:155-174).
THEOREM CredTypeCorrect == CredSpec => []CredTypeOK
  <1>1. TInv => CredTypeOK
    BY DEF TInv
  <1> QED
    BY <1>1, TInvInit, TInvNext, PTL DEF CredSpec

-----------------------------------------------------------------------------
(* The life of a token.                                                    *)

\* A cached token is not believed to live longer than it does.
CautiousCache ==
  \A x \in Sources : cached[x] # NoToken => cached[x].until <= cached[x].dies

InTime(t) ==
  /\ At(t, "fetch") => /\ thread[t].since <= clock
                       /\ clock <= thread[t].since + CallTime
  /\ At(t, "use") => \/ thread[t].token.dies = Never
                     \/ thread[t].since + Leeway < thread[t].token.dies

VInv ==
  /\ TInv
  /\ clock <= MaxTime
  /\ CautiousCache
  /\ \A t \in Threads : InTime(t)

\* One thread moves on; the others keep their time.
LEMMA OthersInTime ==
  ASSUME \A u \in Threads : InTime(u), NEW t \in Threads, NEW rec, TInv,
         Enter(t, rec), clock' = clock, InTime(t)'
  PROVE  \A u \in Threads : InTime(u)'
  BY DEF InTime, Enter, At, TInv, CredTypeOK

LEMMA TimesAreNumbers ==
  /\ DefaultLifetime \in Nat /\ Leeway \in Nat /\ CallTime \in Nat
  /\ UseTime \in Nat /\ MaxTime \in Nat /\ Never \in Nat
  /\ \A r \in Replies : r.life \in Nat /\ r.expiresIn \in Nat
  BY CredentialsAssumption DEF Never

LEMMA VInvNext ==
  ASSUME VInv, [CredNext]_credVars
  PROVE  VInv'
  <1>0. TInv'
    BY TInvNext DEF VInv
  <1> DEFINE Goal == clock' <= MaxTime /\ CautiousCache' /\ \A t \in Threads : InTime(t)'
  <1> SUFFICES Goal
    BY <1>0 DEF VInv
  <1>1. ASSUME NEW t \in Threads, NEW s \in Secrets, NEW asked \in Asked, Asks(t, s, asked)
        PROVE  Goal
    <2> DEFINE cred == Credential(s, version[s], asked)
               raw == [cred |-> cred, until |-> Never, dies |-> Never]
               asking == [Idle EXCEPT !.at = "resolve", !.cred = cred]
               using == [Idle EXCEPT !.at = "use", !.cred = cred, !.since = clock, !.token = raw]
    <2>1. UNCHANGED <<clock, cached>>
      BY <1>1 DEF Asks, ReadCredential, ReadRawToken
    <2>2. CASE Enter(t, asking)
      <3>1. thread'[t].at = "resolve"
        BY <2>2 DEF Enter, Idle, VInv, TInv, CredTypeOK
      <3>2. InTime(t)'
        BY <3>1 DEF InTime, At
      <3> QED
        BY <2>1, <2>2, <3>2, OthersInTime DEF VInv, CautiousCache
    <2>3. CASE Enter(t, using)
      <3>1. using.at = "use" /\ using.since = clock /\ using.token.dies = Never
        BY DEF Idle
      <3>2. thread'[t] = using
        BY <2>3 DEF Enter, VInv, TInv, CredTypeOK
      <3>3. thread'[t].at = "use" /\ thread'[t].since = clock /\ thread'[t].token.dies = Never
        BY <3>1, <3>2
      <3>4. clock \in Nat
        BY DEF VInv, TInv, CredTypeOK
      <3>5. InTime(t)'
        BY <2>1, <3>3, <3>4, TimesAreNumbers DEF InTime, At
      <3> QED
        BY <2>1, <2>3, <3>5, OthersInTime DEF VInv, CautiousCache
    <2> QED
      BY <1>1, <2>2, <2>3 DEF Asks, ReadCredential, ReadRawToken
  <1>2. ASSUME NEW t \in Threads, tokenSourceForSecret(t)
        PROVE  Goal
    <2>1. PICK x \in Sources : Enter(t, [thread[t] EXCEPT !.at = "acquire", !.source = x])
      BY <1>2 DEF tokenSourceForSecret
    <2>2. thread'[t].at = "acquire" /\ clock' = clock
      BY <1>2, <2>1 DEF tokenSourceForSecret, Enter, VInv, TInv, CredTypeOK
    <2>4. InTime(t)'
      BY <2>2 DEF InTime, At
    <2>3. CautiousCache'
      BY <1>2 DEF tokenSourceForSecret, NewSource, CautiousCache, VInv, TInv, CredTypeOK
    <2> QED
      BY <2>1, <2>2, <2>3, <2>4, OthersInTime DEF VInv
  <1>3. ASSUME NEW t \in Threads, CachedToken(t)
        PROVE  Goal
    <2> DEFINE token == cached[thread[t].source]
               rec == [thread[t] EXCEPT !.at = "use", !.source = NoSource,
                                        !.since = clock, !.token = token]
    <2>1. Enter(t, rec) /\ UNCHANGED <<clock, cached>>
      BY <1>3 DEF CachedToken
    <2>2. token \in TokenType /\ clock \in Nat /\ clock + Leeway < token.until
      BY <1>3 DEF CachedToken, Usable, VInv, TInv, CredTypeOK, ThreadShape, At
    <2>3. token.until <= token.dies
      BY <1>3 DEF CachedToken, Usable, VInv, TInv, CredTypeOK, ThreadShape, At, CautiousCache
    <2>4. clock + Leeway < token.dies
      BY <2>2, <2>3, TimesAreNumbers DEF TokenType
    <2>5. thread'[t].at = "use" /\ thread'[t].since = clock /\ thread'[t].token = token
      BY <2>1 DEF Enter, VInv, TInv, CredTypeOK
    <2>6. InTime(t)'
      BY <2>1, <2>2, <2>4, <2>5, TimesAreNumbers DEF InTime, At
    <2>7. CautiousCache'
      BY <2>1 DEF VInv, CautiousCache
    <2> QED
      BY <2>1, <2>6, <2>7, OthersInTime DEF VInv
  <1>4. ASSUME NEW t \in Threads, FetchBegins(t)
        PROVE  Goal
    <2> DEFINE rec == [thread[t] EXCEPT !.at = "fetch", !.since = clock]
    <2>1. Enter(t, rec) /\ UNCHANGED <<clock, cached>>
      BY <1>4 DEF FetchBegins
    <2>2. thread'[t].at = "fetch" /\ thread'[t].since = clock /\ clock \in Nat
      BY <2>1 DEF Enter, VInv, TInv, CredTypeOK
    <2>3. InTime(t)'
      BY <2>1, <2>2, TimesAreNumbers DEF InTime, At
    <2> QED
      BY <2>1, <2>3, OthersInTime DEF VInv, CautiousCache
  <1>5. ASSUME NEW t \in Threads, FetchAnswers(t)
        PROVE  Goal
    <2> DEFINE x == thread[t].source
               since == thread[t].since
    <2>1. /\ x \in Sources /\ since \in Nat /\ clock \in Nat /\ clock <= since + CallTime
          /\ clock' = clock
      BY <1>5 DEF FetchAnswers, VInv, TInv, CredTypeOK, ThreadShape, At, InTime
    <2>2. PICK r \in Replies, issued \in since .. clock :
            /\ cached' = [cached EXCEPT ![x] = Minted(minted[x], since, issued, r)]
            /\ Enter(t, [thread[t] EXCEPT !.at = "use", !.source = NoSource, !.since = clock,
                          !.token = Minted(minted[x], since, issued, r)])
      BY <1>5 DEF FetchAnswers
    <2>3. PICK token : token = Minted(minted[x], since, issued, r)
      OBVIOUS
    <2>4. token.dies = issued + r.life
      BY <2>3 DEF Minted
    <2>5. token.until = since + (IF r.expiresIn = 0 THEN DefaultLifetime ELSE r.expiresIn)
      BY <2>3 DEF Minted
    <2>6. clock + Leeway < token.dies
      BY <2>1, <2>4, TimesAreNumbers, LifeAssumption
    <2>7. token.until <= token.dies
      BY <2>1, <2>4, <2>5, TimesAreNumbers, ReplyAssumption
    <2>8. thread'[t].at = "use" /\ thread'[t].since = clock /\ thread'[t].token = token
      BY <2>2, <2>3 DEF Enter, VInv, TInv, CredTypeOK
    <2>9. InTime(t)'
      BY <2>1, <2>6, <2>8, TimesAreNumbers DEF InTime, At
    <2>10. CautiousCache'
      BY <2>1, <2>2, <2>3, <2>7 DEF CautiousCache, VInv, TInv, CredTypeOK
    <2> QED
      BY <2>1, <2>2, <2>9, <2>10, OthersInTime DEF VInv
  <1>6. ASSUME NEW t \in Threads, FetchFails(t) \/ UseEnds(t)
        PROVE  Goal
    <2>1. Enter(t, Idle) /\ UNCHANGED <<clock, cached>>
      BY <1>6 DEF FetchFails, UseEnds
    <2>2. InTime(t)'
      BY <2>1 DEF InTime, At, Enter, Idle, VInv, TInv, CredTypeOK
    <2> QED
      BY <2>1, <2>2, OthersInTime DEF VInv, CautiousCache
  <1>7. ASSUME NEW s \in Secrets, SecretUpdated(s)
        PROVE  Goal
    BY <1>7 DEF SecretUpdated, VInv, CautiousCache, InTime, At
  <1>8. CASE Tick
    <2>1. clock \in Nat /\ clock' = clock + 1 /\ clock < MaxTime
          /\ UNCHANGED <<thread, cached>>
      BY <1>8 DEF Tick, VInv, TInv, CredTypeOK
    <2>2. ASSUME NEW t \in Threads
          PROVE  InTime(t)'
      <3>1. thread[t].since \in Nat
        BY DEF VInv, TInv, CredTypeOK
      <3>2. InTime(t)
        BY DEF VInv
      <3>3. CASE At(t, "fetch")
        BY <1>8, <2>1, <3>1, <3>2, <3>3, TimesAreNumbers DEF Tick, InTime, At
      <3>4. CASE At(t, "use")
        BY <1>8, <2>1, <3>1, <3>2, <3>4, TimesAreNumbers DEF Tick, InTime, At
      <3> QED
        BY <2>1, <3>3, <3>4 DEF InTime, At
    <2>3. clock' <= MaxTime
      BY <2>1, TimesAreNumbers
    <2>4. CautiousCache'
      BY <2>1 DEF VInv, CautiousCache
    <2> QED
      BY <2>2, <2>3, <2>4
  <1>9. CASE UNCHANGED credVars
    BY <1>9 DEF credVars, VInv, CautiousCache, InTime, At
  <1> QED
    BY <1>1, <1>2, <1>3, <1>4, <1>5, <1>6, <1>7, <1>8, <1>9
    DEF CredNext, TakesMutex, FetchEnds

\* However long handlers keep their tokens, a call made within the leeway of
\* being given one is made with a live token, for any Secrets, threads and
\* rotations and whatever the lives of the tokens (auth.go:160-173).
THEOREM TokensLiveThroughLeeway == CredSpec => []TokenLivesThroughLeeway
  <1>1. CredInit => VInv
    BY TInvInit, TimesAreNumbers
    DEF CredInit, VInv, CautiousCache, InTime, At, Idle
  <1>2. VInv /\ [CredNext]_credVars => VInv'
    BY VInvNext
  <1>3. VInv => TokenLivesThroughLeeway
    <2> SUFFICES ASSUME VInv, NEW t \in Threads, At(t, "use"),
                        clock <= thread[t].since + Leeway
                 PROVE  clock < thread[t].token.dies
      BY DEF TokenLivesThroughLeeway
    <2>1. InTime(t) /\ clock <= MaxTime
      BY DEF VInv
    <2>2. clock \in Nat /\ thread[t].since \in Nat
      BY DEF VInv, TInv, CredTypeOK
    <2>3. thread[t].token \in TokenType
      BY DEF VInv, TInv, CredTypeOK, ThreadShape, At
    <2>4. thread[t].token.dies \in Nat
      BY <2>3 DEF TokenType
    <2> QED
      BY <2>1, <2>2, <2>4, TimesAreNumbers DEF InTime, Never
  <1> QED
    BY <1>1, <1>2, <1>3, PTL DEF CredSpec

-----------------------------------------------------------------------------
(* Whose token it is.                                                      *)

\* Credential c is what an annotation in use finds in its Secret.
Genuine(c) ==
  \E asked \in Asked :
    Entry(Data[c.secret][c.version], asked) = [kind |-> "credential", key |-> c.key]

\* At no version does a Secret hold two credentials that pods ask for.
OneCredentialPerSecret ==
  \A c, d \in CredentialType :
    /\ Genuine(c) /\ Genuine(d)
    /\ c.secret = d.secret /\ c.version = d.version
    => c = d

\* A source is cached under the Secret and version it was made from, and its
\* token was minted from its credential.
SourcesOwn ==
  /\ \A s \in Secrets :
       sources[s].version # 0 =>
         LET c == minted[sources[s].source]
         IN Genuine(c) /\ c.secret = s /\ c.version = sources[s].version
  /\ \A x \in Sources : cached[x] # NoToken => cached[x].cred = minted[x]

ThreadOwn(t) ==
  /\ thread[t].at \in {"resolve", "acquire", "fetch"} => Genuine(thread[t].cred)
  /\ thread[t].at \in {"acquire", "fetch"} => minted[thread[t].source] = thread[t].cred
  /\ thread[t].at = "use" => thread[t].token.cred = thread[t].cred

OwnInv == TInv /\ SourcesOwn /\ \A t \in Threads : ThreadOwn(t)

\* One thread moves on; what the others rely on stays.
LEMMA OthersOwn ==
  ASSUME OwnInv, NEW t \in Threads, NEW rec, Enter(t, rec), ThreadOwn(t)',
         \A u \in Threads \ {t} : thread[u].at \in {"acquire", "fetch"} =>
           minted'[thread[u].source] = minted[thread[u].source]
  PROVE  \A u \in Threads : ThreadOwn(u)'
  BY DEF OwnInv, ThreadOwn, Enter, TInv, CredTypeOK

LEMMA GenuineAsked ==
  ASSUME NEW s \in Secrets, NEW asked \in Asked,
         Entry(Data[s][version[s]], asked).kind = "credential"
  PROVE  Genuine(Credential(s, version[s], asked))
  <1> DEFINE c == Credential(s, version[s], asked)
  <1>1. c.secret = s /\ c.version = version[s] /\ c.key = Entry(Data[s][version[s]], asked).key
    BY DEF Credential
  <1>2. Entry(Data[s][version[s]], asked) = [kind |-> "credential", key |-> c.key]
    BY <1>1 DEF Entry
  <1> QED
    BY <1>1, <1>2 DEF Genuine

LEMMA OwnInvNext ==
  ASSUME OwnInv, [CredNext]_credVars, OneCredentialPerSecret
  PROVE  OwnInv'
  <1>0. TInv'
    BY TInvNext DEF OwnInv
  <1> USE DEF OwnInv, TInv, CredTypeOK
  <1> DEFINE Goal == SourcesOwn' /\ \A t \in Threads : ThreadOwn(t)'
  <1> SUFFICES Goal
    BY <1>0
  <1>1. ASSUME NEW t \in Threads, NEW s \in Secrets, NEW asked \in Asked, Asks(t, s, asked)
        PROVE  Goal
    <2> DEFINE cred == Credential(s, version[s], asked)
               raw == [cred |-> cred, until |-> Never, dies |-> Never]
               asking == [Idle EXCEPT !.at = "resolve", !.cred = cred]
               using == [Idle EXCEPT !.at = "use", !.cred = cred, !.since = clock, !.token = raw]
    <2>1. UNCHANGED <<sources, minted, cached>>
      BY <1>1 DEF Asks, ReadCredential, ReadRawToken
    <2>2. SourcesOwn'
      BY <2>1 DEF SourcesOwn
    <2>3. CASE Enter(t, asking) /\ Entry(Data[s][version[s]], asked).kind = "credential"
      <3>1. Genuine(cred)
        BY <2>3, GenuineAsked
      <3>2. thread'[t].at = "resolve" /\ thread'[t].cred = cred
        BY <2>3 DEF Enter, Idle
      <3>3. ThreadOwn(t)'
        BY <3>1, <3>2 DEF ThreadOwn
      <3> QED
        BY <2>1, <2>2, <2>3, <3>3, OthersOwn
    <2>4. CASE Enter(t, using)
      <3>1. using.at = "use" /\ using.cred = cred /\ using.token.cred = cred
        BY DEF Idle
      <3>2. thread'[t] = using
        BY <2>4 DEF Enter
      <3>3. ThreadOwn(t)'
        BY <3>1, <3>2 DEF ThreadOwn
      <3> QED
        BY <2>1, <2>2, <2>4, <3>3, OthersOwn
    <2> QED
      BY <1>1, <2>3, <2>4 DEF Asks, ReadCredential, ReadRawToken
  <1>2. ASSUME NEW t \in Threads, tokenSourceForSecret(t)
        PROVE  Goal
    <2> DEFINE c == thread[t].cred
               s == thread[t].cred.secret
    <2>1. c \in CredentialType /\ s \in Secrets /\ c.version # 0 /\ Genuine(c)
      BY <1>2 DEF tokenSourceForSecret, At, ThreadOwn, ThreadShape, CredentialType, Versions
    <2>2. PICK x \in Sources :
            /\ IF sources[s].version = c.version
               THEN x = sources[s].source /\ UNCHANGED <<sources, minted, cached>>
               ELSE NewSource(s, c, x)
            /\ Enter(t, [thread[t] EXCEPT !.at = "acquire", !.source = x])
      BY <1>2 DEF tokenSourceForSecret
    <2>3. thread'[t].at = "acquire" /\ thread'[t].source = x /\ thread'[t].cred = c
      BY <2>2 DEF Enter
    <2>4. CASE sources[s].version = c.version
      <3>1. x = sources[s].source /\ UNCHANGED <<sources, minted, cached>>
        BY <2>2, <2>4
      <3>2. /\ Genuine(minted[x]) /\ minted[x].secret = s /\ minted[x].version = c.version
            /\ minted[x] \in CredentialType
        BY <2>1, <2>4, <3>1 DEF SourcesOwn
      <3>3. minted[x] = c
        BY <2>1, <3>2 DEF OneCredentialPerSecret
      <3>4. ThreadOwn(t)'
        BY <2>1, <2>3, <3>1, <3>3 DEF ThreadOwn
      <3> QED
        BY <2>2, <3>1, <3>4, OthersOwn DEF SourcesOwn
    <2>5. CASE NewSource(s, c, x)
      <3>1. /\ minted'[x] = c /\ cached'[x] = NoToken
            /\ \A y \in Sources \ {x} : minted'[y] = minted[y] /\ cached'[y] = cached[y]
            /\ sources'[s] = [version |-> c.version, source |-> x]
            /\ \A r \in Secrets \ {s} : sources'[r] = sources[r] /\ sources[r].source # x
            /\ \A u \in Threads : thread[u].source # x
        BY <2>1, <2>5 DEF NewSource, Unreachable
      <3>2. ThreadOwn(t)'
        BY <2>1, <2>3, <3>1 DEF ThreadOwn
      <3>3. \A u \in Threads \ {t} : thread[u].at \in {"acquire", "fetch"} =>
              minted'[thread[u].source] = minted[thread[u].source]
        BY <3>1 DEF ThreadShape
      <3>4. SourcesOwn'
        BY <2>1, <3>1 DEF SourcesOwn
      <3> QED
        BY <2>2, <3>2, <3>3, <3>4, OthersOwn
    <2> QED
      BY <2>2, <2>4, <2>5
  <1>3. ASSUME NEW t \in Threads, CachedToken(t)
        PROVE  Goal
    <2> DEFINE x == thread[t].source
               rec == [thread[t] EXCEPT !.at = "use", !.source = NoSource,
                                        !.since = clock, !.token = cached[x]]
    <2>1. Enter(t, rec) /\ UNCHANGED <<sources, minted, cached>>
      BY <1>3 DEF CachedToken
    <2>2. x \in Sources /\ minted[x] = thread[t].cred /\ cached[x].cred = minted[x]
      BY <1>3 DEF CachedToken, Usable, At, ThreadShape, ThreadOwn, SourcesOwn
    <2>3. ThreadOwn(t)'
      BY <2>1, <2>2 DEF ThreadOwn, Enter
    <2> QED
      BY <2>1, <2>3, OthersOwn DEF SourcesOwn
  <1>4. ASSUME NEW t \in Threads, FetchBegins(t)
        PROVE  Goal
    <2> DEFINE rec == [thread[t] EXCEPT !.at = "fetch", !.since = clock]
    <2>1. Enter(t, rec) /\ UNCHANGED <<sources, minted, cached>> /\ thread[t].at = "acquire"
      BY <1>4 DEF FetchBegins, At
    <2>2. ThreadOwn(t)'
      BY <2>1 DEF ThreadOwn, Enter
    <2> QED
      BY <2>1, <2>2, OthersOwn DEF SourcesOwn
  <1>5. ASSUME NEW t \in Threads, FetchAnswers(t)
        PROVE  Goal
    <2> DEFINE x == thread[t].source
    <2>1. x \in Sources /\ minted[x] = thread[t].cred /\ UNCHANGED <<sources, minted>>
      BY <1>5 DEF FetchAnswers, At, ThreadShape, ThreadOwn
    <2>2. PICK token :
            /\ token.cred = minted[x]
            /\ cached' = [cached EXCEPT ![x] = token]
            /\ Enter(t, [thread[t] EXCEPT !.at = "use", !.source = NoSource, !.since = clock,
                          !.token = token])
      BY <1>5 DEF FetchAnswers, Minted
    <2>3. ThreadOwn(t)'
      BY <2>1, <2>2 DEF ThreadOwn, Enter
    <2>4. SourcesOwn'
      BY <2>1, <2>2 DEF SourcesOwn
    <2> QED
      BY <2>1, <2>2, <2>3, <2>4, OthersOwn
  <1>6. ASSUME NEW t \in Threads, FetchFails(t) \/ UseEnds(t)
        PROVE  Goal
    <2>1. Enter(t, Idle) /\ UNCHANGED <<sources, minted, cached>>
      BY <1>6 DEF FetchFails, UseEnds
    <2>2. ThreadOwn(t)'
      BY <2>1 DEF ThreadOwn, Enter, Idle
    <2> QED
      BY <2>1, <2>2, OthersOwn DEF SourcesOwn
  <1>7. CASE UNCHANGED <<sources, minted, cached, thread>>
    BY <1>7 DEF SourcesOwn, ThreadOwn
  <1> QED
    BY <1>1, <1>2, <1>3, <1>4, <1>5, <1>6, <1>7
    DEF CredNext, TakesMutex, FetchEnds, SecretUpdated, Tick, credVars

\* With one credential per Secret, a token is minted from the credential its
\* pod's annotations name, at the version the call has read, whatever is
\* rotated meanwhile (token.go:143-148).
THEOREM TokensAreOwn ==
  ASSUME OneCredentialPerSecret
  PROVE  CredSpec => []TokenOfOwnCredential
  <1>1. CredInit => OwnInv
    BY TInvInit DEF CredInit, OwnInv, SourcesOwn, ThreadOwn, Idle
  <1>2. OwnInv /\ [CredNext]_credVars => OwnInv'
    BY OwnInvNext
  <1>3. OwnInv => TokenOfOwnCredential
    BY DEF OwnInv, ThreadOwn, TokenOfOwnCredential, At
  <1> QED
    BY <1>1, <1>2, <1>3, PTL DEF CredSpec

-----------------------------------------------------------------------------
(* When a token is replaced.                                               *)

\* A thread that fetches holds the mutex of its source, and had found the
\* cached token due, which nobody has replaced since.
FetchIsDue(t) ==
  At(t, "fetch") =>
    LET x == thread[t].source
    IN lock[x] = t /\ (cached[x] = NoToken \/ thread[t].since + Leeway >= cached[x].until)

DueInv == TInv /\ \A t \in Threads : FetchIsDue(t)

\* Sources and their tokens change only in these steps.
LEMMA CacheWriters ==
  ASSUME [CredNext]_credVars
  PROVE  \/ UNCHANGED <<minted, cached, lock, thread>>
         \/ \E t \in Threads : tokenSourceForSecret(t) \/ FetchBegins(t) \/ FetchEnds(t)
         \/ /\ UNCHANGED <<minted, cached, lock>>
            /\ \E t \in Threads : \E rec : /\ Enter(t, rec) /\ rec.at # "fetch"
                                         /\ thread[t].at # "fetch"
  <1>1. ASSUME NEW t \in Threads, NEW s \in Secrets, NEW asked \in Asked, Asks(t, s, asked)
        PROVE  /\ UNCHANGED <<minted, cached, lock>>
               /\ \E rec : Enter(t, rec) /\ rec.at # "fetch" /\ thread[t].at # "fetch"
    BY <1>1 DEF Asks, ReadCredential, ReadRawToken, Idle, At
  <1>2. ASSUME NEW t \in Threads, CachedToken(t)
        PROVE  /\ UNCHANGED <<minted, cached, lock>>
               /\ \E rec : Enter(t, rec) /\ rec.at # "fetch" /\ thread[t].at # "fetch"
    <2> DEFINE rec == [thread[t] EXCEPT !.at = "use", !.source = NoSource,
                                        !.since = clock, !.token = cached[thread[t].source]]
    <2>1. Enter(t, rec) /\ UNCHANGED <<minted, cached, lock>> /\ thread[t].at # "fetch"
      BY <1>2 DEF CachedToken, At
    <2>2. rec.at # "fetch"
      BY <1>2 DEF CachedToken, At
    <2> QED
      BY <2>1, <2>2
  <1>3. ASSUME NEW t \in Threads, UseEnds(t)
        PROVE  /\ UNCHANGED <<minted, cached, lock>>
               /\ \E rec : Enter(t, rec) /\ rec.at # "fetch" /\ thread[t].at # "fetch"
    BY <1>3 DEF UseEnds, Idle, At
  <1> QED
    BY <1>1, <1>2, <1>3 DEF CredNext, TakesMutex, SecretUpdated, Tick, credVars

LEMMA DueInvNext ==
  ASSUME DueInv, [CredNext]_credVars
  PROVE  DueInv'
  <1>0. TInv'
    BY TInvNext DEF DueInv
  <1> USE DEF DueInv, TInv, CredTypeOK, At, Enter
  <1> SUFFICES ASSUME NEW u \in Threads, thread'[u].at = "fetch"
               PROVE  LET x == thread'[u].source
                      IN /\ lock'[x] = u
                         /\ \/ cached'[x] = NoToken
                            \/ thread'[u].since + Leeway >= cached'[x].until
    BY <1>0 DEF FetchIsDue
  <1> DEFINE x == thread[u].source
  <1>1. CASE UNCHANGED <<minted, cached, lock, thread>>
    BY <1>1 DEF FetchIsDue
  <1>2. ASSUME NEW t \in Threads, tokenSourceForSecret(t)
        PROVE  LET y == thread'[u].source
               IN lock'[y] = u /\ (cached'[y] = NoToken \/ thread'[u].since + Leeway >= cached'[y].until)
    <2>1. u # t /\ thread'[u] = thread[u] /\ lock' = lock
      BY <1>2 DEF tokenSourceForSecret
    <2>2. x \in Sources
      BY <2>1 DEF ThreadShape
    <2>3. cached'[x] = cached[x]
      BY <1>2, <2>2 DEF tokenSourceForSecret, NewSource, Unreachable
    <2> QED
      BY <2>1, <2>3 DEF FetchIsDue
  <1>3. ASSUME NEW t \in Threads, FetchBegins(t)
        PROVE  LET y == thread'[u].source
               IN lock'[y] = u /\ (cached'[y] = NoToken \/ thread'[u].since + Leeway >= cached'[y].until)
    <2> DEFINE z == thread[t].source
    <2>1. /\ thread[t].at = "acquire" /\ z \in Sources /\ lock[z] = NoThread
          /\ lock' = [lock EXCEPT ![z] = t] /\ cached' = cached
          /\ thread' = [thread EXCEPT ![t] = [thread[t] EXCEPT !.at = "fetch", !.since = clock]]
      BY <1>3 DEF FetchBegins, ThreadShape
    <2>2. CASE u = t
      <3>1. thread'[u].source = z /\ thread'[u].since = clock
        BY <2>1, <2>2
      <3>2. cached[z] = NoToken \/ clock + Leeway >= cached[z].until
        <4>1. clock \in Nat /\ Leeway \in Nat
          BY CredentialsAssumption
        <4>2. cached[z] # NoToken => cached[z].until \in Nat
          BY <2>1 DEF TokenType
        <4>3. cached[z] = NoToken \/ ~(clock + Leeway < cached[z].until)
          BY <1>3 DEF FetchBegins, Usable
        <4> QED
          BY <4>1, <4>2, <4>3
      <3> QED
        BY <2>1, <2>2, <3>1, <3>2
    <2>3. CASE u # t
      <3>1. thread'[u] = thread[u] /\ lock[x] = u
        BY <2>1, <2>3 DEF FetchIsDue
      <3>2. x # z
        BY <2>1, <3>1, CredentialsAssumption
      <3> QED
        BY <2>1, <3>1, <3>2 DEF FetchIsDue
    <2> QED
      BY <2>2, <2>3
  <1>4. ASSUME NEW t \in Threads, FetchEnds(t)
        PROVE  LET y == thread'[u].source
               IN lock'[y] = u /\ (cached'[y] = NoToken \/ thread'[u].since + Leeway >= cached'[y].until)
    <2> DEFINE z == thread[t].source
    <2>1. thread[t].at = "fetch" /\ lock[z] = t /\ z \in Sources
      BY <1>4 DEF FetchEnds, FetchAnswers, FetchFails, FetchIsDue, ThreadShape
    <2>2. u # t /\ thread'[u] = thread[u]
      <3>1. CASE FetchFails(t)
        BY <3>1 DEF FetchFails, Idle
      <3>2. CASE FetchAnswers(t)
        <4>1. PICK token : Enter(t, [thread[t] EXCEPT !.at = "use", !.source = NoSource,
                                                      !.since = clock, !.token = token])
          BY <3>2 DEF FetchAnswers
        <4> QED
          BY <4>1
      <3> QED
        BY <1>4, <3>1, <3>2 DEF FetchEnds
    <2>3. lock[x] = u /\ x # z
      BY <2>1, <2>2 DEF FetchIsDue
    <2>4. lock'[x] = lock[x] /\ cached'[x] = cached[x]
      BY <1>4, <2>3 DEF FetchEnds, FetchAnswers, FetchFails
    <2> QED
      BY <2>2, <2>4 DEF FetchIsDue
  <1>5. ASSUME UNCHANGED <<minted, cached, lock>>,
               NEW t \in Threads, NEW rec, Enter(t, rec), rec.at # "fetch"
        PROVE  LET y == thread'[u].source
               IN lock'[y] = u /\ (cached'[y] = NoToken \/ thread'[u].since + Leeway >= cached'[y].until)
    BY <1>5 DEF FetchIsDue
  <1> QED
    BY <1>1, <1>2, <1>3, <1>4, <1>5, CacheWriters

\* A token is replaced only when it was within the leeway of its end as its
\* replacement was asked for, whatever number of threads wait for the mutex
\* together (auth.go:160-172).
THEOREM RefreshedOnlyWhenDue == CredSpec => RefreshOnlyWhenDue
  <1> DEFINE Due(x) ==
        cached[x] # NoToken /\ cached'[x] \notin {cached[x], NoToken} =>
          \E t \in Threads : /\ At(t, "fetch") /\ thread[t].source = x
                             /\ thread[t].since + Leeway >= cached[x].until
                             /\ thread'[t].token = cached'[x]
  <1>1. CredInit => DueInv
    BY TInvInit DEF CredInit, DueInv, FetchIsDue, At, Idle
  <1>2. DueInv /\ [CredNext]_credVars => DueInv'
    BY DueInvNext
  <1>3. DueInv /\ [CredNext]_credVars => [\A x \in Sources : Due(x)]_credVars
    <2> SUFFICES ASSUME DueInv, [CredNext]_credVars, NEW x \in Sources,
                        cached[x] # NoToken, cached'[x] \notin {cached[x], NoToken}
                 PROVE  \E t \in Threads : /\ At(t, "fetch") /\ thread[t].source = x
                                           /\ thread[t].since + Leeway >= cached[x].until
                                           /\ thread'[t].token = cached'[x]
      OBVIOUS
    <2> USE DEF DueInv, TInv, CredTypeOK
    <2>1. ASSUME NEW t \in Threads, tokenSourceForSecret(t)
          PROVE  FALSE
      BY <2>1 DEF tokenSourceForSecret, NewSource
    <2>2. PICK t \in Threads : FetchBegins(t) \/ FetchEnds(t)
      BY <2>1, CacheWriters
    <2>3. FetchAnswers(t)
      BY <2>2 DEF FetchBegins, FetchEnds, FetchFails
    <2>4. At(t, "fetch") /\ thread[t].source = x
      BY <2>3 DEF FetchAnswers
    <2>5. thread'[t].token = cached'[x]
      <3>1. PICK token : /\ cached' = [cached EXCEPT ![x] = token]
                         /\ Enter(t, [thread[t] EXCEPT !.at = "use", !.source = NoSource,
                                                       !.since = clock, !.token = token])
        BY <2>3, <2>4 DEF FetchAnswers
      <3> QED
        BY <3>1 DEF Enter
    <2>6. thread[t].since + Leeway >= cached[x].until
      BY <2>4 DEF FetchIsDue
    <2> QED
      BY <2>4, <2>5, <2>6
  <1> QED
    BY <1>1, <1>2, <1>3, PTL DEF CredSpec, RefreshOnlyWhenDue
=============================================================================
