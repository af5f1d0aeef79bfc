---------------------------- MODULE Credentials ----------------------------
(***************************************************************************)
(* How a provider thread comes by a bearer token: SecretTokenResolver of   *)
(* pkg/provider/token.go reads the pod's Secret, keeps one token source    *)
(* per Secret, and PrivateKeyJWTTokenSource of pkg/superfacility/auth.go   *)
(* keeps one token per source, fetched under the source's mutex.           *)
(*                                                                         *)
(* The Secret is read, the source looked up, the mutex taken and the token *)
(* fetched in steps of their own, while the Secret is updated, other       *)
(* threads ask for tokens and time passes.  A call that fails before it    *)
(* has changed anything is a stuttering step.                              *)
(***************************************************************************)
EXTENDS Naturals

CONSTANTS
  Secrets,          \* Kubernetes Secrets, namespace/name
  MaxVersion,       \* bound on the resource versions of a Secret
  Data,             \* Data[s][v]: the data of Secret s at version v, a function
                    \* from some data keys to what is found there
  Asked,            \* credentialSecretKey annotations in use, "" for none
  Threads,          \* provider threads
  Sources,          \* token source objects, unreachable ones used again
  NoSource, NoThread, NoToken,
  Replies,          \* token endpoint: [life, expiresIn] (expiresIn 0: not told)
  DefaultLifetime,  \* assumed when the reply does not tell (auth.go:217)
  Leeway,           \* tokenRefreshLeeway (auth.go:25)
  CallTime,         \* the longest a token request takes (auth.go:89)
  UseTime,          \* the longest a handler keeps the token it was given
  MaxTime           \* bound on the clock

Versions == 1 .. MaxVersion

EntryKeys == Asked \cup {"sf_api.json", "client_id", "token", "none"}

CredentialType == [secret : Secrets, version : Versions, key : EntryKeys]

\* until: when the provider takes the token to expire; dies: when it does.
TokenType == [cred : CredentialType, until : Nat, dies : Nat]

ASSUME CredentialsAssumption ==
  /\ MaxVersion \in Nat \ {0}
  /\ NoSource \notin Sources /\ NoThread \notin Threads
  /\ {DefaultLifetime, Leeway, CallTime, UseTime, MaxTime} \subseteq Nat
  /\ NoToken \notin CredentialType \cup TokenType
  /\ Replies \subseteq [life : Nat, expiresIn : Nat]

\* What the token endpoint tells is true, and the default is no guess too high.
ASSUME ReplyAssumption ==
  \A r \in Replies : IF r.expiresIn = 0 THEN r.life >= DefaultLifetime
                                        ELSE r.life = r.expiresIn

\* A token outlives its own fetch and the leeway: ten minutes against one and a
\* half (auth.go:25, 89, 217).
ASSUME LifeAssumption == \A r \in Replies : CallTime + Leeway < r.life

VARIABLES
  clock,    \* the time, in ticks
  version,  \* version[s]: resourceVersion of Secret s
  sources,  \* sources[s]: the resolver's cache, a version and a source
  minted,   \* minted[x]: the credential source x was made from
  cached,   \* cached[x]: the token source x keeps
  lock,     \* lock[x]: the thread that holds the mutex of x
  thread    \* thread[t]: where thread t stands in TokenForPod and after it

credVars == <<clock, version, sources, minted, cached, lock, thread>>

-----------------------------------------------------------------------------
(* Which entry of a Secret the credential comes from (token.go:165-254).   *)

Holds(data, key, kinds) == key \in DOMAIN data /\ data[key] \in kinds

credentialFromJSONKey(data, key) == IF Holds(data, key, {"file"}) THEN key ELSE "none"

\* A jwk entry that is present but blank is not replaced by secret.
credentialFromSeparateKeys(data) ==
  IF /\ Holds(data, "client_id", {"text"})
     /\ \/ Holds(data, "jwk", {"text"})
        \/ Holds(data, "secret", {"text"}) /\ ~Holds(data, "jwk", {"blank"})
  THEN "client_id" ELSE "none"

credentialsFromSecret(data, asked) ==
  IF asked # "" THEN credentialFromJSONKey(data, asked)
  ELSE IF "sf_api.json" \in DOMAIN data THEN credentialFromJSONKey(data, "sf_api.json")
  ELSE credentialFromSeparateKeys(data)

\* Whatever the entry holds is taken for a token unless it is blank.
legacyTokenFromSecret(data, asked) ==
  LET key == IF asked = "" THEN "token" ELSE asked
  IN IF key \in DOMAIN data /\ data[key] # "blank" THEN key ELSE "none"

Entry(data, asked) ==
  LET c == credentialsFromSecret(data, asked)
  IN IF c # "none" THEN [kind |-> "credential", key |-> c]
     ELSE LET l == legacyTokenFromSecret(data, asked)
          IN IF l # "none" THEN [kind |-> "token", key |-> l]
             ELSE [kind |-> "error", key |-> "none"]

Credential(s, v, asked) ==
  [secret |-> s, version |-> v, key |-> Entry(Data[s][v], asked).key]

-----------------------------------------------------------------------------

Idle == [at |-> "idle", cred |-> NoToken, source |-> NoSource, since |-> 0,
         token |-> NoToken]

Never == MaxTime + 1   \* a raw token has no expiry the provider knows of

CredInit ==
  /\ clock = 0
  /\ version = [s \in Secrets |-> 1]
  /\ sources = [s \in Secrets |-> [version |-> 0, source |-> NoSource]]
  /\ minted = [x \in Sources |-> NoToken]
  /\ cached = [x \in Sources |-> NoToken]
  /\ lock = [x \in Sources |-> NoThread]
  /\ thread = [t \in Threads |-> Idle]

At(t, label) == thread[t].at = label
Enter(t, record) == thread' = [thread EXCEPT ![t] = record]

-----------------------------------------------------------------------------
(* TokenForPod (token.go:78).                                              *)

\* The Secret is read from the API server; its version is remembered.
ReadCredential(t, s, asked) ==
  /\ At(t, "idle")
  /\ Entry(Data[s][version[s]], asked).kind = "credential"
  /\ Enter(t, [Idle EXCEPT !.at = "resolve", !.cred = Credential(s, version[s], asked)])
  /\ UNCHANGED <<clock, version, sources, minted, cached, lock>>

\* A legacy Secret: its text is the token.  When it expires nobody in the
\* provider knows; here it does not.
ReadRawToken(t, s, asked) ==
  LET cred == Credential(s, version[s], asked)
  IN /\ At(t, "idle")
     /\ Entry(Data[s][version[s]], asked).kind = "token"
     /\ Enter(t, [Idle EXCEPT !.at = "use", !.cred = cred, !.since = clock,
                              !.token = [cred |-> cred, until |-> Never, dies |-> Never]])
     /\ UNCHANGED <<clock, version, sources, minted, cached, lock>>

Unreachable(x) ==
  /\ \A s \in Secrets : sources[s].source # x
  /\ \A t \in Threads : thread[t].source # x

NewSource(s, cred, x) ==
  /\ Unreachable(x)
  /\ sources' = [sources EXCEPT ![s] = [version |-> cred.version, source |-> x]]
  /\ minted' = [minted EXCEPT ![x] = cred]
  /\ cached' = [cached EXCEPT ![x] = NoToken]

\* Mutant: the source made for an older version of the Secret is kept.
MutTokenSourceForSecret(t) ==
  LET cred == thread[t].cred
      s == cred.secret
  IN /\ At(t, "resolve")
     /\ \E x \in Sources :
          /\ IF sources[s].source # NoSource
             THEN x = sources[s].source /\ UNCHANGED <<sources, minted, cached>>
             ELSE NewSource(s, cred, x)
          /\ Enter(t, [thread[t] EXCEPT !.at = "acquire", !.source = x])
     /\ UNCHANGED <<clock, version, lock>>

\* Mutant: the new source is stored and not returned.
MutTokenSourceForSecretNil(t) ==
  LET cred == thread[t].cred
      s == cred.secret
  IN /\ At(t, "resolve")
     /\ \E x \in Sources :
          IF sources[s].version = cred.version
          THEN /\ x = sources[s].source /\ UNCHANGED <<sources, minted, cached>>
               /\ Enter(t, [thread[t] EXCEPT !.at = "acquire", !.source = x])
          ELSE /\ NewSource(s, cred, x)
               /\ Enter(t, [thread[t] EXCEPT !.at = "acquire"])
     /\ UNCHANGED <<clock, version, lock>>

\* Under the resolver's mutex: the cached source when it was made for the
\* version just read, else a new one in its place.  The cache is keyed by the
\* Secret and not by the entry asked for (token.go:143).
tokenSourceForSecret(t) ==
  LET cred == thread[t].cred
      s == cred.secret
  IN /\ At(t, "resolve")
     /\ \E x \in Sources :
          /\ IF sources[s].version = cred.version
             THEN x = sources[s].source /\ UNCHANGED <<sources, minted, cached>>
             ELSE NewSource(s, cred, x)
          /\ Enter(t, [thread[t] EXCEPT !.at = "acquire", !.source = x])
     /\ UNCHANGED <<clock, version, lock>>

-----------------------------------------------------------------------------
(* PrivateKeyJWTTokenSource.Token (auth.go:155).                           *)

\* Mutant: no leeway.
MutUsable(x) == cached[x] # NoToken /\ clock < cached[x].until

Usable(x) == cached[x] # NoToken /\ clock + Leeway < cached[x].until

CachedToken(t) ==
  LET x == thread[t].source
  IN /\ At(t, "acquire") /\ lock[x] = NoThread
     /\ Usable(x)
     /\ Enter(t, [thread[t] EXCEPT !.at = "use", !.source = NoSource,
                                   !.since = clock, !.token = cached[x]])
     /\ UNCHANGED <<clock, version, sources, minted, cached, lock>>

\* Mutant: the cache is looked at outside the mutex.
MutFetchBegins(t) ==
  LET x == thread[t].source
  IN /\ At(t, "acquire")
     /\ ~Usable(x)
     /\ lock' = [lock EXCEPT ![x] = t]
     /\ Enter(t, [thread[t] EXCEPT !.at = "fetch", !.since = clock])
     /\ UNCHANGED <<clock, version, sources, minted, cached>>

\* The mutex stays taken while the request is on its way.
FetchBegins(t) ==
  LET x == thread[t].source
  IN /\ At(t, "acquire") /\ lock[x] = NoThread
     /\ ~Usable(x)
     /\ lock' = [lock EXCEPT ![x] = t]
     /\ Enter(t, [thread[t] EXCEPT !.at = "fetch", !.since = clock])
     /\ UNCHANGED <<clock, version, sources, minted, cached>>

\* The endpoint mints a token at some moment of the request; the provider
\* counts its life from the moment before the request (auth.go:222).
Minted(cred, since, issued, r) ==
  [cred  |-> cred,
   until |-> since + (IF r.expiresIn = 0 THEN DefaultLifetime ELSE r.expiresIn),
   dies  |-> issued + r.life]

FetchAnswers(t) ==
  LET x == thread[t].source
  IN /\ At(t, "fetch")
     /\ \E r \in Replies, issued \in thread[t].since .. clock :
          LET token == Minted(minted[x], thread[t].since, issued, r)
          IN /\ cached' = [cached EXCEPT ![x] = token]
             /\ Enter(t, [thread[t] EXCEPT !.at = "use", !.source = NoSource,
                                           !.since = clock, !.token = token])
     /\ lock' = [lock EXCEPT ![x] = NoThread]
     /\ UNCHANGED <<clock, version, sources, minted>>

\* Mutant: the error path returns without the mutex being released.
MutFetchFails(t) ==
  /\ At(t, "fetch")
  /\ Enter(t, Idle)
  /\ UNCHANGED <<clock, version, sources, minted, cached, lock>>

FetchFails(t) ==
  /\ At(t, "fetch")
  /\ lock' = [lock EXCEPT ![thread[t].source] = NoThread]
  /\ Enter(t, Idle)
  /\ UNCHANGED <<clock, version, sources, minted, cached>>

\* The handler that asked for the token has made its last call with it.
UseEnds(t) ==
  /\ At(t, "use")
  /\ Enter(t, Idle)
  /\ UNCHANGED <<clock, version, sources, minted, cached, lock>>

-----------------------------------------------------------------------------
(* The rest of the world.                                                  *)

SecretUpdated(s) ==
  /\ version[s] < MaxVersion
  /\ version' = [version EXCEPT ![s] = @ + 1]
  /\ UNCHANGED <<clock, sources, minted, cached, lock, thread>>

\* Requests time out, and handlers end, in the time they have.
Tick ==
  /\ clock < MaxTime
  /\ \A t \in Threads :
       /\ At(t, "fetch") => clock < thread[t].since + CallTime
       /\ At(t, "use") => clock < thread[t].since + UseTime
  /\ clock' = clock + 1
  /\ UNCHANGED <<version, sources, minted, cached, lock, thread>>

TakesMutex(t) == CachedToken(t) \/ FetchBegins(t)
FetchEnds(t) == FetchAnswers(t) \/ FetchFails(t)

Asks(t, s, asked) == ReadCredential(t, s, asked) \/ ReadRawToken(t, s, asked)

CredNext ==
  \/ \E t \in Threads : \/ \E s \in Secrets, asked \in Asked : Asks(t, s, asked)
                        \/ tokenSourceForSecret(t) \/ TakesMutex(t) \/ FetchEnds(t)
                        \/ UseEnds(t)
  \/ \E s \in Secrets : SecretUpdated(s)
  \/ Tick

CredSpec == CredInit /\ [][CredNext]_credVars

\* Threads run, requests end, and the mutex is fair to those who wait for it.
CredFairness ==
  \A t \in Threads : /\ WF_credVars(tokenSourceForSecret(t))
                     /\ SF_credVars(TakesMutex(t))
                     /\ WF_credVars(FetchEnds(t))

CredFairSpec == CredSpec /\ CredFairness

-----------------------------------------------------------------------------
(* Properties.                                                             *)

\* A thread waiting for a mutex or holding one has a source, one that uses a
\* token has one.
CredTypeOK ==
  /\ clock \in Nat
  /\ version \in [Secrets -> Versions]
  /\ sources \in [Secrets -> [version : Nat, source : Sources \cup {NoSource}]]
  /\ minted \in [Sources -> CredentialType \cup {NoToken}]
  /\ cached \in [Sources -> TokenType \cup {NoToken}]
  /\ lock \in [Sources -> Threads \cup {NoThread}]
  /\ thread \in [Threads -> [at : {"idle", "resolve", "acquire", "fetch", "use"},
                             cred : CredentialType \cup {NoToken},
                             source : Sources \cup {NoSource}, since : Nat,
                             token : TokenType \cup {NoToken}]]
  /\ \A t \in Threads :
       /\ thread[t].at \in {"resolve", "acquire", "fetch", "use"} => thread[t].cred # NoToken
       /\ thread[t].at \in {"acquire", "fetch"} => thread[t].source # NoSource
       /\ thread[t].at = "use" => thread[t].token # NoToken

\* However long a handler keeps the token it was given, the calls it makes
\* within the leeway of having been given it are made with a token that has not
\* expired, whether the token was fetched for it, cached, or waited for while
\* another thread held the mutex (auth.go:25, 160-173).
TokenLivesThroughLeeway ==
  \A t \in Threads :
    At(t, "use") /\ clock <= thread[t].since + Leeway => clock < thread[t].token.dies

\* No call is made with a token that has expired, however late in the handler
\* (staging.go:265: the wait for a stage-in keeps one token, run StageInToken).
TokenValidWhileUsed ==
  \A t \in Threads : At(t, "use") => clock < thread[t].token.dies

\* The token a pod's calls are made with was minted from the credential its
\* annotations name, at the version of the Secret the call has read
\* (token.go:143-148).
TokenOfOwnCredential ==
  \A t \in Threads : At(t, "use") => thread[t].token.cred = thread[t].cred

\* A token is replaced only when it was within the leeway of its end as its
\* replacement was asked for: threads that wait for the mutex together do not
\* fetch one after the other (auth.go:160-172).
RefreshOnlyWhenDue ==
  [][\A x \in Sources :
       cached[x] # NoToken /\ cached'[x] \notin {cached[x], NoToken} =>
         \E t \in Threads : /\ At(t, "fetch") /\ thread[t].source = x
                            /\ thread[t].since + Leeway >= cached[x].until
                            /\ thread'[t].token = cached'[x]]_credVars

\* Every TokenForPod call comes to an answer, though the mutex is held across
\* a request (auth.go:160-168).
TokenRequestsEnd ==
  \A t \in Threads : thread[t].at \in {"resolve", "acquire", "fetch"} ~>
                       thread[t].at \in {"idle", "use"}
=============================================================================
