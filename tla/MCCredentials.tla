--------------------------- MODULE MCCredentials ---------------------------
(* Instances of Credentials for TLC.                                       *)
EXTENDS Credentials, TLC

CONSTANT s1

File  == "sf_api.json" :> "file"
Parts == "client_id" :> "text" @@ "jwk" :> "text"
Raw   == "raw" :> "text"
Both  == File @@ "other.json" :> "file"

\* Separate keys are replaced by a credential file; a raw token is beside them.
Rotated == s1 :> <<Parts @@ Raw, File @@ Raw>>

\* Two credentials in one Secret.
Shared == s1 :> <<Both>>

\* Ticks of 30 s would be: leeway 2, token life 20; here lives are shorter.
ShortReplies == {[life |-> 4, expiresIn |-> 4], [life |-> 5, expiresIn |-> 0]}

\* Ten minutes in ticks of 30 s (auth.go:217).
TenMinutes == {[life |-> 20, expiresIn |-> 20]}

SourceSymmetry == Permutations(Sources) \cup Permutations(Threads)
=============================================================================
