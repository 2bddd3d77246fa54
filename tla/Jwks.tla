-------------------------------- MODULE Jwks --------------------------------
(***************************************************************************)
(* Discovery and the cache of the provider's signing keys: concurrent       *)
(* requests call EnsureOidcDiscovery (src/src/main.go), and then            *)
(* validateTokenLocally (src/src/oidc.go), which loads the keys when it     *)
(* must (src/src/oidc/jwks.go) and looks the token's key up in them.        *)
(*                                                                         *)
(* EnsureLoaded holds the handler's lock while it fetches; Keyfunc reads    *)
(* the two slices without it, three times for each entry it looks at.  Each *)
(* of these reads, and each assignment another request can see, is a step.  *)
(* A read sees a slice as it was before or after an assignment, never torn. *)
(* The keys that are installed are those the provider published when it     *)
(* answered; CacheDate is taken later, when they are installed.             *)
(***************************************************************************)
EXTENDS Integers, Sequences

CONSTANTS Requests,
          RsaKids, EcdsaKids,  \* the kids of the provider's keys
          OtherKid,            \* the kid of a token whose algorithm is not supported
          KeySets,             \* the key sets the provider may publish
          Tokens,              \* the tokens that requests carry
          NoOne,               \* a lock nobody holds
          MinCache,            \* five minutes
          MaxCache,            \* six hours
          Latency,             \* bound of the time from the provider's answer to CacheDate
          MaxTime              \* bound of the clock

Kids == RsaKids \cup EcdsaKids

\* What extractKeys finds in a published key set; <<>> is Go's nil slice.
PublishedKeys == [rsa : Seq(RsaKids), ecdsa : Seq(EcdsaKids)]

ASSUME JwksAssumption ==
  /\ RsaKids \cap EcdsaKids = {} /\ OtherKid \notin Kids
  /\ KeySets \subseteq PublishedKeys
  /\ Tokens \subseteq [kid : Kids \cup {OtherKid}, kind : {"valid", "expired", "invalid"}]
  /\ NoOne \notin Requests
  /\ MinCache \in Nat /\ MaxCache \in Nat /\ MinCache <= MaxCache
  /\ Latency \in Nat /\ MaxTime \in Nat

Never == -1 - MaxCache - Latency

VARIABLES clock,
          provider,     \* the keys it publishes, and when each was published or withdrawn
          document,     \* DiscoveryDocument is set
          discovering,  \* the request that holds toa.Lock
          jwks,         \* toa.Jwks: Url is set, RsaKeys, EcdsaKeys, CacheDate
          loading,      \* the request that holds jwks.Lock
          answer,       \* the keys it is installing, and when the provider published them
          request,      \* the requests
          settled       \* history: requests whose token nothing prevents from being accepted

vars == <<clock, provider, document, discovering, jwks, loading, answer, request, settled>>

FreshHandler == [url |-> FALSE, rsa |-> <<>>, ecdsa |-> <<>>, cacheDate |-> Never]
NoKeys == [rsa |-> <<>>, ecdsa |-> <<>>]
NoAnswer == [rsa |-> <<>>, ecdsa |-> <<>>, date |-> Never]

NoToken == [kid |-> OtherKid, kind |-> "invalid"]
Resting == [pc |-> "idle", token |-> NoToken, attempt |-> 1, index |-> 1,
            since |-> Never, verdict |-> "none"]

TypeOK ==
  /\ clock \in 0..MaxTime
  /\ provider \in [keys : KeySets, since : [Kids -> Int]]
  /\ document \in BOOLEAN
  /\ discovering \in Requests \cup {NoOne}
  /\ jwks \in [url : BOOLEAN, rsa : Seq(RsaKids), ecdsa : Seq(EcdsaKids), cacheDate : Int]
  /\ loading \in Requests \cup {NoOne}
  /\ answer \in [rsa : Seq(RsaKids), ecdsa : Seq(EcdsaKids), date : Int]
  /\ request \in [Requests ->
       [pc : {"idle", "discover", "discovering", "publish", "ensure", "fetch", "decode", "install",
              "scan", "compare", "take", "done"},
        token : Tokens \cup {NoToken}, attempt : {1, 2}, index : Nat \ {0}, since : Int,
        verdict : {"none", "error", "panic", "expired", "refused", "accepted"}]]
  /\ settled \subseteq Requests

At(r, where) == request[r].pc = where

Goto(r, next) == request' = [request EXCEPT ![r] = next]

Answer(r, verdict) ==
  Goto(r, [request[r] EXCEPT !.pc = "done", !.verdict = verdict, !.attempt = 1, !.index = 1])

Elements(s) == {s[i] : i \in DOMAIN s}
Published(keys) == Elements(keys.rsa) \cup Elements(keys.ecdsa)

(***************************************************************************)
(* The provider and time                                                    *)
(***************************************************************************)
\* From the provider's answer to its installation no more than Latency passes.
Tick ==
  /\ clock < MaxTime /\ clock' = clock + 1
  /\ \A r \in Requests : At(r, "decode") \/ At(r, "install") => clock < answer.date + Latency
  /\ UNCHANGED <<provider, document, discovering, jwks, loading, answer, request, settled>>

Rotate(keys) ==
  /\ keys # provider.keys
  /\ provider' = [keys |-> keys,
                  since |-> [k \in Kids |->
                    IF (k \in Published(keys)) = (k \in Published(provider.keys))
                    THEN provider.since[k] ELSE clock]]
  /\ settled' = {r \in settled : request[r].token.kid \in Published(keys)}
  /\ UNCHANGED <<clock, document, discovering, jwks, loading, answer, request>>

(***************************************************************************)
(* ServeHTTP, EnsureOidcDiscovery                                           *)
(***************************************************************************)
\* The provider has published the token's key for longer than the time in which a
\* reload may be refused, and an answer may be on its way.
LongPublished(kid) ==
  kid \in Published(provider.keys) /\ clock - provider.since[kid] > MinCache + Latency

\* The discovery document has been published, but not the URL of the keys.
HalfDiscovered == document /\ ~jwks.url

\* DiscoveryDocument is looked at without the lock.
Begin(r, token) ==
  /\ At(r, "idle")
  /\ Goto(r, [Resting EXCEPT !.token = token, !.pc = IF document THEN "ensure" ELSE "discover"])
  /\ settled' = IF token.kind = "valid" /\ LongPublished(token.kid) /\ ~HalfDiscovered
                THEN settled \cup {r} ELSE settled
  /\ UNCHANGED <<clock, provider, document, discovering, jwks, loading, answer>>

\* Another request was faster: the lock is released again.
FindDiscovered(r) ==
  /\ At(r, "discover") /\ discovering = NoOne /\ document
  /\ Goto(r, [request[r] EXCEPT !.pc = "ensure"])
  /\ UNCHANGED <<clock, provider, document, discovering, jwks, loading, answer, settled>>

\* Fault: no second check under the lock.
BeginDiscovery_Fault(r) ==
  /\ At(r, "discover") /\ discovering = NoOne
  /\ discovering' = r
  /\ jwks' = FreshHandler
  /\ Goto(r, [request[r] EXCEPT !.pc = "discovering"])
  /\ UNCHANGED <<clock, provider, document, loading, answer, settled>>

BeginDiscovery(r) ==
  /\ At(r, "discover") /\ discovering = NoOne /\ ~document
  /\ discovering' = r
  /\ jwks' = FreshHandler
  /\ Goto(r, [request[r] EXCEPT !.pc = "discovering"])
  /\ UNCHANGED <<clock, provider, document, loading, answer, settled>>

DiscoveryFails(r) ==
  /\ At(r, "discovering")
  /\ discovering' = NoOne
  /\ Answer(r, "error")
  /\ settled' = settled \ {r}
  /\ UNCHANGED <<clock, provider, document, jwks, loading, answer>>

DiscoverySucceeds(r) ==
  /\ At(r, "discovering")
  /\ document' = TRUE
  /\ Goto(r, [request[r] EXCEPT !.pc = "publish"])
  /\ UNCHANGED <<clock, provider, discovering, jwks, loading, answer, settled>>

PublishUrl(r) ==
  /\ At(r, "publish")
  /\ jwks' = [jwks EXCEPT !.url = TRUE]
  /\ discovering' = NoOne
  /\ Goto(r, [request[r] EXCEPT !.pc = "ensure"])
  /\ UNCHANGED <<clock, provider, document, loading, answer, settled>>

(***************************************************************************)
(* EnsureLoaded; the second attempt of validateTokenLocally forces a reload *)
(***************************************************************************)
\* Fault: a forced reload is not limited.
MustReload_Fault(force) ==
  \/ jwks.rsa = <<>> /\ jwks.ecdsa = <<>>
  \/ jwks.cacheDate < clock - MaxCache
  \/ force

\* Fault: the age of the keys is only looked at when a reload is forced.
MustReloadForcedOnly_Fault(force) ==
  \/ jwks.rsa = <<>> /\ jwks.ecdsa = <<>>
  \/ force /\ jwks.cacheDate < clock - MinCache

MustReload(force) ==
  \/ jwks.rsa = <<>> /\ jwks.ecdsa = <<>>
  \/ jwks.cacheDate < clock - MaxCache
  \/ force /\ jwks.cacheDate < clock - MinCache

\* Fault: the second call of EnsureLoaded does not force a reload either.
Forced_Fault(r) == FALSE

Forced(r) == request[r].attempt = 2

\* Where the first call of EnsureLoaded stands in time.
Since(r) == IF Forced(r) THEN request[r].since ELSE clock

KeysAreLoaded(r) ==
  /\ At(r, "ensure") /\ loading = NoOne /\ ~MustReload(Forced(r))
  /\ Goto(r, [request[r] EXCEPT !.pc = "scan", !.since = Since(r)])
  /\ UNCHANGED <<clock, provider, document, discovering, jwks, loading, answer, settled>>

BeginReload(r) ==
  /\ At(r, "ensure") /\ loading = NoOne /\ MustReload(Forced(r))
  /\ loading' = r
  /\ Goto(r, [request[r] EXCEPT !.pc = "fetch", !.since = Since(r)])
  /\ UNCHANGED <<clock, provider, document, discovering, jwks, answer, settled>>

\* No URL, no answer, one that is not JSON, or one without usable keys: the
\* request fails, whatever keys are cached.
ReloadFails(r) ==
  /\ At(r, "fetch")
  /\ loading' = NoOne
  /\ Answer(r, "error")
  /\ settled' = settled \ {r}
  /\ UNCHANGED <<clock, provider, document, discovering, jwks, answer>>

\* Requests that look a key up in a slice while it is replaced, and get no
\* other chance: it is their second attempt, or they read past its new end.
Overtaken(kids, slice) ==
  {r \in Requests : /\ request[r].pc \in {"scan", "compare", "take"}
                    /\ request[r].token.kid \in kids
                    /\ \/ request[r].attempt = 2
                       \/ ~At(r, "scan") /\ request[r].index > Len(slice)}

\* The provider answers with the keys it publishes now.
Fetch(r) ==
  /\ At(r, "fetch") /\ jwks.url /\ provider.keys # NoKeys
  /\ answer' = [rsa |-> provider.keys.rsa, ecdsa |-> provider.keys.ecdsa, date |-> clock]
  /\ Goto(r, [request[r] EXCEPT !.pc = "decode"])
  /\ UNCHANGED <<clock, provider, document, discovering, jwks, loading, settled>>

InstallRsa(r) ==
  /\ At(r, "decode")
  /\ jwks' = [jwks EXCEPT !.rsa = answer.rsa]
  /\ Goto(r, [request[r] EXCEPT !.pc = "install"])
  /\ settled' = settled \ Overtaken(RsaKids, answer.rsa)
  /\ UNCHANGED <<clock, provider, document, discovering, loading, answer>>

InstallEcdsa(r) ==
  /\ At(r, "install")
  /\ jwks' = [jwks EXCEPT !.ecdsa = answer.ecdsa, !.cacheDate = clock]
  /\ answer' = NoAnswer
  /\ loading' = NoOne
  /\ Goto(r, [request[r] EXCEPT !.pc = "scan"])
  /\ settled' = settled \ Overtaken(EcdsaKids, answer.ecdsa)
  /\ UNCHANGED <<clock, provider, document, discovering>>

(***************************************************************************)
(* Keyfunc and ParseWithClaims                                              *)
(***************************************************************************)
\* The slice that is searched, by the algorithm of the token.
Slice(r) ==
  CASE request[r].token.kid \in RsaKids -> jwks.rsa
    [] request[r].token.kid \in EcdsaKids -> jwks.ecdsa
    [] OTHER -> <<>>

\* Fault: every failure leads to another reload.
ParseFails_Fault(r) ==
  Goto(r, [request[r] EXCEPT !.pc = "ensure", !.attempt = @ + 1, !.index = 1])

\* The first failure leads to a forced reload, the second one is final.
ParseFails(r) ==
  IF request[r].attempt = 1
  THEN Goto(r, [request[r] EXCEPT !.pc = "ensure", !.attempt = 2, !.index = 1])
  ELSE Answer(r, "refused")

Lookup(r, where) ==
  /\ At(r, where)
  /\ UNCHANGED <<clock, provider, document, discovering, jwks, loading, answer, settled>>

\* i < len(keys)
Scan(r) ==
  /\ Lookup(r, "scan")
  /\ IF request[r].index <= Len(Slice(r))
     THEN Goto(r, [request[r] EXCEPT !.pc = "compare"])
     ELSE ParseFails(r)

\* kid == keys[i].kid
Compare(r) ==
  /\ Lookup(r, "compare")
  /\ IF request[r].index > Len(Slice(r)) THEN Answer(r, "panic")
     ELSE IF Slice(r)[request[r].index] = request[r].token.kid
     THEN Goto(r, [request[r] EXCEPT !.pc = "take"])
     ELSE Goto(r, [request[r] EXCEPT !.pc = "scan", !.index = @ + 1])

\* return keys[i]; the signature is verified with it, and then the claims.
Take(r) ==
  /\ Lookup(r, "take")
  /\ IF request[r].index > Len(Slice(r)) THEN Answer(r, "panic")
     ELSE IF Slice(r)[request[r].index] # request[r].token.kid \/ request[r].token.kind = "invalid"
     THEN ParseFails(r)
     ELSE Answer(r, IF request[r].token.kind = "expired" THEN "expired" ELSE "accepted")

End(r) ==
  /\ At(r, "done")
  /\ Goto(r, Resting)
  /\ settled' = settled \ {r}
  /\ UNCHANGED <<clock, provider, document, discovering, jwks, loading, answer>>

Init ==
  /\ clock = 0
  /\ \E keys \in KeySets :
       provider = [keys |-> keys, since |-> [k \in Kids |-> Never]]
  /\ document = FALSE /\ discovering = NoOne
  /\ jwks = FreshHandler /\ loading = NoOne /\ answer = NoAnswer
  /\ request = [r \in Requests |-> Resting]
  /\ settled = {}

Proceed(r) ==
  \/ FindDiscovered(r) \/ BeginDiscovery(r) \/ DiscoveryFails(r) \/ DiscoverySucceeds(r)
  \/ PublishUrl(r)
  \/ KeysAreLoaded(r) \/ BeginReload(r) \/ ReloadFails(r)
  \/ Fetch(r) \/ InstallRsa(r) \/ InstallEcdsa(r)
  \/ Scan(r) \/ Compare(r) \/ Take(r) \/ End(r)

Next ==
  \/ \E r \in Requests : Proceed(r) \/ \E token \in Tokens : Begin(r, token)
  \/ \E keys \in KeySets : Rotate(keys)
  \/ Tick

Spec == Init /\ [][Next]_vars

(***************************************************************************)
(* Properties                                                              *)
(***************************************************************************)
\* A valid token signed with a key the provider has been publishing for more
\* than five minutes (and the latency of its answers) is accepted.
SettledTokensAreAccepted ==
  \A r \in settled : At(r, "done") => request[r].verdict = "accepted"

\* A key the provider has withdrawn more than six hours (and the latency of its
\* answers) before the request asked for the cached keys makes no token valid any more.
WithdrawnKeysAreRefused ==
  \A r \in Requests : request[r].verdict = "accepted" =>
    \/ request[r].token.kid \in Published(provider.keys)
    \/ provider.since[request[r].token.kid] >= request[r].since - MaxCache - Latency

\* However many requests fail to find a key at the same time, between two
\* successful loads there are more than five minutes.
LoadsAreSpaced ==
  [][\A r \in Requests : At(r, "install") /\ request'[r].pc # "install" =>
       jwks'.cacheDate > jwks.cacheDate + MinCache]_vars

\* There is one discovery: once a request has found the document, no other
\* request's discovery replaces the handler, its URL or its keys.
DiscoveryIsFinal ==
  [][document => /\ document'
                 /\ jwks.url => jwks'.url
                 /\ jwks'.cacheDate >= jwks.cacheDate]_vars

=============================================================================
