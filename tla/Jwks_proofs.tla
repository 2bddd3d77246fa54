---------------------------- MODULE Jwks_proofs ----------------------------
(***************************************************************************)
(* The cache of the keys is type correct, forgets withdrawn keys, is not    *)
(* loaded too often, discovery happens once, and tokens with settled keys   *)
(* are accepted - for any requests, keys, tokens and cache times.           *)
(***************************************************************************)
EXTENDS Jwks, TLAPS

Places == {"idle", "discover", "discovering", "publish", "ensure", "fetch", "decode", "install",
           "scan", "compare", "take", "done"}
Verdicts == {"none", "error", "panic", "expired", "refused", "accepted"}

RequestStates == [pc : Places, token : Tokens \cup {NoToken}, attempt : {1, 2},
                  index : Nat \ {0}, since : Int, verdict : Verdicts]

Loading == {"fetch", "decode", "install"}
Answered == {"decode", "install"}
Reading == {"scan", "compare", "take"}

\* Key k is published, or was so until the given time.
Recent(k, date) == k \in Published(provider.keys) \/ provider.since[k] >= date

CachedKeys == Elements(jwks.rsa) \cup Elements(jwks.ecdsa)

\* Nothing is later than the clock.
TimesAreOver ==
  /\ jwks.cacheDate <= clock
  /\ \A k \in Kids : provider.since[k] <= clock
  /\ \A r \in Requests : request[r].since <= clock

\* What is cached was published when the provider answered.
CacheIsRecent ==
  /\ \A k \in CachedKeys : Recent(k, jwks.cacheDate - Latency)
  /\ \A r \in Requests : request[r].pc \in Answered =>
       \A k \in Published(answer) : Recent(k, answer.date)

\* The request that loads keys holds the lock; the keys it replaces are old.
LoaderHoldsLock ==
  \A r \in Requests :
    /\ request[r].pc \in Loading => loading = r /\ clock > jwks.cacheDate + MinCache
    /\ request[r].pc \in Answered =>
         /\ answer.rsa # <<>> \/ answer.ecdsa # <<>>
         /\ jwks.cacheDate <= answer.date /\ answer.date <= clock /\ clock <= answer.date + Latency
    /\ At(r, "install") => jwks.rsa = answer.rsa

\* Without keys nothing has been loaded yet.
EmptyIsFresh ==
  jwks.rsa = <<>> /\ jwks.ecdsa = <<>> /\ (\A r \in Requests : ~At(r, "install"))
    => jwks.cacheDate = Never

\* Only after the discovery are keys loaded and looked up, and none that are looked
\* at had been too old when the request asked for them.
ReadersAreInTime ==
  \A r \in Requests :
    /\ request[r].pc \in Loading \cup Reading \cup {"publish", "ensure"} => document
    /\ request[r].pc \in Reading => jwks.cacheDate >= request[r].since - MaxCache
    /\ request[r].verdict = "accepted" => At(r, "done") /\ request[r].token.kid \in Kids

IInv ==
  /\ TypeOK /\ TimesAreOver /\ CacheIsRecent /\ LoaderHoldsLock /\ EmptyIsFresh
  /\ ReadersAreInTime /\ WithdrawnKeysAreRefused

\* One field of a request changes at a time.
LEMMA SetField ==
  ASSUME NEW state \in RequestStates
  PROVE  /\ \A x \in Places : [state EXCEPT !.pc = x] \in RequestStates
         /\ \A x \in Tokens : [state EXCEPT !.token = x] \in RequestStates
         /\ \A x \in {1, 2} : [state EXCEPT !.attempt = x] \in RequestStates
         /\ \A x \in Nat \ {0} : [state EXCEPT !.index = x] \in RequestStates
         /\ \A x \in Int : [state EXCEPT !.since = x] \in RequestStates
         /\ \A x \in Verdicts : [state EXCEPT !.verdict = x] \in RequestStates
  BY DEF RequestStates

LEMMA RequestTypes ==
  ASSUME TypeOK
  PROVE  /\ request \in [Requests -> RequestStates]
         /\ \A r \in Requests : request[r] \in RequestStates
         /\ Resting \in RequestStates
         /\ NoToken.kid \notin Kids
  <1>1. request \in [Requests -> RequestStates]
    BY DEF TypeOK, RequestStates, Places, Verdicts
  <1>2. Never \in Int
    BY JwksAssumption DEF Never
  <1>3. Resting \in RequestStates
    BY <1>2 DEF Resting, RequestStates, Places, Verdicts
  <1>4. QED
    BY <1>1, <1>3, JwksAssumption DEF NoToken

LEMMA CachedKeysAreKids == TypeOK => CachedKeys \subseteq Kids /\ Published(answer) \subseteq Kids
                                     /\ \A keys \in KeySets : Published(keys) \subseteq Kids
  <1>1. ASSUME NEW S, NEW seq \in Seq(S)
        PROVE  Elements(seq) \subseteq S
    BY DEF Elements
  <1>2. ASSUME NEW keys \in PublishedKeys
        PROVE  Published(keys) \subseteq Kids
    <2>1. keys.rsa \in Seq(RsaKids) /\ keys.ecdsa \in Seq(EcdsaKids)
      BY DEF PublishedKeys
    <2>2. Elements(keys.rsa) \subseteq RsaKids /\ Elements(keys.ecdsa) \subseteq EcdsaKids
      BY <1>1, <2>1
    <2>3. QED
      BY <2>2 DEF Published, Kids
  <1>3. ASSUME TypeOK
        PROVE  CachedKeys \subseteq Kids
    <2>1. jwks.rsa \in Seq(RsaKids) /\ jwks.ecdsa \in Seq(EcdsaKids)
      BY <1>3 DEF TypeOK
    <2>2. Elements(jwks.rsa) \subseteq RsaKids /\ Elements(jwks.ecdsa) \subseteq EcdsaKids
      BY <1>1, <2>1
    <2>3. QED
      BY <2>2 DEF CachedKeys, Kids
  <1>4. TypeOK => Published(answer) \subseteq Kids
    <2> SUFFICES ASSUME TypeOK PROVE Published(answer) \subseteq Kids
      OBVIOUS
    <2>1. answer.rsa \in Seq(RsaKids) /\ answer.ecdsa \in Seq(EcdsaKids)
      BY DEF TypeOK
    <2>2. Elements(answer.rsa) \subseteq RsaKids /\ Elements(answer.ecdsa) \subseteq EcdsaKids
      BY <1>1, <2>1
    <2>3. QED
      BY <2>2 DEF Published, Kids
  <1>5. QED
    BY <1>2, <1>3, <1>4, JwksAssumption

LEMMA InitIInv == Init => IInv
  <1> SUFFICES ASSUME Init
               PROVE  IInv
    OBVIOUS
  <1>1. Never \in Int /\ Never <= 0
    BY JwksAssumption DEF Never
  <1>2. FreshHandler \in [url : BOOLEAN, rsa : Seq(RsaKids), ecdsa : Seq(EcdsaKids), cacheDate : Int]
    BY <1>1 DEF FreshHandler
  <1>3. NoAnswer \in [rsa : Seq(RsaKids), ecdsa : Seq(EcdsaKids), date : Int]
    BY <1>1 DEF NoAnswer
  <1>4. /\ provider \in [keys : KeySets, since : [Kids -> Int]]
        /\ \A k \in Kids : provider.since[k] = Never
    BY <1>1 DEF Init
  <1>5. Resting \in RequestStates
    BY <1>1 DEF Resting, RequestStates, Places, Verdicts
  <1>6. TypeOK
    <2>1. request \in [Requests -> RequestStates]
      BY <1>5 DEF Init
    <2>2. /\ clock \in 0..MaxTime /\ document \in BOOLEAN /\ settled \subseteq Requests
          /\ discovering \in Requests \cup {NoOne} /\ loading \in Requests \cup {NoOne}
      <3>1. clock = 0 /\ document = FALSE /\ settled = {} /\ discovering = NoOne /\ loading = NoOne
        BY DEF Init
      <3>2. 0 \in 0..MaxTime
        BY JwksAssumption
      <3>3. QED
        BY <3>1, <3>2
    <2>3. /\ jwks \in [url : BOOLEAN, rsa : Seq(RsaKids), ecdsa : Seq(EcdsaKids), cacheDate : Int]
          /\ answer \in [rsa : Seq(RsaKids), ecdsa : Seq(EcdsaKids), date : Int]
      BY <1>2, <1>3 DEF Init
    <2>4. QED
      BY <1>4, <2>1, <2>2, <2>3 DEF TypeOK, RequestStates, Places, Verdicts
  <1>7. /\ jwks.rsa = <<>> /\ jwks.ecdsa = <<>> /\ jwks.cacheDate = Never /\ clock = 0
        /\ \A r \in Requests : /\ request[r].pc = "idle" /\ request[r].since = Never
                              /\ request[r].verdict = "none"
    BY DEF Init, FreshHandler, Resting
  <1>8. TimesAreOver
    BY <1>1, <1>4, <1>7 DEF TimesAreOver
  <1>9. CacheIsRecent
    <2>1. CachedKeys = {}
      BY <1>7 DEF CachedKeys, Elements
    <2>2. QED
      BY <1>7, <2>1 DEF CacheIsRecent, Answered
  <1>10. LoaderHoldsLock /\ EmptyIsFresh /\ ReadersAreInTime /\ WithdrawnKeysAreRefused
    BY <1>7 DEF LoaderHoldsLock, EmptyIsFresh, ReadersAreInTime, WithdrawnKeysAreRefused,
                At, Loading, Answered, Reading
  <1>11. QED
    BY <1>6, <1>8, <1>9, <1>10 DEF IInv

\* A step of one request that leaves the keys, the time and the provider alone.
LEMMA RequestStep ==
  ASSUME IInv, NEW r \in Requests, NEW next \in RequestStates, Goto(r, next),
         UNCHANGED <<clock, provider, answer>>,
         jwks' \in [url : BOOLEAN, rsa : Seq(RsaKids), ecdsa : Seq(EcdsaKids), cacheDate : Int],
         jwks'.rsa = jwks.rsa, jwks'.ecdsa = jwks.ecdsa, jwks'.cacheDate = jwks.cacheDate,
         document' \in BOOLEAN, document => document',
         discovering' \in Requests \cup {NoOne}, settled' \subseteq Requests,
         loading' \in Requests \cup {NoOne},
         \A q \in Requests : q # r /\ request[q].pc \in Loading => loading' = q,
         request[r].pc \notin Answered, next.pc \notin Answered,
         next.since <= clock,
         next.pc \in Loading => loading' = r /\ clock > jwks.cacheDate + MinCache,
         next.pc \in Loading \cup Reading \cup {"publish", "ensure"} => document',
         next.pc \in Reading => jwks.cacheDate >= next.since - MaxCache,
         next.verdict = "accepted" => next.pc = "done" /\ next.token.kid \in Kids
                                      /\ Recent(next.token.kid, next.since - MaxCache - Latency)
  PROVE  IInv'
  <1>1. request \in [Requests -> RequestStates]
    BY RequestTypes DEF IInv
  <1>2. /\ request'[r] = next /\ request' \in [Requests -> RequestStates]
        /\ \A q \in Requests : q # r => request'[q] = request[q]
    BY <1>1 DEF Goto
  <1>3. TypeOK'
    BY <1>2 DEF IInv, TypeOK, RequestStates, Places, Verdicts
  <1>4. TimesAreOver'
    BY <1>2 DEF IInv, TimesAreOver
  <1>5. \A q \in Requests : /\ (request'[q].pc \in Answered) <=> (request[q].pc \in Answered)
                           /\ (request'[q].pc = "install") <=> (request[q].pc = "install")
    BY <1>2 DEF Answered
  <1>6. CacheIsRecent'
    <2>1. CachedKeys' = CachedKeys /\ Published(answer') = Published(answer)
      BY DEF CachedKeys, Published, Elements
    <2>2. \A k \in CachedKeys : Recent(k, jwks'.cacheDate - Latency)
      BY DEF IInv, CacheIsRecent
    <2>3. ASSUME NEW q \in Requests, request'[q].pc \in Answered
          PROVE  \A k \in Published(answer) : Recent(k, answer.date)
      <3>1. request[q].pc \in Answered
        BY <1>2, <2>3 DEF Answered
      <3>2. QED
        BY <3>1, Zenon DEF IInv, CacheIsRecent
    <2>4. QED
      BY <2>1, <2>2, <2>3 DEF CacheIsRecent, Recent, Published, Elements
  <1>7. LoaderHoldsLock'
    BY <1>2, <1>5 DEF IInv, LoaderHoldsLock, At
  <1>8. EmptyIsFresh'
    BY <1>5 DEF IInv, EmptyIsFresh, At
  <1>9. ReadersAreInTime'
    BY <1>2 DEF IInv, ReadersAreInTime, At
  <1>10. WithdrawnKeysAreRefused'
    BY <1>2 DEF IInv, WithdrawnKeysAreRefused, Recent
  <1>11. QED
    BY <1>3, <1>4, <1>6, <1>7, <1>8, <1>9, <1>10 DEF IInv

\* What the invariant says of one request.
LEMMA Facts ==
  ASSUME IInv, NEW r \in Requests
  PROVE  /\ request[r] \in RequestStates /\ request[r].since \in Int /\ request[r].since <= clock
         /\ request[r].index \in Nat /\ request[r].index >= 1
         /\ request[r].verdict = "accepted" =>
              At(r, "done") /\ request[r].token.kid \in Kids
              /\ Recent(request[r].token.kid, request[r].since - MaxCache - Latency)
         /\ request[r].pc \in Loading \cup Reading \cup {"publish", "ensure"} => document
         /\ request[r].pc \in Reading => jwks.cacheDate >= request[r].since - MaxCache
         /\ clock \in Nat /\ jwks.cacheDate \in Int
         /\ jwks \in [url : BOOLEAN, rsa : Seq(RsaKids), ecdsa : Seq(EcdsaKids), cacheDate : Int]
         /\ document \in BOOLEAN /\ discovering \in Requests \cup {NoOne}
         /\ loading \in Requests \cup {NoOne} /\ settled \subseteq Requests
         /\ \A q \in Requests : request[q].pc \in Loading => loading = q
  <1>1. request[r] \in RequestStates
    BY RequestTypes DEF IInv
  <1>2. /\ request[r].since \in Int /\ request[r].index \in Nat /\ request[r].index >= 1
    BY <1>1 DEF RequestStates
  <1>3. /\ clock \in Nat /\ jwks.cacheDate \in Int
        /\ jwks \in [url : BOOLEAN, rsa : Seq(RsaKids), ecdsa : Seq(EcdsaKids), cacheDate : Int]
        /\ document \in BOOLEAN /\ discovering \in Requests \cup {NoOne}
        /\ loading \in Requests \cup {NoOne} /\ settled \subseteq Requests
    BY JwksAssumption DEF IInv, TypeOK
  <1>4. QED
    BY <1>1, <1>2, <1>3 DEF IInv, TimesAreOver, ReadersAreInTime, LoaderHoldsLock,
       WithdrawnKeysAreRefused, Recent

\* A request is answered without its token being accepted.
LEMMA AnswerStep ==
  ASSUME IInv, NEW r \in Requests, request[r].pc \notin Answered,
         NEW verdict \in {"error", "panic", "expired", "refused"}, Answer(r, verdict),
         UNCHANGED <<clock, provider, answer, jwks, document>>,
         discovering' \in Requests \cup {NoOne}, settled' \subseteq Requests,
         loading' \in Requests \cup {NoOne},
         \A q \in Requests : q # r /\ request[q].pc \in Loading => loading' = q
  PROVE  IInv'
  <1> DEFINE next == [request[r] EXCEPT !.pc = "done", !.verdict = verdict, !.attempt = 1,
                                        !.index = 1]
  <1>0. request[r] \in RequestStates
    BY Facts
  <1>1. /\ next \in RequestStates /\ next.pc = "done" /\ next.verdict = verdict
        /\ next.since = request[r].since
    <2>1. "done" \in Places /\ verdict \in Verdicts /\ 1 \in {1, 2} /\ 1 \in Nat \ {0}
      BY DEF Places, Verdicts
    <2>2. next \in RequestStates
      BY <1>0, <2>1, SetField, Zenon
    <2>3. QED
      BY <1>0, <2>2 DEF RequestStates
  <1>2. Goto(r, next)
    BY DEF Answer
  <1>3. next.pc \notin Loading \cup Reading \cup {"publish", "ensure"} \cup Answered /\ next.verdict # "accepted"
    BY <1>1 DEF Loading, Reading, Answered
  <1>4. next.since <= clock
    BY <1>1, Facts
  <1>5. /\ jwks' \in [url : BOOLEAN, rsa : Seq(RsaKids), ecdsa : Seq(EcdsaKids), cacheDate : Int]
        /\ document' \in BOOLEAN
    BY Facts
  <1> HIDE DEF next
  <1>6. QED
    BY <1>1, <1>2, <1>3, <1>4, <1>5, RequestStep

LEMMA BeginStep == IInv => \A r \in Requests, token \in Tokens : Begin(r, token) => IInv'
  <1> SUFFICES ASSUME IInv, NEW r \in Requests, NEW token \in Tokens, Begin(r, token)
               PROVE  IInv'
    OBVIOUS
  <1> DEFINE next == [Resting EXCEPT !.token = token,
                                     !.pc = IF document THEN "ensure" ELSE "discover"]
  <1>1. Never \in Int /\ Never <= clock
    BY Facts, JwksAssumption DEF Never
  <1>2. /\ next \in RequestStates /\ next.pc = (IF document THEN "ensure" ELSE "discover")
        /\ next.since = Never /\ next.verdict = "none"
    <2>1. ASSUME NEW where \in {"ensure", "discover"}
          PROVE  LET begun == [Resting EXCEPT !.token = token, !.pc = where]
                 IN  /\ begun \in RequestStates /\ begun.pc = where
                     /\ begun.since = Never /\ begun.verdict = "none"
      <3>1. Resting \in RequestStates /\ where \in Places
        BY RequestTypes DEF Places, IInv
      <3>2. [Resting EXCEPT !.token = token, !.pc = where] \in RequestStates
        BY <3>1, SetField, Zenon
      <3>3. QED
        BY <3>2 DEF Resting
    <2>2. QED
      BY <2>1
  <1>3. Goto(r, next) /\ request[r].pc \notin Answered /\ settled' \subseteq Requests
        /\ UNCHANGED <<clock, provider, document, discovering, jwks, loading, answer>>
    BY Facts DEF Begin, At, Answered
  <1> HIDE DEF next
  <1>4. QED
    BY <1>1, <1>2, <1>3, Facts, RequestStep DEF Loading, Answered, Reading

\* The steps that only take a request to another place.
LEMMA MoveStep ==
  ASSUME IInv, NEW r \in Requests, request[r].pc \notin Answered, ~At(r, "done"),
         NEW where \in {"ensure", "discovering", "publish"},
         Goto(r, [request[r] EXCEPT !.pc = where]),
         UNCHANGED <<clock, provider, answer, loading, settled>>,
         jwks' \in [url : BOOLEAN, rsa : Seq(RsaKids), ecdsa : Seq(EcdsaKids), cacheDate : Int],
         jwks'.rsa = jwks.rsa, jwks'.ecdsa = jwks.ecdsa, jwks'.cacheDate = jwks.cacheDate,
         document' \in BOOLEAN, document => document', where \in {"publish", "ensure"} => document',
         discovering' \in Requests \cup {NoOne}
  PROVE  IInv'
  <1> DEFINE next == [request[r] EXCEPT !.pc = where]
  <1>0. request[r] \in RequestStates /\ where \in Places
    BY Facts DEF Places
  <1>1. /\ next \in RequestStates /\ next.pc = where
        /\ next.since = request[r].since /\ next.verdict = request[r].verdict
    BY <1>0, SetField DEF RequestStates
  <1>2. next.verdict # "accepted"
    BY <1>1, Facts
  <1>3. Goto(r, next)
    OBVIOUS
  <1> HIDE DEF next
  <1>4. QED
    BY <1>1, <1>2, <1>3, Facts, RequestStep DEF Loading, Answered, Reading

LEMMA EndStep == IInv => \A r \in Requests : End(r) => IInv'
  <1> SUFFICES ASSUME IInv, NEW r \in Requests, End(r)
               PROVE  IInv'
    OBVIOUS
  <1>1. Never \in Int /\ Never <= clock
    BY Facts, JwksAssumption DEF Never
  <1>2. /\ Resting \in RequestStates /\ Resting.pc = "idle" /\ Resting.since = Never
        /\ Resting.verdict = "none"
    BY <1>1, RequestTypes DEF Resting, IInv
  <1>3. Goto(r, Resting) /\ request[r].pc \notin Answered /\ settled' \subseteq Requests
        /\ UNCHANGED <<clock, provider, document, discovering, jwks, loading, answer>>
    BY Facts DEF End, At, Answered
  <1>4. QED
    BY <1>1, <1>2, <1>3, Facts, RequestStep DEF Loading, Answered, Reading

LEMMA DiscoverySteps ==
  IInv => \A r \in Requests :
            FindDiscovered(r) \/ DiscoveryFails(r) \/ DiscoverySucceeds(r) \/ PublishUrl(r) => IInv'
  <1> SUFFICES ASSUME IInv, NEW r \in Requests
               PROVE  FindDiscovered(r) \/ DiscoveryFails(r) \/ DiscoverySucceeds(r) \/ PublishUrl(r)
                        => IInv'
    OBVIOUS
  <1>1. CASE FindDiscovered(r)
    BY <1>1, Facts, MoveStep DEF FindDiscovered, At, Answered
  <1>2. CASE DiscoveryFails(r)
    <2>1. /\ request[r].pc \notin Answered /\ Answer(r, "error") /\ discovering' = NoOne
          /\ settled' \subseteq Requests
          /\ UNCHANGED <<clock, provider, answer, jwks, document, loading>>
      BY <1>2, Facts DEF DiscoveryFails, At, Answered
    <2>2. QED
      BY <2>1, Facts, AnswerStep
  <1>3. CASE DiscoverySucceeds(r)
    BY <1>3, Facts, MoveStep DEF DiscoverySucceeds, At, Answered
  <1>4. CASE PublishUrl(r)
    <2>1. /\ request[r].pc \notin Answered /\ ~At(r, "done") /\ discovering' = NoOne
          /\ Goto(r, [request[r] EXCEPT !.pc = "ensure"])
          /\ UNCHANGED <<clock, provider, answer, document, loading, settled>>
      BY <1>4 DEF PublishUrl, At, Answered
    <2>2. /\ jwks' \in [url : BOOLEAN, rsa : Seq(RsaKids), ecdsa : Seq(EcdsaKids), cacheDate : Int]
          /\ jwks'.rsa = jwks.rsa /\ jwks'.ecdsa = jwks.ecdsa /\ jwks'.cacheDate = jwks.cacheDate
      BY <1>4, Facts DEF PublishUrl
    <2>3. document
      BY <1>4 DEF PublishUrl, At, IInv, ReadersAreInTime
    <2>4. QED
      BY <2>1, <2>2, <2>3, Facts, MoveStep
  <1>5. QED
    BY <1>1, <1>2, <1>3, <1>4

LEMMA BeginDiscoveryStep == IInv => \A r \in Requests : BeginDiscovery(r) => IInv'
  <1> SUFFICES ASSUME IInv, NEW r \in Requests, BeginDiscovery(r)
               PROVE  IInv'
    OBVIOUS
  <1> DEFINE next == [request[r] EXCEPT !.pc = "discovering"]
  <1>1. /\ ~document /\ discovering' = r /\ jwks' = FreshHandler /\ At(r, "discover")
        /\ Goto(r, next)
        /\ UNCHANGED <<clock, provider, document, loading, answer, settled>>
    BY DEF BeginDiscovery
  <1>2. request[r] \in RequestStates /\ "discovering" \in Places
    BY Facts DEF Places
  <1>3. /\ next \in RequestStates /\ next.pc = "discovering" /\ next.token = request[r].token
        /\ next.since = request[r].since /\ next.verdict = request[r].verdict
    BY <1>2, SetField DEF RequestStates
  <1>4. \A q \in Requests : request[q].pc \notin Loading \cup Reading \cup {"publish", "ensure"}
    BY <1>1, Facts
  <1>5. /\ request' \in [Requests -> RequestStates] /\ request'[r] = next
        /\ \A q \in Requests : q # r => request'[q] = request[q]
    <2>1. request \in [Requests -> RequestStates]
      BY RequestTypes DEF IInv
    <2> HIDE DEF next
    <2>2. QED
      BY <1>1, <1>3, <2>1 DEF Goto
  <1> HIDE DEF next
  <1>6. \A q \in Requests :
          /\ request'[q].pc \notin Loading \cup Reading \cup {"publish", "ensure"}
          /\ request'[q].since <= clock
          /\ request'[q].verdict = "accepted" => request'[q] = request[q]
    <2>1. SUFFICES ASSUME NEW q \in Requests
                   PROVE  /\ request'[q].pc \notin Loading \cup Reading \cup {"publish", "ensure"}
                          /\ request'[q].since <= clock
                          /\ request'[q].verdict = "accepted" => request'[q] = request[q]
      OBVIOUS
    <2>2. CASE q = r
      <3>1. request'[q].verdict # "accepted"
        BY <1>1, <1>3, <1>5, <2>2, Facts DEF At
      <3>2. QED
        BY <1>3, <1>5, <2>2, <3>1, Facts DEF Loading, Reading
    <2>3. CASE q # r
      BY <1>4, <1>5, <2>3, Facts
    <2>4. QED
      BY <2>2, <2>3
  <1>7. Never \in Int /\ Never <= clock
    BY Facts, JwksAssumption DEF Never
  <1>8. FreshHandler \in [url : BOOLEAN, rsa : Seq(RsaKids), ecdsa : Seq(EcdsaKids), cacheDate : Int]
    BY <1>7 DEF FreshHandler
  <1>9. TypeOK'
    BY <1>1, <1>5, <1>8 DEF IInv, TypeOK, RequestStates, Places, Verdicts
  <1>10. jwks'.rsa = <<>> /\ jwks'.ecdsa = <<>> /\ jwks'.cacheDate = Never
    BY <1>1 DEF FreshHandler
  <1>11. TimesAreOver'
    BY <1>1, <1>6, <1>7, <1>10 DEF IInv, TimesAreOver
  <1>12. CacheIsRecent'
    <2>1. CachedKeys' = {}
      BY <1>10 DEF CachedKeys, Elements
    <2>2. QED
      BY <1>6, <2>1 DEF CacheIsRecent, Answered, Loading
  <1>13. LoaderHoldsLock' /\ EmptyIsFresh'
    BY <1>6, <1>10 DEF LoaderHoldsLock, EmptyIsFresh, At, Answered, Loading
  <1>14. ReadersAreInTime'
    BY <1>1, <1>6 DEF IInv, ReadersAreInTime, At, Loading, Reading
  <1>15. WithdrawnKeysAreRefused'
    BY <1>1, <1>6 DEF IInv, WithdrawnKeysAreRefused
  <1>16. QED
    BY <1>9, <1>11, <1>12, <1>13, <1>14, <1>15 DEF IInv

LEMMA KeysAreLoadedStep == IInv => \A r \in Requests : KeysAreLoaded(r) => IInv'
  <1> SUFFICES ASSUME IInv, NEW r \in Requests, KeysAreLoaded(r)
               PROVE  IInv'
    OBVIOUS
  <1> DEFINE next == [request[r] EXCEPT !.pc = "scan", !.since = Since(r)]
  <1>1. /\ At(r, "ensure") /\ Goto(r, next) /\ ~MustReload(Forced(r))
        /\ UNCHANGED <<clock, provider, document, discovering, jwks, loading, answer, settled>>
    BY DEF KeysAreLoaded
  <1>2. Since(r) \in Int /\ Since(r) <= clock
    BY Facts DEF Since
  <1>3. request[r] \in RequestStates /\ "scan" \in Places
    BY Facts DEF Places
  <1>4. next \in RequestStates
    BY <1>2, <1>3, SetField, Zenon
  <1>5. next.pc = "scan" /\ next.since = Since(r) /\ next.verdict = request[r].verdict
    BY <1>3 DEF RequestStates
  <1>6. next.verdict # "accepted" /\ request[r].pc \notin Answered /\ document
    BY <1>1, <1>5, Facts DEF At, Answered
  <1>7. jwks.cacheDate >= next.since - MaxCache
    BY <1>1, <1>2, <1>5, Facts, JwksAssumption DEF MustReload
  <1>8. next.pc \notin Loading /\ next.pc \notin Answered /\ next.since <= clock
    BY <1>2, <1>5 DEF Loading, Answered
  <1> HIDE DEF next
  <1>9. QED
    BY <1>1, <1>4, <1>6, <1>7, <1>8, Facts, RequestStep

LEMMA BeginReloadStep == IInv => \A r \in Requests : BeginReload(r) => IInv'
  <1> SUFFICES ASSUME IInv, NEW r \in Requests, BeginReload(r)
               PROVE  IInv'
    OBVIOUS
  <1> DEFINE next == [request[r] EXCEPT !.pc = "fetch", !.since = Since(r)]
  <1>1. /\ At(r, "ensure") /\ Goto(r, next) /\ loading = NoOne /\ loading' = r
        /\ MustReload(Forced(r))
        /\ UNCHANGED <<clock, provider, document, discovering, jwks, answer, settled>>
    BY DEF BeginReload
  <1>2. Since(r) \in Int /\ Since(r) <= clock
    BY Facts DEF Since
  <1>3. request[r] \in RequestStates /\ "fetch" \in Places
    BY Facts DEF Places
  <1>4. next \in RequestStates
    BY <1>2, <1>3, SetField, Zenon
  <1>5. next.pc = "fetch" /\ next.since = Since(r) /\ next.verdict = request[r].verdict
    BY <1>3 DEF RequestStates
  <1>6. next.verdict # "accepted" /\ request[r].pc \notin Answered /\ document
    BY <1>1, <1>5, Facts DEF At, Answered
  <1>7. \A q \in Requests : request[q].pc \notin Loading
    BY <1>1, Facts, JwksAssumption
  <1>8. clock > jwks.cacheDate + MinCache
    <2>1. CASE jwks.rsa = <<>> /\ jwks.ecdsa = <<>>
      <3>1. jwks.cacheDate = Never
        BY <1>7, <2>1 DEF IInv, EmptyIsFresh, At, Loading
      <3>2. QED
        BY <3>1, Facts, JwksAssumption DEF Never
    <2>2. CASE ~(jwks.rsa = <<>> /\ jwks.ecdsa = <<>>)
      BY <1>1, <2>2, Facts, JwksAssumption DEF MustReload
    <2>3. QED
      BY <2>1, <2>2
  <1>9. next.pc \notin Reading /\ next.pc \notin Answered /\ next.since <= clock
    BY <1>2, <1>5 DEF Reading, Answered
  <1> HIDE DEF next
  <1>10. QED
    BY <1>1, <1>4, <1>6, <1>7, <1>8, <1>9, Facts, RequestStep

LEMMA ReloadFailsStep == IInv => \A r \in Requests : ReloadFails(r) => IInv'
  <1> SUFFICES ASSUME IInv, NEW r \in Requests, ReloadFails(r)
               PROVE  IInv'
    OBVIOUS
  <1>1. /\ At(r, "fetch") /\ request[r].pc \notin Answered /\ Answer(r, "error") /\ loading' = NoOne
        /\ settled' \subseteq Requests
        /\ UNCHANGED <<clock, provider, document, discovering, jwks, answer>>
    BY Facts DEF ReloadFails, At, Answered
  <1>2. \A q \in Requests : q # r => request[q].pc \notin Loading
    BY <1>1, Facts DEF At, Loading
  <1>3. QED
    BY <1>1, <1>2, Facts, AnswerStep

LEMMA ParseFailsStep ==
  ASSUME IInv, NEW r \in Requests, request[r].pc \in Reading, ParseFails(r),
         UNCHANGED <<clock, provider, document, discovering, jwks, loading, answer, settled>>
  PROVE  IInv'
  <1>1. request[r].pc \notin Answered /\ ~At(r, "done")
    BY DEF At, Reading, Answered
  <1>2. CASE request[r].attempt = 1
    <2> DEFINE next == [request[r] EXCEPT !.pc = "ensure", !.attempt = 2, !.index = 1]
    <2>1. request[r] \in RequestStates /\ "ensure" \in Places /\ 2 \in {1, 2} /\ 1 \in Nat \ {0}
      BY Facts DEF Places
    <2>2. next \in RequestStates
      BY <2>1, SetField, Zenon
    <2>3. next.pc = "ensure" /\ next.since = request[r].since /\ next.verdict = request[r].verdict
      BY <2>1 DEF RequestStates
    <2>4. next.verdict # "accepted" /\ next.pc \notin Loading \cup Reading \cup Answered
      BY <1>1, <2>3, Facts DEF Loading, Reading, Answered
    <2>5. Goto(r, next) /\ document
      BY <1>2, Facts DEF ParseFails
    <2> HIDE DEF next
    <2>6. QED
      BY <1>1, <2>2, <2>3, <2>4, <2>5, Facts, RequestStep
  <1>3. CASE request[r].attempt # 1
    <2>1. Answer(r, "refused")
      BY <1>3 DEF ParseFails
    <2>2. QED
      BY <1>1, <2>1, Facts, AnswerStep
  <1>4. QED
    BY <1>2, <1>3

\* The loop over the keys goes on.
LEMMA LookupStep ==
  ASSUME IInv, NEW r \in Requests, request[r].pc \in Reading, NEW where \in Reading,
         NEW next \in RequestStates, next.pc = where, next.since = request[r].since,
         next.verdict = request[r].verdict, Goto(r, next),
         UNCHANGED <<clock, provider, document, discovering, jwks, loading, answer, settled>>
  PROVE  IInv'
  <1>1. request[r].pc \notin Answered /\ ~At(r, "done") /\ where \notin Loading /\ where \notin Answered
    BY DEF At, Loading, Reading, Answered
  <1>2. QED
    BY <1>1, Facts, RequestStep

LEMMA ScanStep == IInv => \A r \in Requests : Scan(r) => IInv'
  <1> SUFFICES ASSUME IInv, NEW r \in Requests, Scan(r)
               PROVE  IInv'
    OBVIOUS
  <1>1. /\ request[r].pc \in Reading
        /\ UNCHANGED <<clock, provider, document, discovering, jwks, loading, answer, settled>>
    BY DEF Scan, Lookup, At, Reading
  <1>2. CASE request[r].index <= Len(Slice(r))
    <2> DEFINE next == [request[r] EXCEPT !.pc = "compare"]
    <2>1. request[r] \in RequestStates /\ "compare" \in Places /\ "compare" \in Reading
      BY Facts DEF Places, Reading
    <2>2. /\ next \in RequestStates /\ next.pc = "compare"
          /\ next.since = request[r].since /\ next.verdict = request[r].verdict
      BY <2>1, SetField DEF RequestStates
    <2>3. Goto(r, next)
      BY <1>2 DEF Scan
    <2> HIDE DEF next
    <2>4. QED
      BY <1>1, <2>1, <2>2, <2>3, LookupStep
  <1>3. CASE ~(request[r].index <= Len(Slice(r)))
    BY <1>1, <1>3, ParseFailsStep DEF Scan
  <1>4. QED
    BY <1>2, <1>3

LEMMA CompareStep == IInv => \A r \in Requests : Compare(r) => IInv'
  <1> SUFFICES ASSUME IInv, NEW r \in Requests, Compare(r)
               PROVE  IInv'
    OBVIOUS
  <1>1. /\ request[r].pc \in Reading /\ request[r].pc \notin Answered
        /\ UNCHANGED <<clock, provider, document, discovering, jwks, loading, answer, settled>>
    BY DEF Compare, Lookup, At, Reading, Answered
  <1>2. CASE Answer(r, "panic")
    BY <1>1, <1>2, Facts, AnswerStep
  <1>3. CASE Goto(r, [request[r] EXCEPT !.pc = "take"])
    <2> DEFINE next == [request[r] EXCEPT !.pc = "take"]
    <2>1. request[r] \in RequestStates /\ "take" \in Places /\ "take" \in Reading
      BY Facts DEF Places, Reading
    <2>2. /\ next \in RequestStates /\ next.pc = "take"
          /\ next.since = request[r].since /\ next.verdict = request[r].verdict
      BY <2>1, SetField DEF RequestStates
    <2>3. Goto(r, next)
      BY <1>3
    <2> HIDE DEF next
    <2>4. QED
      BY <1>1, <2>1, <2>2, <2>3, LookupStep
  <1>4. CASE Goto(r, [request[r] EXCEPT !.pc = "scan", !.index = @ + 1])
    <2> DEFINE next == [request[r] EXCEPT !.pc = "scan", !.index = request[r].index + 1]
    <2>1. /\ request[r] \in RequestStates /\ "scan" \in Places /\ "scan" \in Reading
          /\ request[r].index + 1 \in Nat \ {0}
      BY Facts DEF Places, Reading
    <2>2. next \in RequestStates
      BY <2>1, SetField, Zenon
    <2>3. /\ next.pc = "scan" /\ next.since = request[r].since
          /\ next.verdict = request[r].verdict
      BY <2>1 DEF RequestStates
    <2>4. Goto(r, next)
      BY <1>4, <2>1 DEF RequestStates
    <2> HIDE DEF next
    <2>5. QED
      BY <1>1, <2>1, <2>2, <2>3, <2>4, LookupStep
  <1>5. QED
    BY <1>2, <1>3, <1>4 DEF Compare

\* A key that is read is one of the cached keys.
LEMMA SliceIsCached ==
  ASSUME TypeOK, NEW r \in Requests, NEW i \in Nat, i >= 1, i <= Len(Slice(r))
  PROVE  Slice(r)[i] \in CachedKeys
  <1>1. jwks.rsa \in Seq(RsaKids) /\ jwks.ecdsa \in Seq(EcdsaKids)
    BY DEF TypeOK
  <1>2. CASE Slice(r) = jwks.rsa
    <2>1. i \in DOMAIN jwks.rsa
      BY <1>1, <1>2
    <2>2. QED
      BY <1>2, <2>1 DEF CachedKeys, Elements
  <1>3. CASE Slice(r) = jwks.ecdsa
    <2>1. i \in DOMAIN jwks.ecdsa
      BY <1>1, <1>3
    <2>2. QED
      BY <1>3, <2>1 DEF CachedKeys, Elements
  <1>4. CASE Slice(r) = <<>>
    BY <1>4
  <1>5. QED
    BY <1>2, <1>3, <1>4 DEF Slice

LEMMA TakeStep == IInv => \A r \in Requests : Take(r) => IInv'
  <1> SUFFICES ASSUME IInv, NEW r \in Requests, Take(r)
               PROVE  IInv'
    OBVIOUS
  <1>1. /\ request[r].pc \in Reading /\ request[r].pc \notin Answered
        /\ UNCHANGED <<clock, provider, document, discovering, jwks, loading, answer, settled>>
    BY DEF Take, Lookup, At, Reading, Answered
  <1>2. CASE Answer(r, "panic") \/ Answer(r, "expired")
    BY <1>1, <1>2, Facts, AnswerStep
  <1>3. CASE ParseFails(r)
    BY <1>1, <1>3, ParseFailsStep
  <1>4. CASE /\ ~(request[r].index > Len(Slice(r)))
             /\ Slice(r)[request[r].index] = request[r].token.kid
             /\ Answer(r, "accepted")
    <2> DEFINE next == [request[r] EXCEPT !.pc = "done", !.verdict = "accepted", !.attempt = 1,
                                          !.index = 1]
    <2>1. /\ request[r] \in RequestStates /\ "done" \in Places /\ "accepted" \in Verdicts
          /\ 1 \in {1, 2} /\ 1 \in Nat \ {0}
      BY Facts DEF Places, Verdicts
    <2>2. next \in RequestStates
      BY <2>1, SetField, Zenon
    <2>3. next.pc = "done" /\ next.since = request[r].since /\ next.token = request[r].token
      BY <2>1 DEF RequestStates
    <2>4. request[r].token.kid \in CachedKeys
      <3>1. request[r].index <= Len(Slice(r))
        <4>1. Len(Slice(r)) \in Nat
          BY DEF IInv, TypeOK, Slice
        <4>2. QED
          BY <1>4, <4>1, Facts
      <3>2. QED
        BY <1>4, <3>1, Facts, SliceIsCached DEF IInv
    <2>5. request[r].token.kid \in Kids
      BY <2>4, CachedKeysAreKids DEF IInv
    <2>6. Recent(request[r].token.kid, request[r].since - MaxCache - Latency)
      <3>1. Recent(request[r].token.kid, jwks.cacheDate - Latency)
        BY <2>4 DEF IInv, CacheIsRecent
      <3>2. provider.since[request[r].token.kid] \in Int
        BY <2>5 DEF IInv, TypeOK
      <3>3. jwks.cacheDate >= request[r].since - MaxCache
        BY <1>1, Facts
      <3>4. QED
        BY <3>1, <3>2, <3>3, Facts, JwksAssumption DEF Recent
    <2>7. Goto(r, next)
      BY <1>4 DEF Answer
    <2>8. next.pc \notin Loading \cup Reading \cup {"publish", "ensure"} \cup Answered
      BY <2>3 DEF Loading, Reading, Answered
    <2> HIDE DEF next
    <2>9. QED
      BY <1>1, <2>2, <2>3, <2>5, <2>6, <2>7, <2>8, Facts, RequestStep
  <1>5. QED
    BY <1>2, <1>3, <1>4 DEF Take

\* The state of the request that a step moves to another place, and of the others.
LEMMA MovedRequest ==
  ASSUME IInv, NEW r \in Requests, NEW where \in Places,
         Goto(r, [request[r] EXCEPT !.pc = where])
  PROVE  /\ request' \in [Requests -> RequestStates]
         /\ request'[r].pc = where
         /\ \A q \in Requests : q # r => request'[q] = request[q]
         /\ \A q \in Requests : /\ request'[q].since = request[q].since
                               /\ request'[q].verdict = request[q].verdict
                               /\ request'[q].token = request[q].token
  <1> DEFINE next == [request[r] EXCEPT !.pc = where]
  <1>1. request \in [Requests -> RequestStates] /\ request[r] \in RequestStates
    BY RequestTypes DEF IInv
  <1>2. /\ next \in RequestStates /\ next.pc = where /\ next.since = request[r].since
        /\ next.verdict = request[r].verdict /\ next.token = request[r].token
    BY <1>1, SetField DEF RequestStates
  <1>3. request' = [request EXCEPT ![r] = next]
    BY DEF Goto
  <1> HIDE DEF next
  <1>4. QED
    BY <1>1, <1>2, <1>3

\* The provider answers.
LEMMA FetchStep == IInv => \A r \in Requests : Fetch(r) => IInv'
  <1> SUFFICES ASSUME IInv, NEW r \in Requests, Fetch(r)
               PROVE  IInv'
    OBVIOUS
  <1>1. /\ At(r, "fetch") /\ provider.keys # NoKeys
        /\ answer' = [rsa |-> provider.keys.rsa, ecdsa |-> provider.keys.ecdsa, date |-> clock]
        /\ Goto(r, [request[r] EXCEPT !.pc = "decode"])
        /\ UNCHANGED <<clock, provider, document, discovering, jwks, loading, settled>>
    BY DEF Fetch
  <1>2. /\ request' \in [Requests -> RequestStates] /\ request'[r].pc = "decode"
        /\ \A q \in Requests : q # r => request'[q] = request[q]
        /\ \A q \in Requests : /\ request'[q].since = request[q].since
                              /\ request'[q].verdict = request[q].verdict
                              /\ request'[q].token = request[q].token
    BY <1>1, MovedRequest DEF Places
  <1>3. /\ provider.keys.rsa \in Seq(RsaKids) /\ provider.keys.ecdsa \in Seq(EcdsaKids)
        /\ provider.keys.rsa # <<>> \/ provider.keys.ecdsa # <<>>
    <2>1. provider.keys \in PublishedKeys
      BY JwksAssumption DEF IInv, TypeOK
    <2>2. QED
      BY <1>1, <2>1 DEF PublishedKeys, NoKeys
  <1>4. /\ answer' \in [rsa : Seq(RsaKids), ecdsa : Seq(EcdsaKids), date : Int]
        /\ answer'.rsa = provider.keys.rsa /\ answer'.ecdsa = provider.keys.ecdsa
        /\ answer'.date = clock
    BY <1>1, <1>3, Facts
  <1>5. /\ loading = r /\ clock > jwks.cacheDate + MinCache /\ document
        /\ \A q \in Requests : q # r => request[q].pc \notin Loading
    BY <1>1, Facts DEF IInv, LoaderHoldsLock, At, Loading
  <1>6. TypeOK'
    BY <1>1, <1>2, <1>4 DEF IInv, TypeOK, RequestStates, Places, Verdicts
  <1>7. TimesAreOver'
    BY <1>1, <1>2 DEF IInv, TimesAreOver
  <1>8. CacheIsRecent'
    <2>1. \A k \in Published(answer') : Recent(k, clock)
      BY <1>4 DEF Recent, Published
    <2>2. \A k \in CachedKeys : Recent(k, jwks.cacheDate - Latency)
      BY DEF IInv, CacheIsRecent
    <2>3. QED
      BY <1>1, <1>4, <2>1, <2>2 DEF CacheIsRecent, CachedKeys, Recent, Published, Elements
  <1>9. LoaderHoldsLock'
    <2>1. jwks.cacheDate <= clock /\ clock <= clock + Latency
      BY Facts, JwksAssumption DEF IInv, TimesAreOver
    <2>2. QED
      BY <1>1, <1>2, <1>3, <1>4, <1>5, <2>1 DEF LoaderHoldsLock, At, Loading, Answered
  <1>10. EmptyIsFresh'
    BY <1>1, <1>2, <1>5 DEF IInv, EmptyIsFresh, At, Loading
  <1>11. ReadersAreInTime'
    BY <1>1, <1>2, <1>5 DEF IInv, ReadersAreInTime, At, Loading, Reading
  <1>12. WithdrawnKeysAreRefused'
    BY <1>1, <1>2 DEF IInv, WithdrawnKeysAreRefused
  <1>13. QED
    BY <1>6, <1>7, <1>8, <1>9, <1>10, <1>11, <1>12 DEF IInv

\* What the invariant says of an answer that is being installed.
LEMMA AnswerFacts ==
  ASSUME IInv, NEW r \in Requests, request[r].pc \in Answered
  PROVE  /\ answer.rsa \in Seq(RsaKids) /\ answer.ecdsa \in Seq(EcdsaKids)
         /\ answer.rsa # <<>> \/ answer.ecdsa # <<>>
         /\ answer.date \in Int /\ Latency \in Nat
         /\ jwks.cacheDate <= answer.date /\ answer.date <= clock
         /\ clock <= answer.date + Latency
         /\ \A k \in Published(answer) : Recent(k, answer.date)
         /\ \A date \in Int : date <= answer.date =>
              \A k \in Published(answer) : Recent(k, date)
         /\ loading = r /\ clock > jwks.cacheDate + MinCache /\ document
         /\ \A q \in Requests : q # r => request[q].pc \notin Loading
         /\ At(r, "install") => jwks.rsa = answer.rsa
  <1>1. /\ answer.rsa \in Seq(RsaKids) /\ answer.ecdsa \in Seq(EcdsaKids)
        /\ answer.date \in Int /\ Latency \in Nat /\ provider.since \in [Kids -> Int]
    BY JwksAssumption DEF IInv, TypeOK
  <1>2. /\ answer.rsa # <<>> \/ answer.ecdsa # <<>>
        /\ jwks.cacheDate <= answer.date /\ answer.date <= clock
        /\ clock <= answer.date + Latency
        /\ At(r, "install") => jwks.rsa = answer.rsa
    BY DEF IInv, LoaderHoldsLock
  <1>3. \A k \in Published(answer) : Recent(k, answer.date) /\ k \in Kids
    BY CachedKeysAreKids DEF IInv, CacheIsRecent
  <1>4. \A date \in Int : date <= answer.date => \A k \in Published(answer) : Recent(k, date)
    BY <1>1, <1>3 DEF Recent
  <1>5. /\ loading = r /\ clock > jwks.cacheDate + MinCache /\ document
        /\ \A q \in Requests : q # r => request[q].pc \notin Loading
    BY Facts DEF IInv, LoaderHoldsLock, Answered, Loading
  <1>6. QED
    BY <1>1, <1>2, <1>3, <1>4, <1>5

LEMMA InstallRsaStep == IInv => \A r \in Requests : InstallRsa(r) => IInv'
  <1> SUFFICES ASSUME IInv, NEW r \in Requests, InstallRsa(r)
               PROVE  IInv'
    OBVIOUS
  <1>1. /\ At(r, "decode") /\ request[r].pc \in Answered
        /\ jwks' = [jwks EXCEPT !.rsa = answer.rsa]
        /\ Goto(r, [request[r] EXCEPT !.pc = "install"]) /\ settled' \subseteq Requests
        /\ UNCHANGED <<clock, provider, document, discovering, loading, answer>>
    BY Facts DEF InstallRsa, At, Answered
  <1>2. /\ request' \in [Requests -> RequestStates] /\ request'[r].pc = "install"
        /\ \A q \in Requests : q # r => request'[q] = request[q]
        /\ \A q \in Requests : /\ request'[q].since = request[q].since
                              /\ request'[q].verdict = request[q].verdict
                              /\ request'[q].token = request[q].token
    BY <1>1, MovedRequest DEF Places
  <1>3. answer.rsa \in Seq(RsaKids)
    BY <1>1, AnswerFacts
  <1>4. /\ jwks' \in [url : BOOLEAN, rsa : Seq(RsaKids), ecdsa : Seq(EcdsaKids), cacheDate : Int]
        /\ jwks'.rsa = answer.rsa /\ jwks'.ecdsa = jwks.ecdsa /\ jwks'.cacheDate = jwks.cacheDate
    BY <1>1, <1>3, Facts
  <1>5. /\ loading = r /\ clock > jwks.cacheDate + MinCache /\ document
        /\ \A q \in Requests : q # r => request[q].pc \notin Loading
    BY <1>1, AnswerFacts
  <1>6. TypeOK'
    BY <1>1, <1>2, <1>3, <1>4 DEF IInv, TypeOK, RequestStates, Places, Verdicts
  <1>7. TimesAreOver'
    BY <1>1, <1>2, <1>4 DEF IInv, TimesAreOver
  <1>8. CacheIsRecent'
    <2>1. CachedKeys' \subseteq Published(answer) \cup CachedKeys
      BY <1>1, <1>4 DEF CachedKeys, Published, Elements
    <2>2. jwks.cacheDate - Latency \in Int /\ jwks.cacheDate - Latency <= answer.date
      BY <1>1, AnswerFacts, Facts
    <2>3. \A k \in Published(answer) : Recent(k, jwks.cacheDate - Latency) /\ Recent(k, answer.date)
      BY <1>1, <2>2, AnswerFacts
    <2>4. \A k \in CachedKeys' : Recent(k, jwks.cacheDate - Latency)
      BY <2>1, <2>3 DEF IInv, CacheIsRecent
    <2>5. QED
      BY <1>1, <1>4, <2>3, <2>4 DEF CacheIsRecent, Recent, Published, Elements
  <1>9. LoaderHoldsLock'
    BY <1>1, <1>2, <1>4, <1>5, AnswerFacts DEF LoaderHoldsLock, At, Loading, Answered
  <1>10. EmptyIsFresh'
    BY <1>2 DEF EmptyIsFresh, At
  <1>11. ReadersAreInTime'
    <2> SUFFICES ASSUME NEW q \in Requests
                 PROVE  /\ request'[q].pc \in Loading \cup Reading \cup {"publish", "ensure"} => document'
                        /\ request'[q].pc \in Reading => jwks'.cacheDate >= request'[q].since - MaxCache
                        /\ request'[q].verdict = "accepted" =>
                             request'[q].pc = "done" /\ request'[q].token.kid \in Kids
      BY DEF ReadersAreInTime, At
    <2>1. /\ request[q].pc \in Reading => jwks.cacheDate >= request[q].since - MaxCache
          /\ request[q].verdict = "accepted" => request[q].pc = "done" /\ request[q].token.kid \in Kids
      BY DEF IInv, ReadersAreInTime, At
    <2>2. document' /\ jwks'.cacheDate = jwks.cacheDate
      BY <1>1, <1>4, <1>5
    <2>3. CASE q = r
      BY <1>1, <1>2, <2>1, <2>2, <2>3 DEF Reading, At
    <2>4. CASE q # r
      BY <1>2, <2>1, <2>2, <2>4
    <2>5. QED
      BY <2>3, <2>4
  <1>12. WithdrawnKeysAreRefused'
    BY <1>1, <1>2 DEF IInv, WithdrawnKeysAreRefused
  <1>13. QED
    BY <1>6, <1>7, <1>8, <1>9, <1>10, <1>11, <1>12 DEF IInv

LEMMA InstallEcdsaStep == IInv => \A r \in Requests : InstallEcdsa(r) => IInv'
  <1> SUFFICES ASSUME IInv, NEW r \in Requests, InstallEcdsa(r)
               PROVE  IInv'
    OBVIOUS
  <1>1. /\ At(r, "install") /\ request[r].pc \in Answered /\ answer' = NoAnswer /\ loading' = NoOne
        /\ jwks' = [jwks EXCEPT !.ecdsa = answer.ecdsa, !.cacheDate = clock]
        /\ Goto(r, [request[r] EXCEPT !.pc = "scan"]) /\ settled' \subseteq Requests
        /\ UNCHANGED <<clock, provider, document, discovering>>
    BY Facts DEF InstallEcdsa, At, Answered
  <1>2. /\ request' \in [Requests -> RequestStates] /\ request'[r].pc = "scan"
        /\ \A q \in Requests : q # r => request'[q] = request[q]
        /\ \A q \in Requests : /\ request'[q].since = request[q].since
                              /\ request'[q].verdict = request[q].verdict
                              /\ request'[q].token = request[q].token
    BY <1>1, MovedRequest DEF Places
  <1>3. /\ answer.rsa \in Seq(RsaKids) /\ answer.ecdsa \in Seq(EcdsaKids)
        /\ NoAnswer \in [rsa : Seq(RsaKids), ecdsa : Seq(EcdsaKids), date : Int]
    <2>1. Never \in Int
      BY JwksAssumption DEF Never
    <2>2. QED
      BY <1>1, <2>1, AnswerFacts DEF NoAnswer
  <1>4. /\ jwks.rsa = answer.rsa /\ document
        /\ answer.rsa # <<>> \/ answer.ecdsa # <<>>
        /\ \A q \in Requests : q # r => request[q].pc \notin Loading
    BY <1>1, AnswerFacts
  <1>5. /\ jwks' \in [url : BOOLEAN, rsa : Seq(RsaKids), ecdsa : Seq(EcdsaKids), cacheDate : Int]
        /\ jwks'.rsa = answer.rsa /\ jwks'.ecdsa = answer.ecdsa /\ jwks'.cacheDate = clock
    <2> DEFINE half == [jwks EXCEPT !.ecdsa = answer.ecdsa]
    <2>1. /\ half \in [url : BOOLEAN, rsa : Seq(RsaKids), ecdsa : Seq(EcdsaKids), cacheDate : Int]
          /\ half.rsa = jwks.rsa /\ half.ecdsa = answer.ecdsa
      BY <1>3, Facts
    <2>2. jwks' = [half EXCEPT !.cacheDate = clock]
      BY <1>1
    <2> HIDE DEF half
    <2>3. /\ clock \in Int /\ half \in [url : BOOLEAN, rsa : Seq(RsaKids), ecdsa : Seq(EcdsaKids),
                                      cacheDate : Int]
      BY <2>1, Facts
    <2>4. /\ jwks' \in [url : BOOLEAN, rsa : Seq(RsaKids), ecdsa : Seq(EcdsaKids), cacheDate : Int]
          /\ jwks'.rsa = half.rsa /\ jwks'.ecdsa = half.ecdsa /\ jwks'.cacheDate = clock
      BY <2>2, <2>3
    <2>5. QED
      BY <1>4, <2>1, <2>4
  <1>6. TypeOK'
    <2>1. /\ loading' \in Requests \cup {NoOne}
          /\ answer' \in [rsa : Seq(RsaKids), ecdsa : Seq(EcdsaKids), date : Int]
      BY <1>1, <1>3
    <2>2. /\ clock' \in 0..MaxTime /\ document' \in BOOLEAN
          /\ discovering' \in Requests \cup {NoOne} /\ settled' \subseteq Requests
          /\ provider' \in [keys : KeySets, since : [Kids -> Int]]
      BY <1>1 DEF IInv, TypeOK
    <2>3. request' \in [Requests -> RequestStates]
      BY <1>2
    <2>4. jwks' \in [url : BOOLEAN, rsa : Seq(RsaKids), ecdsa : Seq(EcdsaKids), cacheDate : Int]
      BY <1>5
    <2>5. QED
      BY <2>1, <2>2, <2>3, <2>4 DEF TypeOK, RequestStates, Places, Verdicts
  <1>7. TimesAreOver'
    <2>1. jwks'.cacheDate <= clock'
      BY <1>1, <1>5, Facts
    <2>2. (\A k \in Kids : provider'.since[k] <= clock')
          /\ \A q \in Requests : request'[q].since <= clock'
      BY <1>1, <1>2 DEF IInv, TimesAreOver
    <2>3. QED
      BY <2>1, <2>2 DEF TimesAreOver
  <1>8. \A q \in Requests : request'[q].pc \notin Loading
    BY <1>2, <1>4 DEF Loading
  <1>9. CacheIsRecent'
    <2>1. CachedKeys' = Published(answer)
      BY <1>5 DEF CachedKeys, Published
    <2>2. clock - Latency \in Int /\ clock - Latency <= answer.date
      BY <1>1, AnswerFacts, Facts
    <2>3. \A k \in CachedKeys' : Recent(k, clock - Latency)
      BY <1>1, <2>1, <2>2, AnswerFacts
    <2>4. QED
      BY <1>1, <1>5, <1>8, <2>3 DEF CacheIsRecent, Recent, Answered, Loading
  <1>10. LoaderHoldsLock'
    BY <1>8 DEF LoaderHoldsLock, At, Answered, Loading
  <1>11. EmptyIsFresh'
    <2>1. ~(jwks'.rsa = <<>> /\ jwks'.ecdsa = <<>>)
      BY <1>4, <1>5
    <2>2. QED
      BY <2>1 DEF EmptyIsFresh
  <1>12. ReadersAreInTime'
    <2>1. \A q \in Requests : request'[q].since \in Int /\ request'[q].since <= clock
      BY <1>2, Facts DEF IInv, TimesAreOver, RequestStates
    <2>2. \A q \in Requests : jwks'.cacheDate >= request'[q].since - MaxCache
      BY <1>5, <2>1, Facts, JwksAssumption
    <2>3. QED
      BY <1>1, <1>2, <1>4, <2>2, Facts DEF IInv, ReadersAreInTime, At, Loading, Reading
  <1>13. WithdrawnKeysAreRefused'
    BY <1>1, <1>2 DEF IInv, WithdrawnKeysAreRefused
  <1>14. QED
    BY <1>6, <1>7, <1>9, <1>10, <1>11, <1>12, <1>13 DEF IInv

LEMMA TickStep == IInv /\ Tick => IInv'
  <1> SUFFICES ASSUME IInv, Tick
               PROVE  IInv'
    OBVIOUS
  <1>1. /\ clock < MaxTime /\ clock' = clock + 1
        /\ \A r \in Requests : request[r].pc \in Answered => clock < answer.date + Latency
        /\ UNCHANGED <<provider, document, discovering, jwks, loading, answer, request, settled>>
    BY DEF Tick, At, Answered
  <1>2. /\ clock \in 0..MaxTime /\ provider.since \in [Kids -> Int] /\ jwks.cacheDate \in Int
        /\ request \in [Requests -> RequestStates] /\ answer.date \in Int
    BY RequestTypes DEF IInv, TypeOK
  <1>3. \A r \in Requests : request[r].since \in Int
    BY <1>2 DEF RequestStates
  <1>4. clock' \in 0..MaxTime
    BY <1>1, <1>2, JwksAssumption
  <1>5. TypeOK'
    BY <1>1, <1>4 DEF IInv, TypeOK
  <1>6. TimesAreOver'
    BY <1>1, <1>2, <1>3 DEF IInv, TimesAreOver
  <1>7. CacheIsRecent'
    BY <1>1 DEF IInv, CacheIsRecent, CachedKeys, Recent, Published, Elements, At
  <1>8. LoaderHoldsLock'
    BY <1>1, <1>2, JwksAssumption DEF IInv, LoaderHoldsLock, At
  <1>9. EmptyIsFresh' /\ ReadersAreInTime' /\ WithdrawnKeysAreRefused'
    BY <1>1 DEF IInv, EmptyIsFresh, ReadersAreInTime, WithdrawnKeysAreRefused, At
  <1>10. QED
    BY <1>5, <1>6, <1>7, <1>8, <1>9 DEF IInv

LEMMA RotateStep == IInv => \A keys \in KeySets : Rotate(keys) => IInv'
  <1> SUFFICES ASSUME IInv, NEW keys \in KeySets, Rotate(keys)
               PROVE  IInv'
    OBVIOUS
  <1> DEFINE since == [k \in Kids |->
               IF (k \in Published(keys)) = (k \in Published(provider.keys))
               THEN provider.since[k] ELSE clock]
  <1>1. /\ provider' = [keys |-> keys, since |-> since] /\ settled' \subseteq settled
        /\ UNCHANGED <<clock, document, discovering, jwks, loading, answer, request>>
    BY DEF Rotate
  <1>2. /\ clock \in Nat /\ provider.since \in [Kids -> Int] /\ jwks.cacheDate \in Int
        /\ request \in [Requests -> RequestStates] /\ settled \subseteq Requests
    BY RequestTypes DEF IInv, TypeOK
  <1>3. since \in [Kids -> Int] /\ \A k \in Kids : since[k] <= clock
    BY <1>2 DEF IInv, TimesAreOver
  <1>4. TypeOK'
    BY <1>1, <1>2, <1>3 DEF IInv, TypeOK
  <1>5. TimesAreOver'
    BY <1>1, <1>3 DEF IInv, TimesAreOver
  <1>6. ASSUME NEW k \in Kids, NEW date \in Int, date <= clock, Recent(k, date)
        PROVE  k \in Published(keys) \/ since[k] >= date
    BY <1>2, <1>6 DEF Recent
  <1> HIDE DEF since
  <1>7. CacheIsRecent'
    <2>1. /\ jwks.cacheDate <= clock /\ CachedKeys \subseteq Kids
          /\ Published(answer) \subseteq Kids
      BY CachedKeysAreKids DEF IInv, TimesAreOver
    <2>2. \A k \in CachedKeys : k \in Published(keys) \/ since[k] >= jwks.cacheDate - Latency
      <3>1. jwks.cacheDate - Latency \in Int /\ jwks.cacheDate - Latency <= clock
        BY <1>2, <2>1, JwksAssumption
      <3>2. QED
        BY <1>6, <2>1, <3>1 DEF IInv, CacheIsRecent
    <2>3. ASSUME NEW r \in Requests, request[r].pc \in Answered
          PROVE  \A k \in Published(answer) : k \in Published(keys) \/ since[k] >= answer.date
      BY <1>6, <2>1, <2>3, AnswerFacts
    <2>4. QED
      BY <1>1, <2>2, <2>3 DEF CacheIsRecent, CachedKeys, Recent, Published, Elements
  <1>8. LoaderHoldsLock' /\ EmptyIsFresh' /\ ReadersAreInTime'
    BY <1>1 DEF IInv, LoaderHoldsLock, EmptyIsFresh, ReadersAreInTime, At
  <1>9. WithdrawnKeysAreRefused'
    <2> SUFFICES ASSUME NEW r \in Requests, request[r].verdict = "accepted"
                 PROVE  \/ request[r].token.kid \in Published(keys)
                        \/ since[request[r].token.kid] >= request[r].since - MaxCache - Latency
      BY <1>1 DEF WithdrawnKeysAreRefused, Published, Elements
    <2>1. /\ request[r].token.kid \in Kids /\ request[r].since - MaxCache - Latency \in Int
          /\ request[r].since - MaxCache - Latency <= clock
          /\ Recent(request[r].token.kid, request[r].since - MaxCache - Latency)
      BY Facts, JwksAssumption
    <2>2. QED
      BY <1>6, <2>1
  <1>10. QED
    BY <1>4, <1>5, <1>7, <1>8, <1>9 DEF IInv

LEMMA StepIInv == IInv /\ [Next]_vars => IInv'
  <1> SUFFICES ASSUME IInv, [Next]_vars
               PROVE  IInv'
    OBVIOUS
  <1>1. ASSUME NEW r \in Requests, Proceed(r)
        PROVE  IInv'
    <2>1. CASE FindDiscovered(r) \/ DiscoveryFails(r) \/ DiscoverySucceeds(r) \/ PublishUrl(r)
      BY <2>1, DiscoverySteps
    <2>2. CASE BeginDiscovery(r)
      BY <2>2, BeginDiscoveryStep
    <2>3. CASE KeysAreLoaded(r) \/ BeginReload(r) \/ ReloadFails(r)
      BY <2>3, KeysAreLoadedStep, BeginReloadStep, ReloadFailsStep
    <2>4. CASE Fetch(r) \/ InstallRsa(r) \/ InstallEcdsa(r)
      BY <2>4, FetchStep, InstallRsaStep, InstallEcdsaStep
    <2>5. CASE Scan(r) \/ Compare(r) \/ Take(r) \/ End(r)
      BY <2>5, ScanStep, CompareStep, TakeStep, EndStep
    <2>6. QED
      BY <1>1, <2>1, <2>2, <2>3, <2>4, <2>5 DEF Proceed
  <1>2. ASSUME NEW r \in Requests, NEW token \in Tokens, Begin(r, token)
        PROVE  IInv'
    BY <1>2, BeginStep
  <1>3. CASE \E keys \in KeySets : Rotate(keys)
    BY <1>3, RotateStep
  <1>4. CASE Tick
    BY <1>4, TickStep
  <1>5. CASE UNCHANGED vars
    BY <1>5 DEF vars, IInv, TypeOK, TimesAreOver, CacheIsRecent, LoaderHoldsLock, EmptyIsFresh,
       ReadersAreInTime, WithdrawnKeysAreRefused, Recent, CachedKeys, Published, Elements, At
  <1>6. QED
    BY <1>1, <1>2, <1>3, <1>4, <1>5 DEF Next

LEMMA Invariance == Spec => []IInv
  BY InitIInv, StepIInv, PTL DEF Spec

\* The handler, the locks and the requests keep their types: the slices hold kids of
\* their own kind only, and a request is always at a place of the code.
THEOREM TypeCorrect == Spec => []TypeOK
  <1>1. IInv => TypeOK
    BY DEF IInv
  <1>2. QED
    BY <1>1, Invariance, PTL

\* validateTokenLocally accepts no token signed with a key that the provider withdrew
\* more than six hours before the request asked for the keys: EnsureLoaded never leaves
\* older keys to Keyfunc, and no other request's reload brings older ones.
THEOREM WithdrawnKeysAreForgotten == Spec => []WithdrawnKeysAreRefused
  <1>1. IInv => WithdrawnKeysAreRefused
    BY DEF IInv
  <1>2. QED
    BY <1>1, Invariance, PTL

\* However many requests want to reload the keys, EnsureLoaded's lock and its check of
\* CacheDate keep successful loads more than five minutes apart.
THEOREM LoadsAreLimited == Spec => LoadsAreSpaced
  <1> DEFINE Spaced == \A r \in Requests : At(r, "install") /\ request'[r].pc # "install" =>
                         jwks'.cacheDate > jwks.cacheDate + MinCache
  <1>1. IInv /\ [Next]_vars => [Spaced]_vars
    <2> SUFFICES ASSUME IInv, Next, NEW r \in Requests, At(r, "install"),
                        request'[r].pc # "install"
                 PROVE  jwks'.cacheDate > jwks.cacheDate + MinCache
      OBVIOUS
    <2>1. \A q \in Requests : \A next : Goto(q, next) /\ q # r => request'[r] = request[r]
      BY RequestTypes DEF IInv, Goto
    <2>2. ASSUME NEW q \in Requests, Proceed(q)
          PROVE  InstallEcdsa(r)
      <3>1. CASE q # r
        BY <2>1, <2>2, <3>1 DEF Proceed, FindDiscovered, BeginDiscovery, DiscoveryFails,
           DiscoverySucceeds, PublishUrl, KeysAreLoaded, BeginReload, ReloadFails, Fetch, InstallRsa,
           InstallEcdsa, Scan, Compare, Take, End, Answer, ParseFails, Lookup, At
      <3>2. CASE q = r
        BY <2>2, <3>2 DEF Proceed, FindDiscovered, BeginDiscovery, DiscoveryFails,
           DiscoverySucceeds, PublishUrl, KeysAreLoaded, BeginReload, ReloadFails, Fetch, InstallRsa,
           Scan, Compare, Take, End, Lookup, At
      <3>3. QED
        BY <3>1, <3>2
    <2>3. InstallEcdsa(r)
      <3>1. \A q \in Requests, token \in Tokens : ~Begin(q, token)
        BY <2>1 DEF Begin, At
      <3>2. /\ \A keys \in KeySets : ~Rotate(keys)
            /\ ~Tick
        BY DEF Rotate, Tick, At
      <3>3. QED
        BY <2>2, <3>1, <3>2 DEF Next
    <2>4. jwks'.cacheDate = clock
      BY <2>3, Facts DEF InstallEcdsa
    <2>5. clock > jwks.cacheDate + MinCache
      BY DEF IInv, LoaderHoldsLock, At, Loading
    <2>6. QED
      BY <2>4, <2>5
  <1>2. QED
    BY <1>1, Invariance, PTL DEF Spec, LoadsAreSpaced

\* Once EnsureOidcDiscovery has published the document, no discovery that was waiting for
\* the lock starts over: the handler, its URL and its keys stay, or are newer.
THEOREM DiscoveryHappensOnce == Spec => DiscoveryIsFinal
  <1> DEFINE Final == document => /\ document'
                                  /\ jwks.url => jwks'.url
                                  /\ jwks'.cacheDate >= jwks.cacheDate
  <1>1. IInv /\ [Next]_vars => [Final]_vars
    <2> SUFFICES ASSUME IInv, Next, document
                 PROVE  document' /\ (jwks.url => jwks'.url) /\ jwks'.cacheDate >= jwks.cacheDate
      OBVIOUS
    <2>1. /\ jwks \in [url : BOOLEAN, rsa : Seq(RsaKids), ecdsa : Seq(EcdsaKids), cacheDate : Int]
          /\ clock \in Nat /\ jwks.cacheDate \in Int /\ jwks.cacheDate <= clock
      BY JwksAssumption DEF IInv, TypeOK, TimesAreOver
    <2>2. CASE UNCHANGED <<document, jwks>>
      BY <2>1, <2>2
    <2>3. ASSUME NEW r \in Requests,
                 DiscoverySucceeds(r) \/ PublishUrl(r) \/ InstallRsa(r) \/ InstallEcdsa(r)
          PROVE  document' /\ (jwks.url => jwks'.url) /\ jwks'.cacheDate >= jwks.cacheDate
      <3>1. CASE DiscoverySucceeds(r)
        BY <2>1, <3>1 DEF DiscoverySucceeds
      <3>2. CASE PublishUrl(r)
        BY <2>1, <3>2 DEF PublishUrl
      <3>3. CASE InstallRsa(r)
        BY <2>1, <3>3 DEF InstallRsa
      <3>4. CASE InstallEcdsa(r)
        <4>1. document' = document /\ jwks' = [jwks EXCEPT !.ecdsa = answer.ecdsa, !.cacheDate = clock]
          BY <3>4 DEF InstallEcdsa
        <4>2. jwks'.url = jwks.url /\ jwks'.cacheDate = clock
          BY <2>1, <4>1
        <4>3. QED
          BY <2>1, <4>1, <4>2
      <3>5. QED
        BY <2>3, <3>1, <3>2, <3>3, <3>4
    <2>4. ASSUME NEW r \in Requests,
                 Proceed(r) \/ \E token \in Tokens : Begin(r, token)
          PROVE  document' /\ (jwks.url => jwks'.url) /\ jwks'.cacheDate >= jwks.cacheDate
      <3>1. CASE \/ FindDiscovered(r) \/ DiscoveryFails(r) \/ KeysAreLoaded(r) \/ BeginReload(r)
                 \/ ReloadFails(r) \/ Fetch(r) \/ Scan(r) \/ Compare(r) \/ Take(r) \/ End(r)
                 \/ \E token \in Tokens : Begin(r, token)
        BY <2>2, <3>1 DEF FindDiscovered, DiscoveryFails, KeysAreLoaded, BeginReload, ReloadFails, Fetch,
           Scan, Compare, Take, End, Begin, Lookup
      <3>2. ~BeginDiscovery(r)
        BY DEF BeginDiscovery
      <3>3. QED
        BY <2>3, <2>4, <3>1, <3>2 DEF Proceed
    <2>5. QED
      BY <2>2, <2>4 DEF Next, Rotate, Tick
  <1>2. QED
    BY <1>1, Invariance, PTL DEF Spec, DiscoveryIsFinal

---------------------------------------------------------------------------
(***************************************************************************)
(* Tokens that must be accepted.                                            *)
(***************************************************************************)
\* The slice in which a key is searched.
Search(k, keys) ==
  CASE k \in RsaKids -> keys.rsa [] k \in EcdsaKids -> keys.ecdsa [] OTHER -> <<>>

Holds(k, keys) == k \in Elements(Search(k, keys))

\* The request's token is valid, and its key is published for so long that every load
\* that is recent enough for a second attempt has brought it.
Due(q, p, now) ==
  /\ q.token.kind = "valid" /\ q.token.kid \in Published(p.keys)
  /\ p.since[q.token.kid] < now - MinCache - Latency

\* A reader is within its slice.  A second attempt still has the key before it.
Reads(q, slice) ==
  /\ q.pc \in {"compare", "take"} => q.index <= Len(slice)
  /\ (q.attempt = 2 /\ q.pc \in Reading) =>
       \E i \in q.index..Len(slice) : slice[i] = q.token.kid
  /\ (q.attempt = 2 /\ q.pc = "take") => slice[q.index] = q.token.kid

Settles(q, keys, p, now) ==
  /\ q.pc # "idle" /\ (q.pc = "done" => q.verdict = "accepted")
  /\ Due(q, p, now)
  /\ Reads(q, Search(q.token.kid, keys))

\* All keys that are published since before the given time are among these.
Complete(keys, p, date) ==
  \A k \in Published(p.keys) : p.since[k] < date => Holds(k, keys)

\* The second half of the inductive invariant.
SInv ==
  /\ \A r \in settled : Settles(request[r], jwks, provider, clock)
  /\ \A r \in Requests : request[r].pc \notin Reading => request[r].index = 1
  /\ \A k \in Kids : provider.since[k] >= Never
  /\ Complete(jwks, provider, jwks.cacheDate - Latency)
  /\ \A r \in Requests : request[r].pc \in Answered => Complete(answer, provider, answer.date)

\* A record with two slices.
Slices(keys) == keys.rsa \in Seq(RsaKids) /\ keys.ecdsa \in Seq(EcdsaKids)

\* What is published is found where a request looks for it.
LEMMA SearchFacts ==
  ASSUME NEW keys, Slices(keys), NEW k
  PROVE  /\ Len(Search(k, keys)) \in Nat
         /\ Holds(k, keys) => \E i \in 1..Len(Search(k, keys)) : Search(k, keys)[i] = k
         /\ k \in Published(keys) => Holds(k, keys) /\ k \in Kids
  <1>1. ASSUME NEW S, NEW seq \in Seq(S)
        PROVE  /\ Elements(seq) \subseteq S /\ Len(seq) \in Nat
               /\ \A e \in Elements(seq) : \E i \in 1..Len(seq) : seq[i] = e
    BY DEF Elements
  <1>2. Search(k, keys) \in Seq(Kids)
    BY DEF Search, Slices, Kids
  <1>3. Elements(keys.rsa) \subseteq RsaKids /\ Elements(keys.ecdsa) \subseteq EcdsaKids
    BY <1>1 DEF Slices
  <1>4. k \in Published(keys) => Holds(k, keys) /\ k \in Kids
    BY <1>3, JwksAssumption DEF Published, Holds, Search, Kids
  <1>5. QED
    BY <1>1, <1>2, <1>4 DEF Holds

\* The parts of the state that SInv is about.
LEMMA SettledFacts ==
  ASSUME IInv
  PROVE  /\ Slices(jwks) /\ Slices(answer) /\ \A keys \in KeySets : Slices(keys)
         /\ provider.keys \in KeySets /\ provider.since \in [Kids -> Int]
         /\ \A r \in Requests : Slice(r) = Search(request[r].token.kid, jwks)
         /\ clock \in Nat /\ jwks.cacheDate \in Int /\ jwks.cacheDate <= clock
         /\ MinCache \in Nat /\ Latency \in Nat /\ Never \in Int /\ Never < clock
         /\ settled \subseteq Requests
  <1>1. \A keys \in PublishedKeys : Slices(keys)
    BY DEF PublishedKeys, Slices
  <1>2. Slices(jwks) /\ Slices(answer) /\ \A keys \in KeySets : Slices(keys)
    BY <1>1, JwksAssumption DEF IInv, TypeOK, Slices
  <1>3. \A r \in Requests : Slice(r) = Search(request[r].token.kid, jwks)
    BY DEF Slice, Search
  <1>4. /\ clock \in Nat /\ jwks.cacheDate \in Int /\ jwks.cacheDate <= clock
        /\ MinCache \in Nat /\ Latency \in Nat /\ Never \in Int /\ Never < clock
    BY JwksAssumption DEF IInv, TypeOK, TimesAreOver, Never
  <1>5. QED
    BY <1>2, <1>3, <1>4 DEF IInv, TypeOK

\* In the beginning no request is settled, and nothing is cached.
LEMMA InitSInv == Init => SInv
  <1> SUFFICES ASSUME Init
               PROVE  SInv
    OBVIOUS
  <1>1. /\ settled = {} /\ \A r \in Requests : request[r].pc = "idle" /\ request[r].index = 1
    BY DEF Init, Resting
  <1>2. jwks.cacheDate = Never /\ \A k \in Kids : provider.since[k] = Never
    BY DEF Init, FreshHandler
  <1>3. provider.keys \in KeySets /\ Never \in Int
    BY JwksAssumption DEF Init, Never
  <1>4. \A k \in Published(provider.keys) : k \in Kids
    BY <1>3, SearchFacts, JwksAssumption DEF PublishedKeys, Slices
  <1>5. QED
    BY <1>1, <1>2, <1>3, <1>4, JwksAssumption DEF SInv, Complete, Answered

\* A step of one request that leaves the keys, the time and the provider alone.
LEMMA RequestKeepsSInv ==
  ASSUME IInv, SInv, NEW r \in Requests, NEW next \in RequestStates, Goto(r, next),
         UNCHANGED <<clock, provider, answer>>,
         jwks'.rsa = jwks.rsa, jwks'.ecdsa = jwks.ecdsa, jwks'.cacheDate = jwks.cacheDate,
         settled' \subseteq settled \cup {r}, next.pc \notin Answered,
         next.pc \notin Reading => next.index = 1,
         r \in settled' => Settles(next, jwks, provider, clock)
  PROVE  SInv'
  <1>1. /\ request'[r] = next /\ \A q \in Requests : q # r => request'[q] = request[q]
    BY RequestTypes DEF IInv, Goto
  <1>2. \A k : Search(k, jwks') = Search(k, jwks)
    BY DEF Search
  <1>3. \A q \in settled' : Settles(request'[q], jwks', provider', clock')
    <2>1. ASSUME NEW w, Settles(w, jwks, provider, clock)
          PROVE  Settles(w, jwks', provider', clock')
      BY <1>2, <2>1 DEF Settles
    <2>2. \A q \in settled' : q \in Requests /\ (q = r \/ q \in settled)
      BY SettledFacts
    <2>3. \A q \in settled' : Settles(request'[q], jwks, provider, clock)
      BY <1>1, <2>2 DEF SInv
    <2>4. QED
      BY <2>1, <2>3
  <1>4. \A q \in Requests : request'[q].pc \notin Reading => request'[q].index = 1
    BY <1>1 DEF SInv
  <1>5. Complete(jwks', provider', jwks'.cacheDate - Latency)
    BY <1>2 DEF SInv, Complete, Holds
  <1>6. \A q \in Requests : request'[q].pc \in Answered => Complete(answer', provider', answer'.date)
    BY <1>1 DEF SInv
  <1>7. QED
    BY <1>3, <1>4, <1>5, <1>6 DEF SInv, At

\* A request moves on to a place where it reads no keys.
LEMMA MoveKeepsSInv ==
  ASSUME IInv, SInv, NEW r \in Requests, NEW next \in RequestStates, Goto(r, next),
         next.pc \in {"ensure", "discovering", "publish", "fetch"},
         next.index = request[r].index, next.token = request[r].token,
         ~At(r, "idle"), request[r].pc \notin Reading,
         UNCHANGED <<clock, provider, answer, settled>>,
         jwks'.rsa = jwks.rsa, jwks'.ecdsa = jwks.ecdsa, jwks'.cacheDate = jwks.cacheDate
  PROVE  SInv'
  <1>1. /\ next.pc \notin Reading /\ next.index = 1
        /\ next.pc \notin {"idle", "done"} \cup Answered
    BY DEF SInv, Answered, Reading
  <1>2. r \in settled => Settles(next, jwks, provider, clock)
    BY <1>1 DEF SInv, Settles, Due, Reads, Reading
  <1>3. QED
    BY <1>1, <1>2, RequestKeepsSInv

\* A request is answered that is not settled, or whose token is accepted.
LEMMA AnswerKeepsSInv ==
  ASSUME IInv, SInv, NEW r \in Requests, NEW verdict \in Verdicts, Answer(r, verdict),
         UNCHANGED <<clock, provider, answer, jwks>>, settled' \subseteq settled,
         r \in settled' => verdict = "accepted"
  PROVE  SInv'
  <1> DEFINE next == [request[r] EXCEPT !.pc = "done", !.verdict = verdict, !.attempt = 1,
                                        !.index = 1]
  <1>1. request[r] \in RequestStates /\ "done" \in Places /\ 1 \in {1, 2} /\ 1 \in Nat \ {0}
    BY Facts DEF Places
  <1>2. next \in RequestStates
    BY <1>1, SetField, Zenon
  <1>3. /\ next.pc = "done" /\ next.verdict = verdict /\ next.index = 1
        /\ next.token = request[r].token
    BY <1>1 DEF RequestStates
  <1>4. Goto(r, next)
    BY DEF Answer
  <1> HIDE DEF next
  <1>5. r \in settled' => Settles(next, jwks, provider, clock)
    BY <1>3 DEF SInv, Settles, Due, Reads, Reading
  <1>6. QED
    BY <1>2, <1>3, <1>4, <1>5, RequestKeepsSInv DEF Answered, Reading

\* A request to which LongPublished applies is settled from its arrival.
LEMMA BeginKeepsSInv ==
  ASSUME IInv, SInv, NEW r \in Requests, NEW token \in Tokens, Begin(r, token)
  PROVE  SInv'
  <1> DEFINE Begun(where) == [Resting EXCEPT !.token = token, !.pc = where]
  <1>1. PICK where \in {"ensure", "discover"} : Goto(r, Begun(where))
    BY DEF Begin
  <1> DEFINE next == Begun(where)
  <1>2. next \in RequestStates
    BY RequestTypes, SetField DEF Places, IInv
  <1>3. next.pc = where /\ next.token = token /\ next.index = 1 /\ next.attempt = 1
    BY DEF Resting
  <1>4. /\ UNCHANGED <<clock, provider, document, discovering, jwks, loading, answer>>
        /\ settled' = IF token.kind = "valid" /\ LongPublished(token.kid) /\ ~HalfDiscovered
                      THEN settled \cup {r} ELSE settled
    BY DEF Begin
  <1>5. r \notin settled
    BY DEF SInv, Settles, Begin, At
  <1>6. token.kid \in Published(provider.keys) => provider.since[token.kid] \in Int
    BY SearchFacts, SettledFacts
  <1>7. r \in settled' => Due(next, provider, clock)
    BY <1>3, <1>4, <1>5, <1>6, SettledFacts DEF Due, LongPublished
  <1> HIDE DEF next
  <1>8. r \in settled' => Settles(next, jwks, provider, clock)
    BY <1>3, <1>7 DEF Settles, Reads, Reading
  <1>9. /\ settled' \subseteq settled \cup {r} /\ next.pc \notin Answered
        /\ next.pc \notin Reading => next.index = 1
    BY <1>3, <1>4 DEF Answered
  <1>10. QED
    BY <1>1, <1>2, <1>4, <1>8, <1>9, RequestKeepsSInv DEF next

\* Discovery reads no keys.
LEMMA DiscoveryKeepsSInv ==
  ASSUME IInv, SInv, NEW r \in Requests,
         FindDiscovered(r) \/ DiscoverySucceeds(r) \/ PublishUrl(r)
  PROVE  SInv'
  <1>1. PICK where \in {"ensure", "publish"} : Goto(r, [request[r] EXCEPT !.pc = where])
    BY DEF FindDiscovered, DiscoverySucceeds, PublishUrl
  <1> DEFINE next == [request[r] EXCEPT !.pc = where]
  <1>2. /\ next \in RequestStates /\ next.pc = where /\ next.index = request[r].index
        /\ next.token = request[r].token
    <2>1. request[r] \in RequestStates /\ where \in Places
      BY Facts DEF Places
    <2>2. QED
      BY <2>1, SetField DEF RequestStates
  <1>3. /\ ~At(r, "idle") /\ request[r].pc \notin Reading
        /\ UNCHANGED <<clock, provider, answer, settled>>
    BY DEF FindDiscovered, DiscoverySucceeds, PublishUrl, At, Reading
  <1>4. jwks'.rsa = jwks.rsa /\ jwks'.ecdsa = jwks.ecdsa /\ jwks'.cacheDate = jwks.cacheDate
    BY Facts DEF FindDiscovered, DiscoverySucceeds, PublishUrl
  <1> HIDE DEF next
  <1>5. QED
    BY <1>1, <1>2, <1>3, <1>4, MoveKeepsSInv DEF next

\* The handler is new, but nobody reads before there is a document.
LEMMA BeginDiscoveryKeepsSInv ==
  ASSUME IInv, SInv, NEW r \in Requests, BeginDiscovery(r)
  PROVE  SInv'
  <1> DEFINE next == [request[r] EXCEPT !.pc = "discovering"]
  <1>1. /\ next \in RequestStates /\ next.pc = "discovering" /\ next.index = request[r].index
        /\ next.token = request[r].token
    <2>1. request[r] \in RequestStates /\ "discovering" \in Places
      BY Facts DEF Places
    <2>2. QED
      BY <2>1, SetField DEF RequestStates
  <1>2. /\ At(r, "discover") /\ Goto(r, next) /\ ~document /\ jwks' = FreshHandler
        /\ UNCHANGED <<clock, provider, answer, settled>>
    BY DEF BeginDiscovery
  <1> HIDE DEF next
  <1>3. \A q \in Requests : request[q].pc \notin Reading \cup Loading
    BY <1>2, Facts
  <1>4. request'[r] = next /\ \A q \in Requests : q # r => request'[q] = request[q]
    BY <1>2, RequestTypes DEF IInv, Goto
  <1>5. ASSUME NEW q \in Requests
        PROVE  /\ request'[q].pc \notin Reading \cup Loading
               /\ request'[q].index = request[q].index
               /\ request'[q].token = request[q].token
               /\ request'[q].pc \in {"idle", "done"} => request'[q] = request[q]
    BY <1>1, <1>3, <1>4 DEF Reading, Loading
  <1>6. ASSUME NEW q \in settled' PROVE Settles(request'[q], jwks', provider', clock')
    <2>1. q \in Requests /\ Settles(request[q], jwks, provider, clock)
      BY <1>2, SettledFacts DEF SInv
    <2>2. Due(request'[q], provider', clock')
      BY <1>2, <1>5, <2>1 DEF Settles, Due
    <2>3. request'[q].pc # "idle" /\ (request'[q].pc = "done" => request'[q].verdict = "accepted")
      BY <1>5, <2>1 DEF Settles
    <2>4. QED
      BY <1>5, <2>1, <2>2, <2>3 DEF Settles, Reads, Reading
  <1>7. Complete(jwks', provider', jwks'.cacheDate - Latency)
    <2>1. jwks'.cacheDate = Never
      BY <1>2 DEF FreshHandler
    <2>2. \A k \in Published(provider.keys) : k \in Kids /\ provider.since[k] \in Int
      BY SearchFacts, SettledFacts
    <2>3. QED
      BY <1>2, <2>1, <2>2, SettledFacts DEF SInv, Complete
  <1>8. \A q \in Requests : request'[q].pc \notin Answered
    BY <1>5 DEF Answered, Loading
  <1>9. \A q \in Requests : request'[q].pc \notin Reading => request'[q].index = 1
    BY <1>3, <1>5 DEF SInv
  <1>10. QED
    BY <1>2, <1>6, <1>7, <1>8, <1>9 DEF SInv, At

\* The keys are recent enough, for a second attempt not older than five minutes: then they
\* hold every key that is due.
LEMMA KeysAreLoadedKeepsSInv ==
  ASSUME IInv, SInv, NEW r \in Requests, KeysAreLoaded(r)
  PROVE  SInv'
  <1> DEFINE next == [request[r] EXCEPT !.pc = "scan", !.since = Since(r)]
  <1>1. /\ At(r, "ensure") /\ Goto(r, next) /\ ~MustReload(Forced(r))
        /\ UNCHANGED <<clock, provider, answer, jwks, settled>>
    BY DEF KeysAreLoaded
  <1>2. request[r] \in RequestStates /\ Since(r) \in Int
    BY Facts, SettledFacts DEF Since, RequestStates
  <1>3. /\ next \in RequestStates /\ next.pc = "scan" /\ next.index = request[r].index
        /\ next.token = request[r].token /\ next.attempt = request[r].attempt
    BY <1>2 DEF RequestStates, Places
  <1> HIDE DEF next
  <1>4. next.index = 1
    BY <1>1, <1>3 DEF SInv, At, Reading
  <1>5. ASSUME r \in settled PROVE Settles(next, jwks, provider, clock)
    <2> DEFINE k == request[r].token.kid
    <2>1. Due(request[r], provider, clock)
      BY <1>5 DEF SInv, Settles
    <2>2. k \in Published(provider.keys) /\ provider.since[k] < clock - MinCache - Latency
      BY <2>1 DEF Due
    <2>3. k \in Kids /\ provider.since[k] \in Int
      BY <2>2, SearchFacts, SettledFacts
    <2>4. ASSUME next.attempt = 2 PROVE \E i \in 1..Len(Search(k, jwks)) : Search(k, jwks)[i] = k
      <3>1. ~(jwks.cacheDate < clock - MinCache)
        BY <1>1, <1>3, <2>4 DEF MustReload, Forced
      <3>2. provider.since[k] < jwks.cacheDate - Latency
        BY <2>2, <2>3, <3>1, SettledFacts
      <3>3. Holds(k, jwks)
        BY <2>2, <3>2 DEF SInv, Complete
      <3>4. QED
        BY <3>3, SearchFacts, SettledFacts
    <2>5. Due(next, provider, clock)
      BY <1>3, <2>1 DEF Due
    <2>6. Reads(next, Search(k, jwks))
      BY <1>3, <1>4, <2>4 DEF Reads
    <2>7. QED
      BY <1>3, <2>5, <2>6 DEF Settles
  <1>6. QED
    BY <1>1, <1>3, <1>4, <1>5, RequestKeepsSInv DEF Answered

\* Neither does a request that is about to load them.
LEMMA BeginReloadKeepsSInv ==
  ASSUME IInv, SInv, NEW r \in Requests, BeginReload(r)
  PROVE  SInv'
  <1> DEFINE next == [request[r] EXCEPT !.pc = "fetch", !.since = Since(r)]
  <1>1. /\ At(r, "ensure") /\ Goto(r, next) /\ UNCHANGED <<clock, provider, answer, jwks, settled>>
    BY DEF BeginReload
  <1>2. request[r] \in RequestStates /\ Since(r) \in Int
    BY Facts, SettledFacts DEF Since, RequestStates
  <1>3. /\ next \in RequestStates /\ next.pc = "fetch" /\ next.index = request[r].index
        /\ next.token = request[r].token
    BY <1>2 DEF RequestStates, Places
  <1> HIDE DEF next
  <1>4. QED
    BY <1>1, <1>3, MoveKeepsSInv DEF At, Reading

\* The failures of discovery and loading are no longer about a settled request.
LEMMA FailuresKeepSInv ==
  ASSUME IInv, SInv, NEW r \in Requests, DiscoveryFails(r) \/ ReloadFails(r)
  PROVE  SInv'
  <1>1. /\ Answer(r, "error") /\ "error" \in Verdicts /\ settled' = settled \ {r}
        /\ UNCHANGED <<clock, provider, answer, jwks>>
    BY DEF DiscoveryFails, ReloadFails, Verdicts
  <1>2. QED
    BY <1>1, AnswerKeepsSInv

\* A request that has ended is no longer settled.
LEMMA EndKeepsSInv ==
  ASSUME IInv, SInv, NEW r \in Requests, End(r)
  PROVE  SInv'
  <1>1. Resting \in RequestStates /\ Resting.pc = "idle" /\ Resting.index = 1
    BY RequestTypes DEF IInv, Resting
  <1>2. Goto(r, Resting) /\ settled' = settled \ {r} /\ UNCHANGED <<clock, provider, answer, jwks>>
    BY DEF End
  <1>3. QED
    BY <1>1, <1>2, RequestKeepsSInv DEF Answered, Reading

\* The provider answers with all keys that it publishes.
LEMMA FetchKeepsSInv ==
  ASSUME IInv, SInv, NEW r \in Requests, Fetch(r)
  PROVE  SInv'
  <1> DEFINE next == [request[r] EXCEPT !.pc = "decode"]
  <1>1. /\ At(r, "fetch") /\ Goto(r, next)
        /\ answer' = [rsa |-> provider.keys.rsa, ecdsa |-> provider.keys.ecdsa, date |-> clock]
        /\ UNCHANGED <<clock, provider, jwks, settled>>
    BY DEF Fetch
  <1>2. /\ next.pc = "decode" /\ next.index = request[r].index /\ next.token = request[r].token
    BY Facts DEF RequestStates
  <1> HIDE DEF next
  <1>3. request'[r] = next /\ \A q \in Requests : q # r => request'[q] = request[q]
    BY <1>1, RequestTypes DEF IInv, Goto
  <1>4. ASSUME NEW q \in settled' PROVE Settles(request'[q], jwks', provider', clock')
    <2>1. q \in Requests /\ Settles(request[q], jwks, provider, clock)
      BY <1>1, SettledFacts DEF SInv
    <2>2. CASE q = r
      BY <1>1, <1>2, <1>3, <2>1, <2>2 DEF Settles, Due, Reads, Reading
    <2>3. CASE q # r
      BY <1>1, <1>3, <2>1, <2>3
    <2>4. QED
      BY <2>2, <2>3
  <1>5. Complete(answer', provider', answer'.date)
    <2>1. answer'.rsa = provider.keys.rsa /\ answer'.ecdsa = provider.keys.ecdsa
      BY <1>1
    <2>2. \A k \in Published(provider.keys) : Holds(k, provider.keys)
      BY SearchFacts, SettledFacts
    <2>3. QED
      BY <1>1, <2>1, <2>2 DEF Complete, Holds, Search
  <1>6. \A q \in Requests : request'[q].pc \notin Reading => request'[q].index = 1
    BY <1>1, <1>2, <1>3 DEF SInv, At, Reading
  <1>7. QED
    BY <1>1, <1>4, <1>5, <1>6 DEF SInv

\* What a reader is left with when a slice is replaced: it was not overtaken.
LEMMA ReadersSurvive ==
  ASSUME IInv, SInv, NEW kids, NEW keys, NEW slice, Slices(keys),
         NEW q \in settled \ Overtaken(kids, slice),
         request[q].token.kid \in kids => Search(request[q].token.kid, keys) = slice,
         request[q].token.kid \notin kids =>
           Search(request[q].token.kid, keys) = Search(request[q].token.kid, jwks)
  PROVE  Settles(request[q], keys, provider, clock)
  <1>1. q \in Requests /\ Settles(request[q], jwks, provider, clock)
    BY SettledFacts DEF SInv
  <1>2. CASE request[q].token.kid \notin kids
    BY <1>1, <1>2 DEF Settles
  <1>3. CASE request[q].token.kid \in kids /\ request[q].pc \notin Reading
    BY <1>1, <1>3 DEF Settles, Reads, Reading
  <1>4. CASE request[q].token.kid \in kids /\ request[q].pc \in Reading
    <2>1. /\ request[q].attempt # 2
          /\ At(q, "scan") \/ ~(request[q].index > Len(slice))
      BY <1>1, <1>4 DEF Overtaken, Reading
    <2>2. Len(slice) \in Nat /\ request[q].index \in Nat
      BY <1>1, <1>4, SearchFacts, Facts
    <2>3. Reads(request[q], slice)
      BY <2>1, <2>2 DEF Reads, At
    <2>4. QED
      BY <1>1, <1>4, <2>3 DEF Settles
  <1>5. QED
    BY <1>2, <1>3, <1>4

\* The new slice holds all keys that are published, the other one what it held.
LEMMA InstallRsaKeepsSInv ==
  ASSUME IInv, SInv, NEW r \in Requests, InstallRsa(r)
  PROVE  SInv'
  <1> DEFINE next == [request[r] EXCEPT !.pc = "install"]
  <1>1. /\ At(r, "decode") /\ request[r].pc \in Answered /\ Goto(r, next)
        /\ jwks' = [jwks EXCEPT !.rsa = answer.rsa]
        /\ settled' = settled \ Overtaken(RsaKids, answer.rsa)
        /\ UNCHANGED <<clock, provider, answer>>
    BY DEF InstallRsa, At, Answered
  <1>2. /\ next.pc = "install" /\ next.index = request[r].index /\ next.token = request[r].token
        /\ next.attempt = request[r].attempt
    BY Facts DEF RequestStates
  <1> HIDE DEF next
  <1>3. request'[r] = next /\ \A q \in Requests : q # r => request'[q] = request[q]
    BY <1>1, RequestTypes DEF IInv, Goto
  <1>4. /\ jwks'.rsa = answer.rsa /\ jwks'.ecdsa = jwks.ecdsa
        /\ jwks'.cacheDate = jwks.cacheDate
    BY <1>1, Facts
  <1>5. Slices(jwks') /\ Slices(answer)
    BY <1>4, SettledFacts DEF Slices
  <1>6. Complete(answer, provider, answer.date)
    BY <1>1 DEF SInv
  <1>7. ASSUME NEW q \in settled' PROVE Settles(request'[q], jwks', provider', clock')
    <2>1. q \in Requests /\ Settles(request[q], jwks, provider, clock)
      BY <1>1, SettledFacts DEF SInv
    <2>2. CASE q = r
      BY <1>1, <1>2, <1>3, <2>1, <2>2 DEF Settles, Due, Reads, Reading
    <2>3. CASE q # r
      <3>1. /\ request[q].token.kid \in RsaKids =>
                 Search(request[q].token.kid, jwks') = answer.rsa
            /\ request[q].token.kid \notin RsaKids =>
                 Search(request[q].token.kid, jwks') = Search(request[q].token.kid, jwks)
        BY <1>4, JwksAssumption DEF Search
      <3>2. Settles(request[q], jwks', provider, clock)
        BY <1>1, <1>5, <3>1, ReadersSurvive
      <3>3. QED
        BY <1>1, <1>3, <2>1, <2>3, <3>2
    <2>4. QED
      BY <2>2, <2>3
  <1>8. Complete(jwks', provider, jwks.cacheDate - Latency)
    <2> SUFFICES ASSUME NEW k \in Published(provider.keys), provider.since[k] < jwks.cacheDate - Latency
                 PROVE  Holds(k, jwks')
      BY DEF Complete
    <2>0. k \in Kids /\ provider.since[k] \in Int
      BY SearchFacts, SettledFacts
    <2>1. Holds(k, answer) /\ Holds(k, jwks)
      <3>1. provider.since[k] < answer.date
        BY <1>1, <2>0, AnswerFacts, SettledFacts
      <3>2. QED
        BY <1>6, <3>1 DEF SInv, Complete
    <2>2. QED
      BY <1>4, <2>1, JwksAssumption DEF Holds, Search
  <1>9. Complete(answer', provider, answer'.date)
    BY <1>1, <1>6
  <1>10. \A q \in Requests : request'[q].pc \notin Reading => request'[q].index = 1
    BY <1>1, <1>2, <1>3 DEF SInv, At, Reading
  <1>11. QED
    BY <1>1, <1>4, <1>7, <1>8, <1>9, <1>10 DEF SInv

\* The load is complete: so are the keys, by the time at which it was made.
LEMMA InstallEcdsaKeepsSInv ==
  ASSUME IInv, SInv, NEW r \in Requests, InstallEcdsa(r)
  PROVE  SInv'
  <1> DEFINE next == [request[r] EXCEPT !.pc = "scan"]
  <1>1. /\ At(r, "install") /\ request[r].pc \in Answered /\ Goto(r, next)
        /\ jwks' = [jwks EXCEPT !.ecdsa = answer.ecdsa, !.cacheDate = clock]
        /\ settled' = settled \ Overtaken(EcdsaKids, answer.ecdsa)
        /\ UNCHANGED <<clock, provider>>
    BY DEF InstallEcdsa, At, Answered
  <1>2. /\ next.pc = "scan" /\ next.index = request[r].index /\ next.token = request[r].token
        /\ next.attempt = request[r].attempt
    BY Facts DEF RequestStates
  <1> HIDE DEF next
  <1>3. request'[r] = next /\ \A q \in Requests : q # r => request'[q] = request[q]
    BY <1>1, RequestTypes DEF IInv, Goto
  <1>4. /\ jwks'.rsa = jwks.rsa /\ jwks'.ecdsa = answer.ecdsa /\ jwks'.cacheDate = clock
        /\ jwks.rsa = answer.rsa
    <2>1. jwks'.rsa = jwks.rsa /\ jwks'.ecdsa = answer.ecdsa /\ jwks'.cacheDate = clock
      BY <1>1, Facts
    <2>2. QED
      BY <1>1, <2>1 DEF IInv, LoaderHoldsLock
  <1>5. Slices(jwks') /\ \A k : Search(k, jwks') = Search(k, answer)
    BY <1>4, SettledFacts DEF Slices, Search
  <1>6. Complete(jwks', provider, clock - Latency)
    <2> SUFFICES ASSUME NEW k \in Published(provider.keys), provider.since[k] < clock - Latency
                 PROVE  Holds(k, jwks')
      BY DEF Complete
    <2>1. k \in Kids /\ provider.since[k] \in Int
      BY SearchFacts, SettledFacts
    <2>2. provider.since[k] < answer.date
      BY <1>1, <2>1, AnswerFacts, SettledFacts
    <2>3. Holds(k, answer)
      BY <1>1, <2>2 DEF SInv, Complete
    <2>4. QED
      BY <1>5, <2>3 DEF Holds
  <1>7. next.index = 1
    BY <1>1, <1>2 DEF SInv, At, Reading
  <1>8. ASSUME NEW q \in settled' PROVE Settles(request'[q], jwks', provider', clock')
    <2>1. q \in Requests /\ Settles(request[q], jwks, provider, clock)
      BY <1>1, SettledFacts DEF SInv
    <2>2. CASE q = r
      <3> DEFINE k == request[r].token.kid
      <3>1. k \in Published(provider.keys) /\ provider.since[k] < clock - MinCache - Latency
        BY <2>1, <2>2 DEF Settles, Due
      <3>2. provider.since[k] \in Int
        BY <3>1, SearchFacts, SettledFacts
      <3>3. Holds(k, jwks')
        BY <1>6, <3>1, <3>2, SettledFacts DEF Complete
      <3>4. \E i \in 1..Len(Search(k, jwks')) : Search(k, jwks')[i] = k
        BY <1>5, <3>3, SearchFacts
      <3>5. Reads(next, Search(k, jwks'))
        BY <1>2, <1>7, <3>4 DEF Reads
      <3>6. QED
        BY <1>1, <1>2, <1>3, <2>1, <2>2, <3>5 DEF Settles, Due
    <2>3. CASE q # r
      <3>1. /\ request[q].token.kid \in EcdsaKids =>
                 Search(request[q].token.kid, jwks') = answer.ecdsa
            /\ request[q].token.kid \notin EcdsaKids =>
                 Search(request[q].token.kid, jwks') = Search(request[q].token.kid, jwks)
        BY <1>4, JwksAssumption DEF Search
      <3>2. Settles(request[q], jwks', provider, clock)
        BY <1>1, <1>5, <3>1, ReadersSurvive
      <3>3. QED
        BY <1>1, <1>3, <2>1, <2>3, <3>2
    <2>4. QED
      BY <2>2, <2>3
  <1>9. \A q \in Requests : request'[q].pc \notin Answered
    BY <1>1, <1>2, <1>3, Facts DEF Answered, Loading
  <1>10. \A q \in Requests : request'[q].pc \notin Reading => request'[q].index = 1
    BY <1>2, <1>3, <1>7 DEF SInv
  <1>11. QED
    BY <1>1, <1>4, <1>6, <1>8, <1>9, <1>10 DEF SInv, At

\* Only a first attempt of a settled request fails.
LEMMA ParseFailsKeepsSInv ==
  ASSUME IInv, SInv, NEW r \in Requests, request[r].pc \in Reading, ParseFails(r),
         UNCHANGED <<clock, provider, answer, jwks, settled>>,
         r \in settled => request[r].attempt # 2
  PROVE  SInv'
  <1>1. request[r].attempt \in {1, 2} /\ request[r] \in RequestStates
    BY Facts DEF RequestStates
  <1>2. CASE request[r].attempt = 1
    <2> DEFINE next == [request[r] EXCEPT !.pc = "ensure", !.attempt = 2, !.index = 1]
    <2>1. "ensure" \in Places /\ 2 \in {1, 2} /\ 1 \in Nat \ {0}
      BY DEF Places
    <2>2. next \in RequestStates
      BY <1>1, <2>1, SetField, Zenon
    <2>3. next.pc = "ensure" /\ next.index = 1 /\ next.token = request[r].token
      BY <1>1 DEF RequestStates
    <2>4. Goto(r, next)
      BY <1>2 DEF ParseFails
    <2> HIDE DEF next
    <2>5. r \in settled => Settles(next, jwks, provider, clock)
      BY <2>3 DEF SInv, Settles, Due, Reads, Reading
    <2>6. QED
      BY <2>2, <2>3, <2>4, <2>5, RequestKeepsSInv DEF Answered, Reading
  <1>3. CASE request[r].attempt = 2
    <2>1. Answer(r, "refused") /\ "refused" \in Verdicts /\ r \notin settled
      BY <1>3 DEF ParseFails, Verdicts
    <2>2. QED
      BY <2>1, AnswerKeepsSInv
  <1>4. QED
    BY <1>1, <1>2, <1>3

\* The key of a second attempt is not behind the end of the slice.
LEMMA ScanKeepsSInv ==
  ASSUME IInv, SInv, NEW r \in Requests, Scan(r)
  PROVE  SInv'
  <1> DEFINE k == request[r].token.kid
             slice == Search(k, jwks)
  <1>1. /\ At(r, "scan") /\ request[r].pc \in Reading /\ Slice(r) = slice
        /\ UNCHANGED <<clock, provider, answer, jwks, settled>>
    BY SettledFacts DEF Scan, Lookup, At, Reading
  <1>2. Len(slice) \in Nat /\ request[r].index \in Nat
    BY SearchFacts, SettledFacts, Facts
  <1>3. r \in settled => Settles(request[r], jwks, provider, clock)
    BY DEF SInv
  <1> HIDE DEF slice
  <1>4. CASE request[r].index <= Len(slice)
    <2> DEFINE next == [request[r] EXCEPT !.pc = "compare"]
    <2>1. request[r] \in RequestStates /\ "compare" \in Places
      BY Facts DEF Places
    <2>2. /\ next \in RequestStates /\ next.pc = "compare" /\ next.index = request[r].index
          /\ next.token = request[r].token /\ next.attempt = request[r].attempt
      BY <2>1, SetField DEF RequestStates
    <2>3. Goto(r, next)
      BY <1>1, <1>4 DEF Scan
    <2> HIDE DEF next
    <2>4. r \in settled => Settles(next, jwks, provider, clock)
      BY <1>1, <1>3, <1>4, <2>2 DEF Settles, Due, Reads, Reading, slice
    <2>5. next.pc \in Reading /\ next.pc \notin Answered
      BY <2>2 DEF Answered, Reading
    <2>6. QED
      BY <1>1, <2>2, <2>3, <2>4, <2>5, RequestKeepsSInv
  <1>5. CASE ~(request[r].index <= Len(slice))
    <2>1. r \in settled => request[r].attempt # 2
      BY <1>1, <1>2, <1>3, <1>5 DEF Settles, Reads, slice
    <2>2. ParseFails(r)
      BY <1>1, <1>5 DEF Scan
    <2>3. QED
      BY <1>1, <2>1, <2>2, ParseFailsKeepsSInv
  <1>6. QED
    BY <1>4, <1>5

\* The entry is the key, or the search goes on behind it.
LEMMA CompareKeepsSInv ==
  ASSUME IInv, SInv, NEW r \in Requests, Compare(r)
  PROVE  SInv'
  <1> DEFINE k == request[r].token.kid
             slice == Search(k, jwks)
             i == request[r].index
  <1>1. /\ At(r, "compare") /\ request[r].pc \in Reading /\ Slice(r) = slice
        /\ UNCHANGED <<clock, provider, answer, jwks, settled>>
    BY SettledFacts DEF Compare, Lookup, At, Reading
  <1>2. Len(slice) \in Nat /\ i \in Nat /\ i >= 1 /\ request[r] \in RequestStates
    BY SearchFacts, SettledFacts, Facts
  <1>3. r \in settled => Settles(request[r], jwks, provider, clock)
    BY DEF SInv
  <1>4. r \in settled => Reads(request[r], slice) /\ Due(request[r], provider, clock)
    BY <1>3 DEF Settles
  <1> HIDE DEF slice
  <1>5. CASE i > Len(slice)
    <2>1. Answer(r, "panic") /\ "panic" \in Verdicts
      BY <1>1, <1>5 DEF Compare, Verdicts
    <2>2. r \notin settled
      BY <1>1, <1>2, <1>4, <1>5 DEF Reads, At
    <2>3. QED
      BY <1>1, <2>1, <2>2, AnswerKeepsSInv
  <1>6. CASE ~(i > Len(slice)) /\ slice[i] = k
    <2> DEFINE next == [request[r] EXCEPT !.pc = "take"]
    <2>1. "take" \in Places
      BY DEF Places
    <2>2. /\ next \in RequestStates /\ next.pc = "take" /\ next.index = i
          /\ next.token = request[r].token /\ next.attempt = request[r].attempt
      BY <1>2, <2>1, SetField DEF RequestStates
    <2>3. Goto(r, next)
      BY <1>1, <1>6 DEF Compare
    <2> HIDE DEF next
    <2>4. r \in settled => Settles(next, jwks, provider, clock)
      <3>1. ~(next.index > Len(slice)) /\ slice[next.index] = next.token.kid
        BY <1>6, <2>2
      <3>2. r \in settled => Reads(next, slice)
        BY <1>1, <1>2, <1>4, <2>2, <3>1 DEF Reads
      <3>3. QED
        BY <1>4, <2>2, <3>2 DEF Settles, Due, slice
    <2>5. next.pc \in Reading /\ next.pc \notin Answered
      BY <2>2 DEF Answered, Reading
    <2>6. QED
      BY <1>1, <2>2, <2>3, <2>4, <2>5, RequestKeepsSInv
  <1>7. CASE ~(i > Len(slice)) /\ slice[i] # k
    <2> DEFINE next == [request[r] EXCEPT !.pc = "scan", !.index = i + 1]
    <2>1. "scan" \in Places /\ i + 1 \in Nat \ {0}
      <3>1. "scan" \in Places
        BY DEF Places
      <3>2. i + 1 \in Nat \ {0}
        BY <1>2
      <3>3. QED
        BY <3>1, <3>2
    <2>2. next \in RequestStates
      BY <1>2, <2>1, SetField, Zenon
    <2>3. /\ next.pc = "scan" /\ next.index = i + 1
          /\ next.token = request[r].token /\ next.attempt = request[r].attempt
      BY <1>2 DEF RequestStates
    <2>4. Goto(r, next)
      BY <1>1, <1>7 DEF Compare
    <2> HIDE DEF next
    <2>5. ASSUME r \in settled, request[r].attempt = 2
          PROVE  \E j \in (i + 1)..Len(slice) : slice[j] = k
      <3>1. \E j \in i..Len(slice) : slice[j] = k
        BY <1>1, <1>4, <2>5 DEF Reads
      <3>2. QED
        BY <1>2, <1>7, <3>1
    <2>6. r \in settled => Reads(next, slice)
      BY <2>3, <2>5 DEF Reads
    <2>7. r \in settled => Settles(next, jwks, provider, clock)
      BY <1>4, <2>3, <2>6 DEF Settles, Due, slice
    <2>8. next.pc \in Reading /\ next.pc \notin Answered
      BY <2>3 DEF Answered, Reading
    <2>9. QED
      BY <1>1, <2>2, <2>4, <2>7, <2>8, RequestKeepsSInv
  <1>8. QED
    BY <1>5, <1>6, <1>7

\* The entry that is returned is still the key, and a valid token is accepted.
LEMMA TakeKeepsSInv ==
  ASSUME IInv, SInv, NEW r \in Requests, Take(r)
  PROVE  SInv'
  <1> DEFINE k == request[r].token.kid
             slice == Search(k, jwks)
             i == request[r].index
  <1>1. /\ At(r, "take") /\ request[r].pc \in Reading /\ Slice(r) = slice
        /\ UNCHANGED <<clock, provider, answer, jwks, settled>>
    BY SettledFacts DEF Take, Lookup, At, Reading
  <1>2. Len(slice) \in Nat /\ i \in Nat
    BY SearchFacts, SettledFacts, Facts
  <1>3. r \in settled => Settles(request[r], jwks, provider, clock)
    BY DEF SInv
  <1>4. r \in settled => Reads(request[r], slice) /\ request[r].token.kind = "valid"
    BY <1>3 DEF Settles, Due
  <1> HIDE DEF slice
  <1>5. CASE i > Len(slice)
    <2>1. Answer(r, "panic") /\ "panic" \in Verdicts
      BY <1>1, <1>5 DEF Take, Verdicts
    <2>2. r \notin settled
      BY <1>1, <1>2, <1>4, <1>5 DEF Reads, At
    <2>3. QED
      BY <1>1, <2>1, <2>2, AnswerKeepsSInv
  <1>6. CASE ~(i > Len(slice)) /\ (slice[i] # k \/ request[r].token.kind = "invalid")
    <2>1. r \in settled => request[r].attempt # 2
      BY <1>1, <1>4, <1>6 DEF Reads, At
    <2>2. ParseFails(r)
      BY <1>1, <1>6 DEF Take
    <2>3. QED
      BY <1>1, <2>1, <2>2, ParseFailsKeepsSInv
  <1>7. CASE ~(i > Len(slice)) /\ ~(slice[i] # k \/ request[r].token.kind = "invalid")
    <2>1. PICK verdict \in {"expired", "accepted"} :
            Answer(r, verdict) /\ (verdict = "expired" => request[r].token.kind = "expired")
      BY <1>1, <1>7 DEF Take
    <2>2. verdict \in Verdicts /\ (r \in settled => verdict = "accepted")
      BY <1>4, <2>1 DEF Verdicts
    <2>3. QED
      BY <1>1, <2>1, <2>2, AnswerKeepsSInv
  <1>8. QED
    BY <1>5, <1>6, <1>7

\* Keys only get older.
LEMMA TickKeepsSInv == IInv /\ SInv /\ Tick => SInv'
  <1> SUFFICES ASSUME IInv, SInv, Tick
               PROVE  SInv'
    OBVIOUS
  <1>1. /\ clock' = clock + 1
        /\ UNCHANGED <<provider, jwks, answer, request, settled>>
    BY DEF Tick
  <1>2. ASSUME NEW q \in settled PROVE Settles(request[q], jwks, provider, clock + 1)
    <2>1. Settles(request[q], jwks, provider, clock)
      BY DEF SInv
    <2>2. request[q].token.kid \in Published(provider.keys)
      BY <2>1 DEF Settles, Due
    <2>3. provider.since[request[q].token.kid] \in Int
      BY <2>2, SearchFacts, SettledFacts
    <2>4. Due(request[q], provider, clock + 1)
      BY <2>1, <2>3, SettledFacts DEF Settles, Due
    <2>5. QED
      BY <2>1, <2>4 DEF Settles
  <1>3. QED
    BY <1>1, <1>2 DEF SInv, At

\* A key that stays published keeps its age; a new one is too young to be missed.
LEMMA RotateKeepsSInv ==
  ASSUME IInv, SInv, NEW keys \in KeySets, Rotate(keys)
  PROVE  SInv'
  <1>1. /\ settled' = {r \in settled : request[r].token.kid \in Published(keys)}
        /\ provider'.keys = keys
        /\ UNCHANGED <<clock, jwks, answer, request>>
    BY DEF Rotate
  <1>2. ASSUME NEW k \in Kids
        PROVE  provider'.since[k] = IF (k \in Published(keys)) = (k \in Published(provider.keys))
                                    THEN provider.since[k] ELSE clock
    BY DEF Rotate
  <1>3. \A k \in Published(keys) : k \in Kids
    BY SearchFacts, SettledFacts
  <1>4. ASSUME NEW q \in settled' PROVE Settles(request'[q], jwks', provider', clock')
    <2>1. Settles(request[q], jwks, provider, clock) /\ request[q].token.kid \in Published(keys)
      BY <1>1 DEF SInv
    <2>2. Due(request[q], provider', clock)
      BY <1>1, <1>2, <1>3, <2>1 DEF Settles, Due
    <2>3. QED
      BY <1>1, <2>1, <2>2 DEF Settles
  <1>5. ASSUME NEW date \in Int, date <= clock, NEW cached, Complete(cached, provider, date)
        PROVE  Complete(cached, provider', date)
    <2> SUFFICES ASSUME NEW k \in Published(keys), provider'.since[k] < date
                 PROVE  Holds(k, cached)
      BY <1>1 DEF Complete
    <2>1. k \in Published(provider.keys) /\ provider'.since[k] = provider.since[k]
      BY <1>2, <1>3, <1>5, SettledFacts
    <2>2. QED
      BY <1>5, <2>1 DEF Complete
  <1>6. Complete(jwks, provider', jwks.cacheDate - Latency)
    <2>1. jwks.cacheDate - Latency \in Int /\ jwks.cacheDate - Latency <= clock
      BY SettledFacts
    <2>2. QED
      BY <1>5, <2>1 DEF SInv
  <1>7. \A r \in Requests : request[r].pc \in Answered => Complete(answer, provider', answer.date)
    BY <1>5, AnswerFacts DEF SInv
  <1>8. \A k \in Kids : provider'.since[k] >= Never
    BY <1>2, SettledFacts DEF SInv
  <1>9. QED
    BY <1>1, <1>4, <1>6, <1>7, <1>8 DEF SInv, At

\* Every step preserves what is said of settled requests.
LEMMA StepSInv == IInv /\ SInv /\ [Next]_vars => SInv'
  <1> SUFFICES ASSUME IInv, SInv, [Next]_vars
               PROVE  SInv'
    OBVIOUS
  <1>1. ASSUME NEW r \in Requests, Proceed(r)
        PROVE  SInv'
    BY <1>1, DiscoveryKeepsSInv, BeginDiscoveryKeepsSInv, KeysAreLoadedKeepsSInv,
       BeginReloadKeepsSInv, FailuresKeepSInv, FetchKeepsSInv, InstallRsaKeepsSInv, InstallEcdsaKeepsSInv,
       ScanKeepsSInv, CompareKeepsSInv, TakeKeepsSInv, EndKeepsSInv DEF Proceed
  <1>2. ASSUME NEW r \in Requests, NEW token \in Tokens, Begin(r, token)
        PROVE  SInv'
    BY <1>2, BeginKeepsSInv
  <1>3. CASE \E keys \in KeySets : Rotate(keys)
    BY <1>3, RotateKeepsSInv
  <1>4. CASE Tick
    BY <1>4, TickKeepsSInv
  <1>5. CASE UNCHANGED vars
    BY <1>5 DEF vars, SInv, At
  <1>6. QED
    BY <1>1, <1>2, <1>3, <1>4, <1>5 DEF Next

\* A valid token whose key the provider has published for more than five minutes is
\* accepted, however loads, rotations and other requests interleave: if the cached keys
\* miss it, the second attempt of validateTokenLocally is not refused its reload.
THEOREM SettledTokensPass == Spec => []SettledTokensAreAccepted
  <1>1. SInv => SettledTokensAreAccepted
    BY DEF SInv, Settles, SettledTokensAreAccepted, At
  <1>2. QED
    BY <1>1, InitIInv, StepIInv, InitSInv, StepSInv, PTL DEF Spec

=============================================================================
