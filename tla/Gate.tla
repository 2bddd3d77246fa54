-------------------------------- MODULE Gate --------------------------------
(***************************************************************************)
(* What one request gets: ServeHTTP and the handlers it calls               *)
(* (src/src/main.go), with everything that is decided from the request and  *)
(* the configuration alone - the bypass rule (RequestCondition), the claim  *)
(* assertions (Authorization), the redirect_uri (RedirectUri) and the       *)
(* Accept header.  Middleware takes these decisions as inputs, and models   *)
(* what happens between requests instead.                                   *)
(***************************************************************************)
EXTENDS Authorization, RequestCondition, RedirectUri

CONSTANT Families   \* a sequence of [configs, requests]

NoRule == <<>>
Behaviors == {"Challenge", "Unauthorized", "Forward", "Auto"}

IsConfig(c) ==
  /\ DOMAIN c = {"rule", "assertions", "checkOnEveryRequest", "unauthenticated", "unauthorized",
                 "validUris", "wildcards", "postLogin", "postLogout"}
  /\ c.rule # NoRule => IsExpression(c.rule)
  /\ c.assertions \in Seq(Assertion) /\ c.checkOnEveryRequest \in BOOLEAN
  /\ c.unauthenticated \in Behaviors /\ c.unauthorized \in Behaviors \ {"Auto"}
  /\ c.validUris \in Seq(Uri) /\ c.wildcards \in BOOLEAN
  /\ c.postLogin \in Uri /\ c.postLogout \in Uri

IsRequest(r) ==
  /\ r.to \in {"page", "login", "logout", "callback"}
  /\ r.session \in [kind : {"none", "cookie", "header"}, authorized : BOOLEAN, challenged : BOOLEAN]
  /\ r.claims \in [Names -> Seq(Node)]
  /\ r.accept \in Seq([type : STRING, weight : Nat])
  /\ r.redirectUri \in Uri /\ r.origin \in Uri /\ r.uri \in Uri
  /\ \A field \in {"path", "host", "method"} : r[field] \in Texts
  /\ \A field \in {"header", "query"} : \A name \in DOMAIN r[field] : r[field][name] \in Texts

ASSUME FamiliesAssumption ==
  \A f \in DOMAIN Families :
    (\A c \in Families[f].configs : IsConfig(c)) /\ \A r \in Families[f].requests : IsRequest(r)

VARIABLES config, request,
          pc,         \* where ServeHTTP is
          condition,  \* the compiled BypassAuthenticationRule
          public,     \* it has matched
          outcome,    \* the answer, and ...
          target      \* ... where a login or a logout is to end (<<>>: none)

decision == <<config, request, pc, condition, public, outcome, target>>
vars == <<decision, authorization>>

TypeOK ==
  /\ AuthorizationTypeOK
  /\ IsConfig(config) /\ IsRequest(request)
  /\ pc \in {"create", "arrive", "route", "authorize", "decide", "done"}
  /\ condition.sort \in {"none", "error", "builder"} /\ public \in BOOLEAN
  /\ outcome \in {"none", "misconfigured", "callback", "login", "logout", "forwarded",
                  "unauthenticated", "unauthorized", "badRequest"}
  /\ outcome = "none" <=> pc # "done"
  /\ target \in Uri /\ (target # <<>> => outcome \in {"login", "logout"})

Init ==
  /\ \E f \in DOMAIN Families : config \in Families[f].configs /\ request \in Families[f].requests
  /\ AuthorizationInit(config.assertions, request.claims)
  /\ pc = "create" /\ condition = [sort |-> "none"] /\ public = FALSE
  /\ outcome = "none" /\ target = <<>>

At(where) == pc = where
Done(answer, uri) == pc' = "done" /\ outcome' = answer /\ target' = uri
Answer(answer) == Done(answer, <<>>)
Goto(where) == pc' = where /\ UNCHANGED <<outcome, target>>

\* Fault: the error is reported, and New goes on without the rule.
Create_Fault ==
  LET parsed == ParseRequestCondition(config.rule) IN
  /\ At("create")
  /\ pc' = "arrive"
  /\ outcome' = IF config.rule # NoRule /\ parsed = Error THEN "misconfigured" ELSE outcome
  /\ condition' = IF config.rule = NoRule THEN condition ELSE parsed
  /\ UNCHANGED <<target, config, request, public, authorization>>

\* New: a rule that can not be read keeps the plugin from starting.
Create ==
  LET parsed == ParseRequestCondition(config.rule) IN
  /\ At("create")
  /\ IF config.rule = NoRule THEN Goto("arrive") /\ UNCHANGED condition
     ELSE /\ condition' = parsed
          /\ IF parsed = Error THEN Answer("misconfigured") ELSE Goto("arrive")
  /\ UNCHANGED <<config, request, public, authorization>>

Arrive ==
  /\ At("arrive")
  /\ public' = (condition.sort = "builder" /\ Match(condition.tree, request))
  /\ Goto("route")
  /\ UNCHANGED <<config, request, condition, authorization>>

(***************************************************************************)
(* IsHtmlRequest: is the first type of the greatest weight HTML?  The answers *)
(* it may give: sort.Slice promises no order to types of the same weight.    *)
(***************************************************************************)
IsHtmlRequest ==
  LET types == {t \in ToSet(request.accept) : t.type # "malformed"} IN
  IF types = {} THEN {FALSE}
  ELSE {(t.type \in {"text/html", "application/xhtml+xml"}) :
          t \in {u \in types : \A v \in types : v.weight <= u.weight}}

\* Fault: the target of a login is taken from the request without a look at the list.
HandleLogin_Fault ==
  Done("login", IF request.redirectUri # <<>> THEN request.redirectUri ELSE request.origin \o request.uri)

\* handleLogin: the redirect_uri of every request is validated, that of a
\* login request is followed.  Without one a page leads back to itself, and
\* the login URI to the host.
HandleLogin ==
  IF ~ValidRedirectUri(request.redirectUri, config.validUris, config.wildcards) THEN Answer("badRequest")
  ELSE Done("login",
         IF request.to = "login" /\ request.redirectUri # <<>> THEN request.redirectUri
         ELSE IF config.postLogin # <<>> THEN EnsureAbsoluteUrl(request.origin, config.postLogin)
         ELSE IF request.to = "login" THEN request.origin
         ELSE request.origin \o request.uri)

HandleLogout ==
  IF ~ValidRedirectUri(request.redirectUri, config.validUris, config.wildcards) THEN Answer("badRequest")
  ELSE Done("logout", EnsureAbsoluteUrl(request.origin,
                        IF request.redirectUri # <<>> THEN request.redirectUri ELSE config.postLogout))

HandleUnauthenticated ==
  \E html \in IsHtmlRequest :
    CASE config.unauthenticated = "Challenge" -> HandleLogin
      [] config.unauthenticated = "Forward" -> Answer("forwarded")
      [] config.unauthenticated = "Auto" /\ html -> HandleLogin
      [] OTHER -> Answer("unauthenticated")

HandleUnauthorized ==
  \E html \in IsHtmlRequest :
    IF config.unauthorized = "Challenge" /\ ~request.session.challenged /\ html
    THEN HandleLogin ELSE Answer("unauthorized")

(***************************************************************************)
(* ServeHTTP                                                                *)
(***************************************************************************)
ServeCallback ==
  /\ At("route") /\ request.to = "callback"
  /\ Answer("callback")
  /\ UNCHANGED <<config, request, condition, public, authorization>>

ServeLogin ==
  /\ At("route") /\ request.to = "login"
  /\ HandleLogin
  /\ UNCHANGED <<config, request, condition, public, authorization>>

\* Fault: the bypass rule is asked only if there is a session.
ServeWithoutSession_Fault ==
  /\ At("route") /\ request.to \in {"page", "logout"} /\ request.session.kind = "none"
  /\ HandleUnauthenticated
  /\ UNCHANGED <<config, request, condition, public, authorization>>

ServeWithoutSession ==
  /\ At("route") /\ request.to \in {"page", "logout"} /\ request.session.kind = "none"
  /\ IF public THEN Answer("forwarded") ELSE HandleUnauthenticated
  /\ UNCHANGED <<config, request, condition, public, authorization>>

ServeLogout ==
  /\ At("route") /\ request.to = "logout" /\ request.session.kind # "none"
  /\ HandleLogout
  /\ UNCHANGED <<config, request, condition, public, authorization>>

\* A session of an AuthorizationHeader or AuthorizationCookie has no cached result.
Checked == request.session.kind = "header" \/ config.checkOnEveryRequest

ServeSession ==
  /\ At("route") /\ request.to = "page" /\ request.session.kind # "none"
  /\ Goto(IF Checked THEN "authorize" ELSE "decide")
  /\ UNCHANGED <<config, request, condition, public, authorization>>

Authorize ==
  /\ At("authorize")
  /\ AuthorizationNext
  /\ Goto(IF verdict' = "none" THEN "authorize" ELSE "decide")
  /\ UNCHANGED <<config, request, condition, public>>

\* Fault: what is cached in the session is trusted also where it is checked.
IsAuthorized_Fault == request.session.authorized \/ verdict = "authorized"

IsAuthorized == IF Checked THEN verdict = "authorized" ELSE request.session.authorized

Decide ==
  /\ At("decide")
  /\ IF IsAuthorized \/ config.unauthorized = "Forward" THEN Answer("forwarded") ELSE HandleUnauthorized
  /\ UNCHANGED <<config, request, condition, public, authorization>>

Finished == At("done") /\ UNCHANGED vars

Next ==
  \/ Create \/ Arrive
  \/ ServeCallback \/ ServeLogin \/ ServeWithoutSession \/ ServeLogout \/ ServeSession
  \/ Authorize \/ Decide
  \/ Finished

Spec == Init /\ [][Next]_vars

-----------------------------------------------------------------------------
(***************************************************************************)
(* Properties                                                               *)
(***************************************************************************)
Bypassed == config.rule # NoRule /\ IsCondition(config.rule) /\ Holds(config.rule, request)

\* The plugin starts with exactly the rules that are Boolean expressions of
\* well-formed matchers, and lets a request through if the expression is true:
\* passing through reflection, the tree and the negations pushed to its leaves
\* changes nothing (parse.go, parser.go, requestCondition.go).
RuleMeansWhatItSays ==
  /\ outcome = "misconfigured" <=> At("done") /\ config.rule # NoRule /\ ~IsCondition(config.rule)
  /\ At("route") => public = Bypassed

Entitled ==
  IF Checked THEN \A i \in DOMAIN assertions : Satisfied(assertions[i]) ELSE request.session.authorized

\* Nothing gets upstream but what the rule bypasses, what the session is
\* entitled to, and what the behaviours forward (ServeHTTP, main.go:110-189).
ForwardedIsAllowed ==
  outcome = "forwarded" =>
    IF request.session.kind = "none" THEN Bypassed \/ config.unauthenticated = "Forward"
    ELSE Entitled \/ config.unauthorized = "Forward"

\* A page is not refused to an entitled session, nor to a request without one
\* that the rule bypasses - where the loop over the claims sees all of them.
\* (A public page is refused to a session that is not entitled, main.go:156.)
EntitledIsForwarded ==
  /\ At("done") /\ request.to = "page" /\ outcome # "misconfigured"
  /\ IF request.session.kind = "none" THEN Bypassed
     ELSE /\ Entitled
          /\ Checked => \A i \in DOMAIN assertions : ~Hidden(assertions[i]) /\ ~Repeats(assertions[i])
  => outcome = "forwarded"

Entries == {config.validUris[i] : i \in DOMAIN config.validUris}
OwnTargets == {request.origin, request.origin \o request.uri}
              \cup {EnsureAbsoluteUrl(request.origin, uri) : uri \in {config.postLogin, config.postLogout}}

\* A login or logout ends at the plugin's own pages or at a URI that an entry of
\* the list stands for (ValidateRedirectUri, handleLogin, handleLogout).  Of a
\* relative entry with "://" in it the code takes what comes before for the scheme
\* (utils.go:328); what it then accepts still begins like the entry.
TargetsAreRegistered ==
  target # <<>> =>
    \/ target \in OwnTargets
    \/ /\ request.to = "login" => target = request.redirectUri
       /\ request.to = "logout" => target = EnsureAbsoluteUrl(request.origin, request.redirectUri)
       /\ \E entry \in Entries :
            \/ Registered(request.redirectUri, entry, config.wildcards)
            \/ config.wildcards /\ Misread(request.redirectUri, entry)

\* A redirect_uri that an entry stands for is followed - unless one of the two is
\* relative with "://" in it, which is taken for an absolute one.
RegisteredIsFollowed ==
  /\ outcome # "misconfigured" /\ request.redirectUri # <<>>
  /\ request.to = "login" \/ (request.to = "logout" /\ request.session.kind # "none")
  /\ \E entry \in Entries :
       /\ Registered(request.redirectUri, entry, config.wildcards)
       /\ HidesScheme(request.redirectUri) \/ HidesScheme(entry) => entry \in {request.redirectUri, <<"*">>}
  /\ At("done")
  => /\ request.to = "login" => outcome = "login" /\ target = request.redirectUri
     /\ request.to = "logout" =>
          outcome = "logout" /\ target = EnsureAbsoluteUrl(request.origin, request.redirectUri)
=============================================================================
