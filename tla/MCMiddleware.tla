---------------------------- MODULE MCMiddleware ----------------------------
\* Model checking of Middleware on small instances.
EXTENDS Middleware, TLC

\* Slots of requests are interchangeable.
Symmetry == Permutations(Requests)

\* InMemory or Redis storage, a provider that rotates refresh tokens.
Rotating ==
  [storage |-> "server", introspection |-> FALSE, keptIdToken |-> FALSE,
   refreshTokens |-> "rotating",
   bypass |-> FALSE, checkOnEveryRequest |-> FALSE, forwardUnauthorized |-> FALSE,
   entitlements |-> {TRUE}, kinds |-> {"page", "login", "logout"}, faults |-> {}, tokens |-> 3]

\* Refresh tokens that can be used again; requests that end with an error of their own.
Reusable == [Rotating EXCEPT !.refreshTokens = "reusable", !.kinds = {"page", "login"},
                             !.faults = {"headers", "request"}]

\* Users who log out and come back from the provider, also while the storage fails.
Ending == [Reusable EXCEPT !.kinds = @ \cup {"logout", "postLogout"}, !.tokens = 2]
EndingFails == [Ending EXCEPT !.refreshTokens = "rotating", !.faults = {"storage"}]

\* The IdToken of the login is validated until it is over.
KeptIdToken == [Reusable EXCEPT !.keptIdToken = TRUE]

\* The session in the cookie; rules that fail but do not keep a request out.
InCookie == [Rotating EXCEPT !.storage = "cookie", !.checkOnEveryRequest = TRUE,
                             !.forwardUnauthorized = TRUE, !.entitlements = {FALSE},
                             !.kinds = {"page", "login"}]

\* The rules are checked once for each session, or on every request.
Sticky == [Rotating EXCEPT !.introspection = TRUE, !.bypass = TRUE, !.entitlements = BOOLEAN,
                           !.kinds = {"page", "login"}, !.tokens = 2]

OnEveryRequest == [Rotating EXCEPT !.checkOnEveryRequest = TRUE, !.entitlements = BOOLEAN,
                                   !.kinds = {"page", "login"}, !.tokens = 2]

\* Requests with tokens of their own.
OwnTokens == [OnEveryRequest EXCEPT !.kinds = @ \cup {"api"}, !.faults = {"provider", "headers"}]

Failing == [OnEveryRequest EXCEPT !.faults = FaultKinds]

Introspecting == [Sticky EXCEPT !.bypass = FALSE, !.entitlements = {TRUE},
                                !.kinds = {"page", "api", "login"}]

SessionConfigurations ==
  {Rotating, Reusable, Ending, EndingFails, KeptIdToken, InCookie, Sticky, OwnTokens, Failing}
IntrospectionConfigurations == {Introspecting}
LogoutConfigurations == {Rotating}
=============================================================================
