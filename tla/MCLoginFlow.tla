----------------------------- MODULE MCLoginFlow -----------------------------
\* Model checking of LoginFlow on small instances.
EXTENDS LoginFlow, TLC

Home == CHOOSE s \in Sites : TRUE

\* A relative CallbackUri: every site has a callback, a session and a verifier
\* of its own, and a login at one does not disturb those at another.
Separate ==
  [callback |-> Relative, oneInstance |-> FALSE, pkce |-> TRUE, sharedCookie |-> FALSE,
   challenge |-> TRUE, logouts |-> TRUE, visited |-> Sites]

\* An absolute CallbackUri for all sites, without PKCE.
Shared ==
  [callback |-> Home, oneInstance |-> TRUE, pkce |-> FALSE, sharedCookie |-> TRUE,
   challenge |-> TRUE, logouts |-> FALSE, visited |-> Sites]

\* An absolute CallbackUri, with PKCE: double redirects, each router with a
\* middleware instance of its own; users log out, or visit the callback's site too.
Routers == [Shared EXCEPT !.oneInstance = FALSE, !.pkce = TRUE, !.logouts = TRUE,
                          !.visited = Sites \ {Home}]

QuietRouters == [Routers EXCEPT !.logouts = FALSE, !.visited = Sites]

\* One instance for all hosts: double redirects write to the URL all logins use.
OneRouter == [QuietRouters EXCEPT !.oneInstance = TRUE, !.challenge = FALSE]

LoginConfigurations == {Separate, Shared, Routers, QuietRouters, OneRouter}
CallbackUrlConfigurations == {OneRouter}
=============================================================================
