------------------------------ MODULE LoginFlow ------------------------------
(***************************************************************************)
(* The redirects of a login and of a logout (src/src/main.go: handleLogin,  *)
(* redirectToProvider, doubleRedirectToProvider, handleCallback,            *)
(* handleUnauthorized, handleLogout), as the tabs of one browser go through *)
(* them: from the page that was asked for to the provider, back to the      *)
(* callback URL, and from there to the page.                                *)
(*                                                                         *)
(* A request is one step, from its sending with the browser's cookies to    *)
(* its response, cut where the code calls the provider and where it writes  *)
(* and reads the query of the shared callback URL.  The state parameter is  *)
(* encrypted, so that a tab comes back with a state the middleware made.    *)
(* A tab has one login under way at a time: its code verifier is named      *)
(* after the tab.                                                           *)
(***************************************************************************)
EXTENDS Integers

CONSTANTS Tabs,           \* the tabs of the browser
          Sites,          \* hosts the middleware protects
          Relative,       \* a CallbackUri without host
          NoTab,          \* no code verifier cookie
          Configurations  \* of the middleware and its users, see below

AllConfigurations ==
  [callback : Sites \cup {Relative},  \* CallbackUri: site of an absolute one
   oneInstance : BOOLEAN,    \* one middleware serves all sites, or one for each
   pkce : BOOLEAN,           \* Provider.UsePkce
   sharedCookie : BOOLEAN,   \* SessionCookie.Domain covers all sites
   challenge : BOOLEAN,      \* UnauthorizedBehavior is "Challenge"
   logouts : BOOLEAN,        \* users log out
   visited : SUBSET Sites]   \* the sites they go to

ASSUME LoginFlowAssumption ==
  /\ Sites # {} /\ Relative \notin Sites /\ NoTab \notin Tabs
  /\ Configurations \subseteq AllConfigurations

VARIABLES config,    \* the configuration, chosen once
          query,     \* CallbackURL.RawQuery of each middleware instance
          jar,       \* the session of the browser at each site
          verifier,  \* the code verifier cookie at each site
          tab,       \* the tabs
          disturbed  \* history: tabs whose code verifier another tab has touched

vars == <<config, query, jar, verifier, tab, disturbed>>

Pages == [site : Sites, tab : Tabs, kind : {"page", "logout"}]

\* OidcState
States == [action : {"Login", "RedirectThenLogin", "Logout"}, target : Pages,
           isChallenge : BOOLEAN]
Clean == [action |-> "none"]

Sessions == [present : BOOLEAN, isAuthorized : BOOLEAN, challengeAttempted : BOOLEAN]
NoSession == [present |-> FALSE, isAuthorized |-> FALSE, challengeAttempted |-> FALSE]

\* asked: the page the user wanted; page: the one the tab is at or wants now.
Tab(pc, site, asked) ==
  [pc |-> pc, site |-> site, asked |-> asked, page |-> asked, state |-> Clean,
   redirectUri |-> Clean, outcome |-> "none"]

TypeOK ==
  /\ config \in Configurations
  /\ query \in [Sites -> States \cup {Clean}]
  /\ jar \in [Sites -> Sessions]
  /\ verifier \in [Sites -> Tabs \cup {NoTab}]
  /\ tab \in [Tabs -> [pc : {"done", "page", "logout", "location", "provider", "callback", "exchange"},
                       site : Sites, asked : Pages, page : Pages, state : States \cup {Clean},
                       redirectUri : States \cup {Clean},
                       outcome : {"none", "served", "forbidden", "failed", "refused", "loggedOut"}]]
  /\ disturbed \subseteq Tabs

At(t, where) == tab[t].pc = where
Goto(t, next) == tab' = [tab EXCEPT ![t] = next]
Ended(t, outcome) == [tab[t] EXCEPT !.pc = "done", !.outcome = outcome]

CallbackSite(site) == IF config.callback = Relative THEN site ELSE config.callback

\* The instance whose CallbackURL a request to this site uses.
Instance(site) == IF config.oneInstance THEN CHOOSE s \in Sites : TRUE ELSE site

\* GetAbsoluteCallbackURL, of which only the query varies: a relative URL is
\* copied, an absolute one is the shared object itself.
CallbackQuery(site) == IF config.callback = Relative THEN Clean ELSE query[Instance(site)]

\* The code verifier cookie is set for the callback's host; a browser takes it
\* from no other host.  It replaces that of the logins whose callback is there.
SetVerifier(t, site, value) ==
  IF site = CallbackSite(site)
  THEN /\ verifier' = [verifier EXCEPT ![site] = value]
       /\ disturbed' = (disturbed \ {t})
            \cup {u \in Tabs \ {t} : /\ tab[u].pc \in {"provider", "callback"}
                                     /\ CallbackSite(tab[u].site) = site}
  ELSE verifier' = verifier /\ disturbed' = disturbed \ {t}

\* Fault: the session cookie never has a domain.
SetSession_Fault(site, s) == jar' = [jar EXCEPT ![site] = s]

SetSession(site, s) ==
  jar' = [other \in Sites |-> IF config.sharedCookie \/ other = site THEN s ELSE jar[other]]

(***************************************************************************)
(* The way to the provider                                                  *)
(***************************************************************************)
\* Fault: the login forgets the page and returns to the site.
RedirectToProvider_Fault(t, target, isChallenge) ==
  /\ Goto(t, [tab[t] EXCEPT
       !.pc = "provider",
       !.state = [action |-> "Login", target |-> [target EXCEPT !.tab = NoTab],
                  isChallenge |-> isChallenge],
       !.redirectUri = CallbackQuery(tab[t].site)])
  /\ IF config.pkce THEN SetVerifier(t, tab[t].site, t) ELSE UNCHANGED <<verifier, disturbed>>
  /\ UNCHANGED query

RedirectToProvider(t, target, isChallenge) ==
  /\ Goto(t, [tab[t] EXCEPT
       !.pc = "provider",
       !.state = [action |-> "Login", target |-> target, isChallenge |-> isChallenge],
       !.redirectUri = CallbackQuery(tab[t].site)])
  /\ IF config.pkce THEN SetVerifier(t, tab[t].site, t) ELSE UNCHANGED <<verifier, disturbed>>
  /\ UNCHANGED query

\* Fault: the host of the callback URL is not compared.
NeedsDoubleRedirect_Fault(site) == FALSE

NeedsDoubleRedirect(site) == config.pkce /\ CallbackSite(site) # site

\* The query is set on the URL that GetAbsoluteCallbackURL returned ...
DoubleRedirectToProvider(t, target, isChallenge) ==
  /\ query' = [query EXCEPT ![Instance(tab[t].site)] =
       [action |-> "RedirectThenLogin", target |-> target, isChallenge |-> isChallenge]]
  /\ Goto(t, [tab[t] EXCEPT !.pc = "location"])
  /\ UNCHANGED <<verifier, disturbed>>

\* ... and read again when the Location header is written.
FollowLocation(t) ==
  /\ At(t, "location")
  /\ Goto(t, [tab[t] EXCEPT !.pc = "callback", !.site = CallbackSite(@),
                            !.state = query[Instance(tab[t].site)]])
  /\ UNCHANGED <<config, query, jar, verifier, disturbed>>

\* Fault: every login returns to the site's page, as /login does.
HandleLogin_Fault(t, target, isChallenge) ==
  IF NeedsDoubleRedirect(tab[t].site)
  THEN DoubleRedirectToProvider(t, target, isChallenge)
  ELSE RedirectToProvider(t, [target EXCEPT !.kind = "page"], isChallenge)

HandleLogin(t, target, isChallenge) ==
  IF NeedsDoubleRedirect(tab[t].site)
  THEN DoubleRedirectToProvider(t, target, isChallenge)
  ELSE RedirectToProvider(t, target, isChallenge)

\* Fault: ChallengeAttempted is not looked at.
Challenged_Fault(s) == config.challenge

\* A session that fails the rules goes to the provider once, then gets a 403.
Challenged(s) == config.challenge /\ ~s.challengeAttempted

Forbid(t) == Goto(t, Ended(t, "forbidden")) /\ UNCHANGED <<query, verifier, disturbed>>

(***************************************************************************)
(* Requests to a page                                                       *)
(***************************************************************************)
Navigate(t, site) ==
  /\ At(t, "done") /\ site \in config.visited
  /\ \E kind \in {"page"} \cup (IF config.logouts THEN {"logout"} ELSE {}) :
       Goto(t, Tab(kind, site, [site |-> site, tab |-> t, kind |-> kind]))
  /\ UNCHANGED <<config, query, jar, verifier, disturbed>>

\* The user gives up.
Abandon(t) ==
  /\ ~At(t, "done")
  /\ Goto(t, Tab("done", tab[t].site, tab[t].asked))
  /\ UNCHANGED <<config, query, jar, verifier, disturbed>>

ServeHTTP(t) ==
  LET s == jar[tab[t].site] IN
  /\ At(t, "page")
  /\ \/ /\ s.isAuthorized
        /\ Goto(t, Ended(t, "served"))
        /\ UNCHANGED <<query, verifier, disturbed>>
     \/ ~s.present /\ HandleLogin(t, tab[t].page, FALSE)
     \/ s.present /\ ~s.isAuthorized /\ Challenged(s) /\ HandleLogin(t, tab[t].page, TRUE)
     \/ s.present /\ ~s.isAuthorized /\ ~Challenged(s) /\ Forbid(t)
  /\ UNCHANGED <<config, jar>>

\* handleLogout; without a session the request is one more login.  The target of the
\* logout, PostLogoutRedirectUri or a validated redirect_uri (Gate decides which), is
\* named after the page that was asked for.
HandleLogout(t) ==
  LET site == tab[t].site IN
  /\ At(t, "logout")
  /\ IF jar[site].present
     THEN /\ SetSession(site, NoSession)
          /\ Goto(t, [tab[t] EXCEPT
               !.pc = "provider", !.redirectUri = CallbackQuery(site),
               !.state = [action |-> "Logout", target |-> tab[t].page, isChallenge |-> FALSE]])
          /\ UNCHANGED <<query, verifier, disturbed>>
     ELSE HandleLogin(t, tab[t].page, FALSE) /\ UNCHANGED jar
  /\ UNCHANGED config

(***************************************************************************)
(* The provider: it refuses a redirect_uri that is not the registered one   *)
(* to the letter, or the user does not log in (no code).                    *)
(***************************************************************************)
Authenticate(t) ==
  /\ At(t, "provider")
  /\ \/ /\ tab[t].redirectUri = Clean
        /\ Goto(t, [tab[t] EXCEPT !.pc = "callback", !.site = CallbackSite(@)])
     \/ Goto(t, Ended(t, "refused"))
  /\ UNCHANGED <<config, query, jar, verifier, disturbed>>

(***************************************************************************)
(* handleCallback                                                          *)
(***************************************************************************)
CallbackRedirects(t) ==
  /\ At(t, "callback") /\ tab[t].state.action = "RedirectThenLogin"
  /\ RedirectToProvider(t, tab[t].state.target, tab[t].state.isChallenge)
  /\ UNCHANGED <<config, jar>>

CallbackLogout(t) ==
  /\ At(t, "callback") /\ tab[t].state.action = "Logout"
  /\ SetSession(tab[t].site, NoSession)
  /\ Goto(t, [Ended(t, "loggedOut") EXCEPT !.page = tab[t].state.target])
  /\ UNCHANGED <<config, query, verifier, disturbed>>

\* exchangeAuthCode: the provider wants the verifier of this very code, and
\* the redirect_uri the login was started with.
CallbackLogin(t) ==
  LET site == tab[t].site
      accepted == /\ ~config.pkce \/ verifier[site] = t
                  /\ CallbackQuery(site) = tab[t].redirectUri
  IN
  /\ At(t, "callback") /\ tab[t].state.action = "Login"
  /\ Goto(t, IF accepted THEN [tab[t] EXCEPT !.pc = "exchange"] ELSE Ended(t, "failed"))
  /\ UNCHANGED <<config, query, jar, verifier, disturbed>>

\* Fault: the verifier cookie is dropped at the end of the response.
CompleteLogin_Fault(t) ==
  LET site == tab[t].site
      state == tab[t].state
  IN
  /\ At(t, "exchange")
  /\ \E isAuthorized \in BOOLEAN :
       LET s == [present |-> TRUE, isAuthorized |-> isAuthorized,
                 challengeAttempted |-> state.isChallenge]
           next == [tab[t] EXCEPT !.page = state.target, !.site = state.target.site]
       IN  /\ SetSession(site, s)
           /\ Goto(t, IF isAuthorized THEN [next EXCEPT !.pc = state.target.kind]
                      ELSE IF Challenged(s)
                      THEN [tab[t] EXCEPT !.pc = "provider", !.state.isChallenge = TRUE]
                      ELSE [next EXCEPT !.pc = "done", !.outcome = "forbidden"])
           /\ SetVerifier(t, site, NoTab)
           /\ UNCHANGED query
  /\ UNCHANGED config

\* The tokens have arrived and are checked against the rules.  The verifier
\* cookie is dropped, unless a challenge sets a new one in the same response.
CompleteLogin(t) ==
  LET site == tab[t].site
      state == tab[t].state
  IN
  /\ At(t, "exchange")
  /\ \E isAuthorized \in BOOLEAN :
       LET s == [present |-> TRUE, isAuthorized |-> isAuthorized,
                 challengeAttempted |-> state.isChallenge]
       IN  /\ SetSession(site, s)
           /\ IF ~isAuthorized /\ Challenged(s)
              THEN HandleLogin(t, state.target, TRUE)
              ELSE /\ Goto(t, IF isAuthorized
                              THEN [tab[t] EXCEPT !.pc = state.target.kind,
                                                  !.page = state.target, !.site = state.target.site]
                              ELSE [Ended(t, "forbidden") EXCEPT !.page = state.target])
                   /\ SetVerifier(t, site, NoTab)
                   /\ UNCHANGED query
  /\ UNCHANGED config

Init ==
  /\ config \in Configurations
  /\ query = [s \in Sites |-> Clean]
  /\ jar = [s \in Sites |-> NoSession]
  /\ verifier = [s \in Sites |-> NoTab]
  /\ LET site == CHOOSE s \in Sites : TRUE
     IN  tab = [t \in Tabs |-> Tab("done", site, [site |-> site, tab |-> t, kind |-> "page"])]
  /\ disturbed = {}

Proceed(t) ==
  \/ ServeHTTP(t) \/ HandleLogout(t) \/ FollowLocation(t) \/ Authenticate(t)
  \/ CallbackRedirects(t) \/ CallbackLogout(t) \/ CallbackLogin(t) \/ CompleteLogin(t)

Next == \E t \in Tabs :
  \/ \E site \in Sites : Navigate(t, site)
  \/ Abandon(t)
  \/ Proceed(t)

Spec == Init /\ [][Next]_vars

\* The browser follows redirects, and the middleware and the provider answer.
FairSpec == Spec /\ \A t \in Tabs : WF_vars(Proceed(t))

(***************************************************************************)
(* Properties                                                              *)
(***************************************************************************)

DoubleRedirects == config.pkce /\ config.callback # Relative /\ Sites # {config.callback}

\* A tab that is served, refused with a 403 or logged out is where its user
\* wanted to go, whatever logins of other tabs and challenges it went through,
\* unless the login starts on another host than the callback.
ReturnsToRequestedPage ==
  DoubleRedirects \/
    \A t \in Tabs :
      tab[t].outcome \in {"served", "forbidden", "loggedOut"} => tab[t].page = tab[t].asked

\* All hosts use one URL object, and logins of some of them write to it.
SharesCallbackUrl == DoubleRedirects /\ config.oneInstance

\* A login fails at the callback only when another tab with the same callback host has
\* begun or completed a login since, for they share one code verifier cookie; or, where the
\* hosts share one callback URL, when a double redirect of another tab has left its query
\* there, so that the redirect_uri is not the one the login was started with.
UndisturbedLoginsSucceed ==
  \A t \in Tabs :
    tab[t].outcome = "failed" =>
      t \in disturbed \/ (SharesCallbackUrl /\ CallbackQuery(tab[t].site) # Clean)

\* As long as nobody logs out, every navigation ends, at the page, with an error
\* or given up: neither redirects nor challenges, of which the tabs' logins may cause
\* one another more, go on for ever.
EveryNavigationEnds == \A t \in Tabs : ~config.logouts /\ ~At(t, "done") ~> At(t, "done")

\* The redirect_uri sent to the provider is always the configured callback URL.
RedirectUriIsCallbackUrl ==
  \A t \in Tabs : At(t, "provider") => tab[t].redirectUri = Clean

=============================================================================
