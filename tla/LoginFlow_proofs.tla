---------------------------- MODULE LoginFlow_proofs ----------------------------
(***************************************************************************)
(* The redirects of logins, for any tabs, hosts and configurations: tabs    *)
(* return to their pages, and a login fails at the callback only when       *)
(* another tab has disturbed it.                                            *)
(***************************************************************************)
EXTENDS LoginFlow, TLAPS

\* A tab on its way has no outcome yet; the one that waits for the tokens has a login;
\* and where the provider or a double redirect sends it is the host of the callback,
\* from which a login with PKCE starts in the first place.
OnItsWay(t) ==
  /\ ~At(t, "done") => tab[t].outcome = "none"
  /\ At(t, "exchange") => tab[t].state.action = "Login"
  /\ tab[t].pc \in {"callback", "exchange"} => CallbackSite(tab[t].site) = tab[t].site
  /\ (At(t, "provider") /\ tab[t].state.action = "Login" /\ config.pkce) =>
       CallbackSite(tab[t].site) = tab[t].site
  /\ (At(t, "callback") /\ tab[t].state.action = "Login") => tab[t].redirectUri = Clean

\* A tab that is logging in finds its own code verifier at the callback, unless
\* another tab has touched it.
HasItsVerifier(t) ==
  (/\ tab[t].pc \in {"provider", "callback"} /\ tab[t].state.action = "Login"
   /\ config.pkce /\ t \notin disturbed)
    => verifier[tab[t].site] = t

\* Without double redirects every tab is at the page that was asked for, and the
\* state it carries has that page as its target.
KeepsItsPage(t) ==
  DoubleRedirects \/
    /\ tab[t].page = tab[t].asked /\ ~At(t, "location")
    /\ tab[t].pc \in {"provider", "callback", "exchange"} => tab[t].state.target = tab[t].asked

FailsOnlyDisturbed(t) ==
  tab[t].outcome = "failed" =>
    t \in disturbed \/ (SharesCallbackUrl /\ CallbackQuery(tab[t].site) # Clean)

Sound(t) == OnItsWay(t) /\ HasItsVerifier(t) /\ KeepsItsPage(t) /\ FailsOnlyDisturbed(t)

\* Only double redirects write to a callback URL: to the one of an instance
\* whose host is not the callback's, unless all hosts share an instance.
QueriesAgree ==
  \A s \in Sites :
    query[s] # Clean =>
      /\ query[s].action = "RedirectThenLogin"
      /\ DoubleRedirects
      /\ config.oneInstance \/ CallbackSite(s) # s

\* The inductive invariant.
IInv == TypeOK /\ QueriesAgree /\ \A t \in Tabs : Sound(t)

USE DEF Sound, OnItsWay, HasItsVerifier, KeepsItsPage, FailsOnlyDisturbed

\* The type of a tab.
TabRecords == [pc : {"done", "page", "logout", "location", "provider", "callback", "exchange"},
               site : Sites, asked : Pages, page : Pages, state : States \cup {Clean},
               redirectUri : States \cup {Clean},
               outcome : {"none", "served", "forbidden", "failed", "refused", "loggedOut"}]

\* The helpers of the module stay within their types.
LEMMA SiteTypes ==
  ASSUME TypeOK, NEW site \in Sites
  PROVE  /\ CallbackSite(site) \in Sites
         /\ CallbackSite(CallbackSite(site)) = CallbackSite(site)
         /\ Instance(site) \in Sites
         /\ CallbackQuery(site) \in States \cup {Clean}
<1>1. config \in AllConfigurations
  BY LoginFlowAssumption DEF TypeOK
<1>2. config.callback \in Sites \cup {Relative}
  BY <1>1 DEF AllConfigurations
<1>3. Instance(site) \in Sites
  BY DEF Instance
<1> QED
  BY <1>2, <1>3, LoginFlowAssumption DEF CallbackSite, CallbackQuery, TypeOK

\* In the beginning no tab is on its way and every callback URL is clean.
LEMMA InitIInv == Init => IInv
<1> SUFFICES ASSUME Init PROVE IInv
  OBVIOUS
<1> DEFINE home == CHOOSE s \in Sites : TRUE
<1>1. home \in Sites
  BY LoginFlowAssumption
<1>2. \A t \in Tabs : Tab("done", home, [site |-> home, tab |-> t, kind |-> "page"]) \in TabRecords
  BY <1>1 DEF Tab, TabRecords, Pages
<1>3. tab = [t \in Tabs |-> Tab("done", home, [site |-> home, tab |-> t, kind |-> "page"])]
  BY DEF Init
<1> HIDE DEF home
<1>4. NoSession \in Sessions
  BY DEF NoSession, Sessions
<1>5. TypeOK
  <2>1. tab \in [Tabs -> TabRecords]
    BY <1>2, <1>3
  <2>2. config \in Configurations /\ disturbed \subseteq Tabs
    BY DEF Init
  <2>3. /\ query \in [Sites -> States \cup {Clean}] /\ jar \in [Sites -> Sessions]
        /\ verifier \in [Sites -> Tabs \cup {NoTab}]
    BY <1>4 DEF Init
  <2> QED
    BY <2>1, <2>2, <2>3 DEF TypeOK, TabRecords
<1>6. \A t \in Tabs : tab[t].pc = "done" /\ tab[t].outcome = "none" /\ tab[t].page = tab[t].asked
  BY <1>3 DEF Tab
<1>7. \A s \in Sites : query[s] = Clean
  BY DEF Init
<1> QED
  BY <1>5, <1>6, <1>7
  DEF IInv, QueriesAgree, At

\* A redirect to the provider: the verifier cookie becomes the tab's own, and the tabs whose
\* verifier that was are disturbed.  The page is the target that comes back in the state.
LEMMA RedirectStep ==
  ASSUME IInv, NEW t \in Tabs, NEW target \in Pages, NEW isChallenge \in BOOLEAN,
         RedirectToProvider(t, target, isChallenge), config' = config,
         jar' \in [Sites -> Sessions],
         config.pkce => CallbackSite(tab[t].site) = tab[t].site,
         ~At(t, "done"),
         DoubleRedirects \/ target = tab[t].asked
  PROVE  IInv'
<1>1. TypeOK /\ tab[t] \in TabRecords
  BY DEF IInv, TypeOK, TabRecords
<1> DEFINE w == [tab[t] EXCEPT
       !.pc = "provider",
       !.state = [action |-> "Login", target |-> target, isChallenge |-> isChallenge],
       !.redirectUri = CallbackQuery(tab[t].site)]
<1>2. w \in TabRecords
  <2>1. CallbackQuery(tab[t].site) \in States \cup {Clean}
    BY <1>1, SiteTypes DEF TabRecords
  <2>2. [action |-> "Login", target |-> target, isChallenge |-> isChallenge] \in States
    BY DEF States
  <2> QED
    BY <1>1, <2>1, <2>2 DEF TabRecords
<1>3. tab' = [tab EXCEPT ![t] = w]
  BY DEF RedirectToProvider, Goto
<1>4. /\ w.pc = "provider" /\ w.site = tab[t].site /\ w.asked = tab[t].asked
      /\ w.page = tab[t].page /\ w.outcome = tab[t].outcome
      /\ w.state.action = "Login" /\ w.state.target = target
  BY <1>1 DEF TabRecords
<1> HIDE DEF w
<1>5. tab'[t] = w /\ \A u \in Tabs \ {t} : tab'[u] = tab[u]
  BY <1>1, <1>3 DEF TypeOK
<1>6. TypeOK'
  BY <1>1, <1>2, <1>3 DEF TypeOK, TabRecords, RedirectToProvider, SetVerifier
<1>7. QueriesAgree'
  BY DEF IInv, QueriesAgree, RedirectToProvider, DoubleRedirects, CallbackSite
<1>8. \A u \in Tabs : Sound(u)'
  <2>1. Sound(t)'
    BY <1>1, <1>4, <1>5
    DEF IInv, At, RedirectToProvider, SetVerifier, DoubleRedirects, CallbackSite, TypeOK, TabRecords
  <2>2. ASSUME NEW u \in Tabs \ {t} PROVE Sound(u)'
    BY <1>1, <1>5
    DEF IInv, At, RedirectToProvider, SetVerifier, DoubleRedirects, CallbackSite, TypeOK, TabRecords,
        SharesCallbackUrl, CallbackQuery, Instance
  <2> QED
    BY <2>1, <2>2
<1> QED
  BY <1>6, <1>7, <1>8 DEF IInv

\* A step of one tab that leaves the callback URLs and the verifier cookies alone
\* concerns no other tab.
LEMMA QuietStep ==
  ASSUME IInv, NEW t \in Tabs, NEW w \in TabRecords, Goto(t, w),
         UNCHANGED <<config, query, verifier, disturbed>>, jar' \in [Sites -> Sessions],
         tab'[t] = w => Sound(t)'
  PROVE  IInv'
<1>1. tab' = [tab EXCEPT ![t] = w] /\ tab \in [Tabs -> TabRecords]
  BY DEF IInv, TypeOK, TabRecords, Goto
<1>2. tab'[t] = w /\ tab' \in [Tabs -> TabRecords] /\ \A u \in Tabs \ {t} : tab'[u] = tab[u]
  BY <1>1
<1>3. TypeOK'
  BY <1>2 DEF IInv, TypeOK, TabRecords
<1>4. QueriesAgree'
  BY DEF IInv, QueriesAgree, DoubleRedirects, CallbackSite
<1>5. ASSUME NEW u \in Tabs PROVE Sound(u)'
  <2>1. CASE u = t
    BY <1>2, <2>1
  <2>2. CASE u # t
    BY <1>2, <2>2
    DEF IInv, At, DoubleRedirects, CallbackSite, SharesCallbackUrl, CallbackQuery, Instance
  <2> QED
    BY <2>1, <2>2
<1> QED
  BY <1>3, <1>4, <1>5 DEF IInv

\* The first step of a login on another host than the callback's: the query of one URL is set.
LEMMA DoubleRedirectStep ==
  ASSUME IInv, NEW t \in Tabs, NEW target \in Pages, NEW isChallenge \in BOOLEAN,
         DoubleRedirectToProvider(t, target, isChallenge), config' = config,
         jar' \in [Sites -> Sessions], ~At(t, "done"), NeedsDoubleRedirect(tab[t].site)
  PROVE  IInv'
<1>1. tab \in [Tabs -> TabRecords] /\ tab[t] \in TabRecords
  BY DEF IInv, TypeOK, TabRecords
<1> DEFINE w == [tab[t] EXCEPT !.pc = "location"]
           state == [action |-> "RedirectThenLogin", target |-> target, isChallenge |-> isChallenge]
           i == Instance(tab[t].site)
<1>2. w \in TabRecords /\ w.pc = "location" /\ w.outcome = tab[t].outcome
  BY <1>1 DEF TabRecords
<1>3. state \in States /\ state # Clean /\ state.action = "RedirectThenLogin"
  BY DEF States, Clean
<1>4. i \in Sites /\ (config.oneInstance \/ i = tab[t].site) /\ tab[t].site \in Sites
  BY <1>1, SiteTypes DEF IInv, TabRecords, Instance
<1>5. tab' = [tab EXCEPT ![t] = w] /\ query' = [query EXCEPT ![i] = state]
  BY DEF DoubleRedirectToProvider, Goto
<1> HIDE DEF w, state, i
<1>6. /\ tab'[t] = w /\ tab' \in [Tabs -> TabRecords]
      /\ \A u \in Tabs \ {t} : tab'[u] = tab[u]
  BY <1>1, <1>2, <1>5
<1>7. /\ query' \in [Sites -> States \cup {Clean}] /\ query'[i] = state
      /\ \A s \in Sites \ {i} : query'[s] = query[s]
  BY <1>3, <1>4, <1>5 DEF IInv, TypeOK
<1>8. TypeOK'
  BY <1>6, <1>7 DEF IInv, TypeOK, TabRecords, DoubleRedirectToProvider
<1>9. DoubleRedirects
  BY <1>4 DEF NeedsDoubleRedirect, DoubleRedirects, CallbackSite
<1>10. QueriesAgree'
  BY <1>3, <1>4, <1>7, <1>9
  DEF IInv, QueriesAgree, DoubleRedirects, CallbackSite, NeedsDoubleRedirect
<1>11. ASSUME NEW u \in Tabs PROVE Sound(u)'
  <2>1. CASE u = t
    BY <1>2, <1>6, <1>9, <2>1 DEF IInv, At, DoubleRedirects
  <2>2. CASE u # t
    <3>1. tab'[u] = tab[u] /\ Sound(u) /\ tab[u].site \in Sites
      BY <1>1, <1>6, <2>2 DEF IInv, TabRecords
    <3>2. CallbackQuery(tab[u].site) # Clean => CallbackQuery(tab[u].site)' # Clean
      BY <1>3, <1>7, <3>1, SiteTypes DEF IInv, CallbackQuery, Instance
    <3> QED
      BY <3>1, <3>2
      DEF At, DoubleRedirects, CallbackSite, SharesCallbackUrl, DoubleRedirectToProvider
  <2> QED
    BY <2>1, <2>2
<1> QED
  BY <1>8, <1>10, <1>11 DEF IInv

\* A login starts at a host whose cookies reach the callback, or with a double redirect.
LEMMA HandleLoginStep ==
  ASSUME IInv, NEW t \in Tabs, NEW target \in Pages, NEW isChallenge \in BOOLEAN,
         HandleLogin(t, target, isChallenge), config' = config,
         jar' \in [Sites -> Sessions], ~At(t, "done"),
         DoubleRedirects \/ target = tab[t].asked
  PROVE  IInv'
<1>1. CASE NeedsDoubleRedirect(tab[t].site)
  BY <1>1, DoubleRedirectStep DEF HandleLogin
<1>2. CASE ~NeedsDoubleRedirect(tab[t].site)
  BY <1>2, RedirectStep DEF HandleLogin, NeedsDoubleRedirect
<1> QED
  BY <1>1, <1>2

\* Sessions stay sessions, wherever one is set.
LEMMA SetSessionType ==
  ASSUME jar \in [Sites -> Sessions], NEW site, NEW s \in Sessions, SetSession(site, s)
  PROVE  jar' \in [Sites -> Sessions]
BY DEF SetSession

\* No session is the empty one.
LEMMA NoSessionType == NoSession \in Sessions
BY DEF NoSession, Sessions

\* A user asks for a page.
LEMMA NavigateStep ==
  ASSUME IInv, NEW t \in Tabs, NEW site \in Sites, Navigate(t, site)
  PROVE  IInv'
<1>1. PICK kind \in {"page", "logout"} :
        Goto(t, Tab(kind, site, [site |-> site, tab |-> t, kind |-> kind]))
  BY DEF Navigate
<1> DEFINE w == Tab(kind, site, [site |-> site, tab |-> t, kind |-> kind])
<1>2. w \in TabRecords
  BY DEF Tab, TabRecords, Pages
<1>3. w.pc \in {"page", "logout"} /\ w.page = w.asked /\ w.outcome = "none"
  BY DEF Tab
<1> HIDE DEF w
<1>4. tab'[t] = w => Sound(t)'
  BY <1>3 DEF At
<1> QED
  BY <1>1, <1>2, <1>4, QuietStep DEF Navigate, IInv, TypeOK, w

\* A user gives up.
LEMMA AbandonStep ==
  ASSUME IInv, NEW t \in Tabs, Abandon(t)
  PROVE  IInv'
<1> DEFINE w == Tab("done", tab[t].site, tab[t].asked)
<1>1. tab[t] \in TabRecords
  BY DEF IInv, TypeOK, TabRecords
<1>2. w \in TabRecords
  BY <1>1 DEF Tab, TabRecords
<1>3. w.pc = "done" /\ w.page = w.asked /\ w.outcome = "none"
  BY DEF Tab
<1> HIDE DEF w
<1>4. tab'[t] = w => Sound(t)'
  BY <1>3 DEF At
<1> QED
  BY <1>2, <1>4, QuietStep DEF Abandon, IInv, TypeOK, w

\* A tab whose way has ended, without success or at the page it was asked for.
LEMMA EndStep ==
  ASSUME IInv, NEW t \in Tabs, ~At(t, "done"),
         NEW outcome \in {"served", "forbidden", "refused"}, Goto(t, Ended(t, outcome)),
         UNCHANGED <<config, query, verifier, disturbed>>, jar' \in [Sites -> Sessions]
  PROVE  IInv'
<1> DEFINE w == Ended(t, outcome)
<1>1. tab[t] \in TabRecords /\ Sound(t)
  BY DEF IInv, TypeOK, TabRecords
<1>2. w \in TabRecords /\ w.pc = "done" /\ w.outcome = outcome /\ w.page = tab[t].page
      /\ w.asked = tab[t].asked
  BY <1>1 DEF Ended, TabRecords
<1> HIDE DEF w
<1>3. tab'[t] = w => Sound(t)'
  BY <1>1, <1>2 DEF At, DoubleRedirects
<1> QED
  BY <1>2, <1>3, QuietStep DEF w

\* A page is served, refused, or answered with a login or a challenge.
LEMMA ServeHTTPStep ==
  ASSUME IInv, NEW t \in Tabs, ServeHTTP(t)
  PROVE  IInv'
<1>1. /\ At(t, "page") /\ config' = config /\ jar' = jar
      /\ ~At(t, "done") /\ jar' \in [Sites -> Sessions]
  BY DEF ServeHTTP, IInv, TypeOK, At
<1>2. tab[t] \in TabRecords /\ tab[t].page \in Pages /\ Sound(t)
  BY DEF IInv, TypeOK, TabRecords
<1>3. CASE Goto(t, Ended(t, "served")) /\ UNCHANGED <<query, verifier, disturbed>>
  BY <1>1, <1>3, EndStep
<1>4. CASE Forbid(t)
  BY <1>1, <1>4, EndStep DEF Forbid
<1>5. CASE HandleLogin(t, tab[t].page, TRUE)
  BY <1>1, <1>2, <1>5, HandleLoginStep
<1>6. CASE HandleLogin(t, tab[t].page, FALSE)
  BY <1>1, <1>2, <1>6, HandleLoginStep
<1> QED
  BY <1>3, <1>4, <1>5, <1>6 DEF ServeHTTP

\* A logout goes to the provider without a verifier; its state is no login.
LEMMA HandleLogoutStep ==
  ASSUME IInv, NEW t \in Tabs, HandleLogout(t)
  PROVE  IInv'
<1>1. /\ tab[t] \in TabRecords /\ tab[t].page \in Pages /\ tab[t].site \in Sites
      /\ Sound(t) /\ jar \in [Sites -> Sessions]
  BY DEF IInv, TypeOK, TabRecords
<1>2. At(t, "logout") /\ ~At(t, "done") /\ config' = config
  BY DEF HandleLogout, At
<1>3. CASE ~jar[tab[t].site].present
  <2>1. HandleLogin(t, tab[t].page, FALSE) /\ jar' = jar
    BY <1>3 DEF HandleLogout
  <2> QED
    BY <1>1, <1>2, <2>1, HandleLoginStep
<1>4. CASE jar[tab[t].site].present
  <2> DEFINE state == [action |-> "Logout", target |-> tab[t].page, isChallenge |-> FALSE]
             w == [tab[t] EXCEPT !.pc = "provider", !.redirectUri = CallbackQuery(tab[t].site),
                                 !.state = state]
  <2>1. Goto(t, w) /\ UNCHANGED <<query, verifier, disturbed>> /\ SetSession(tab[t].site, NoSession)
    BY <1>4 DEF HandleLogout
  <2>2. CallbackQuery(tab[t].site) \in States \cup {Clean}
    BY <1>1, SiteTypes DEF IInv
  <2>3. state \in States /\ state.action = "Logout" /\ state.target = tab[t].page
    BY <1>1 DEF States
  <2> HIDE DEF state
  <2>4. /\ w \in TabRecords /\ w.pc = "provider" /\ w.state = state
        /\ w.outcome = tab[t].outcome /\ w.page = tab[t].page /\ w.asked = tab[t].asked
    BY <1>1, <2>2, <2>3 DEF TabRecords
  <2> HIDE DEF w
  <2>5. tab'[t] = w => Sound(t)'
    BY <1>1, <1>2, <2>3, <2>4 DEF At, DoubleRedirects
  <2>6. jar' \in [Sites -> Sessions]
    BY <1>1, <2>1, SetSessionType, NoSessionType
  <2> QED
    BY <1>2, <2>1, <2>4, <2>5, <2>6, QuietStep
<1> QED
  BY <1>3, <1>4

\* A double redirect arrives at the callback with what the shared query holds: it may be
\* another tab's target, but never a login's state.
LEMMA FollowLocationStep ==
  ASSUME IInv, NEW t \in Tabs, FollowLocation(t)
  PROVE  IInv'
<1>1. /\ tab[t] \in TabRecords /\ tab[t].site \in Sites /\ Sound(t) /\ At(t, "location")
  BY DEF IInv, TypeOK, TabRecords, FollowLocation
<1> DEFINE q == query[Instance(tab[t].site)]
           w == [tab[t] EXCEPT !.pc = "callback", !.site = CallbackSite(@), !.state = q]
<1>2. /\ CallbackSite(tab[t].site) \in Sites /\ Instance(tab[t].site) \in Sites
      /\ CallbackSite(CallbackSite(tab[t].site)) = CallbackSite(tab[t].site)
  BY <1>1, SiteTypes DEF IInv
<1>3. q \in States \cup {Clean} /\ q.action # "Login"
  BY <1>2 DEF IInv, TypeOK, QueriesAgree, Clean
<1> HIDE DEF q
<1>4. /\ w \in TabRecords /\ w.pc = "callback" /\ w.site = CallbackSite(tab[t].site)
      /\ w.state = q /\ w.outcome = tab[t].outcome
  BY <1>1, <1>2, <1>3 DEF TabRecords
<1>5. Goto(t, w) /\ UNCHANGED <<config, query, jar, verifier, disturbed>>
  BY DEF FollowLocation, q
<1> HIDE DEF w
<1>6. tab'[t] = w => Sound(t)'
  BY <1>1, <1>2, <1>3, <1>4, <1>5 DEF At, DoubleRedirects, CallbackSite
<1> QED
  BY <1>4, <1>5, <1>6, QuietStep DEF IInv, TypeOK

\* The provider sends on only whose redirect_uri is clean.
LEMMA AuthenticateStep ==
  ASSUME IInv, NEW t \in Tabs, Authenticate(t)
  PROVE  IInv'
<1>1. /\ tab[t] \in TabRecords /\ tab[t].site \in Sites /\ Sound(t)
      /\ At(t, "provider") /\ ~At(t, "done") /\ jar \in [Sites -> Sessions]
      /\ UNCHANGED <<config, query, jar, verifier, disturbed>>
  BY DEF IInv, TypeOK, TabRecords, Authenticate, At
<1>2. CASE Goto(t, Ended(t, "refused"))
  BY <1>1, <1>2, EndStep
<1> DEFINE w == [tab[t] EXCEPT !.pc = "callback", !.site = CallbackSite(@)]
<1>3. CASE tab[t].redirectUri = Clean /\ Goto(t, w)
  <2>1. /\ CallbackSite(tab[t].site) \in Sites
        /\ CallbackSite(CallbackSite(tab[t].site)) = CallbackSite(tab[t].site)
    BY <1>1, SiteTypes DEF IInv
  <2>2. /\ w \in TabRecords /\ w.pc = "callback" /\ w.site = CallbackSite(tab[t].site)
        /\ w.state = tab[t].state /\ w.redirectUri = Clean /\ w.outcome = tab[t].outcome
        /\ w.page = tab[t].page /\ w.asked = tab[t].asked
    BY <1>1, <1>3, <2>1 DEF TabRecords
  <2> HIDE DEF w
  <2>3. tab'[t] = w => Sound(t)'
    BY <1>1, <2>1, <2>2 DEF At, DoubleRedirects, CallbackSite
  <2> QED
    BY <1>1, <1>3, <2>2, <2>3, QuietStep
<1> QED
  BY <1>2, <1>3 DEF Authenticate

\* The callback's host sets the verifier and sends the tab on to the provider.
LEMMA CallbackRedirectsStep ==
  ASSUME IInv, NEW t \in Tabs, CallbackRedirects(t)
  PROVE  IInv'
<1>1. /\ tab[t] \in TabRecords /\ Sound(t) /\ At(t, "callback") /\ ~At(t, "done")
      /\ config' = config /\ jar' \in [Sites -> Sessions]
  BY DEF IInv, TypeOK, TabRecords, CallbackRedirects, At
<1>2. tab[t].state \in States
  BY <1>1 DEF TabRecords, CallbackRedirects, Clean
<1>3. tab[t].state.target \in Pages /\ tab[t].state.isChallenge \in BOOLEAN
  BY <1>2 DEF States
<1>4. /\ CallbackSite(tab[t].site) = tab[t].site
      /\ DoubleRedirects \/ tab[t].state.target = tab[t].asked
  BY <1>1 DEF At
<1>5. RedirectToProvider(t, tab[t].state.target, tab[t].state.isChallenge)
  BY DEF CallbackRedirects
<1> QED
  BY <1>1, <1>3, <1>4, <1>5, RedirectStep

\* A logout ends where it began.
LEMMA CallbackLogoutStep ==
  ASSUME IInv, NEW t \in Tabs, CallbackLogout(t)
  PROVE  IInv'
<1>1. /\ tab[t] \in TabRecords /\ Sound(t) /\ At(t, "callback") /\ ~At(t, "done")
      /\ jar \in [Sites -> Sessions]
  BY DEF IInv, TypeOK, TabRecords, CallbackLogout, At
<1>2. tab[t].state \in States
  BY <1>1 DEF TabRecords, CallbackLogout, Clean
<1> DEFINE w == [Ended(t, "loggedOut") EXCEPT !.page = tab[t].state.target]
<1>3. tab[t].state.target \in Pages
  BY <1>2 DEF States
<1>4. /\ w \in TabRecords /\ w.pc = "done" /\ w.outcome = "loggedOut"
      /\ w.page = tab[t].state.target /\ w.asked = tab[t].asked
  BY <1>1, <1>3 DEF TabRecords, Ended
<1>5. /\ Goto(t, w) /\ UNCHANGED <<config, query, verifier, disturbed>>
      /\ SetSession(tab[t].site, NoSession)
  BY DEF CallbackLogout
<1> HIDE DEF w
<1>6. tab'[t] = w => Sound(t)'
  BY <1>1, <1>4, <1>5 DEF At, DoubleRedirects
<1>7. jar' \in [Sites -> Sessions]
  BY <1>1, <1>5, SetSessionType, NoSessionType
<1> QED
  BY <1>4, <1>5, <1>6, <1>7, QuietStep

\* The exchange is refused: the verifier at the callback is no longer the tab's own,
\* and so another tab has touched it, or the callback URL is no longer clean.
LEMMA CallbackLoginStep ==
  ASSUME IInv, NEW t \in Tabs, CallbackLogin(t)
  PROVE  IInv'
<1>1. /\ tab[t] \in TabRecords /\ Sound(t) /\ At(t, "callback") /\ ~At(t, "done")
      /\ tab[t].site \in Sites /\ tab[t].state.action = "Login"
      /\ UNCHANGED <<config, query, jar, verifier, disturbed>> /\ jar' \in [Sites -> Sessions]
  BY DEF IInv, TypeOK, TabRecords, CallbackLogin, At
<1> DEFINE accepted == /\ ~config.pkce \/ verifier[tab[t].site] = t
                       /\ CallbackQuery(tab[t].site) = tab[t].redirectUri
<1>2. CASE accepted
  <2> DEFINE w == [tab[t] EXCEPT !.pc = "exchange"]
  <2>1. Goto(t, w)
    BY <1>2 DEF CallbackLogin
  <2>2. /\ w \in TabRecords /\ w.pc = "exchange" /\ w.site = tab[t].site
        /\ w.state = tab[t].state /\ w.outcome = tab[t].outcome
        /\ w.page = tab[t].page /\ w.asked = tab[t].asked
    BY <1>1 DEF TabRecords
  <2> HIDE DEF w
  <2>3. tab'[t] = w => Sound(t)'
    BY <1>1, <2>2 DEF At, DoubleRedirects, CallbackSite
  <2> QED
    BY <1>1, <2>1, <2>2, <2>3, QuietStep
<1>3. CASE ~accepted
  <2> DEFINE w == Ended(t, "failed")
  <2>1. Goto(t, w)
    BY <1>3 DEF CallbackLogin
  <2>2. /\ w \in TabRecords /\ w.pc = "done" /\ w.site = tab[t].site /\ w.outcome = "failed"
        /\ w.page = tab[t].page /\ w.asked = tab[t].asked
    BY <1>1 DEF TabRecords, Ended
  <2> HIDE DEF w
  <2>3. t \in disturbed \/ CallbackQuery(tab[t].site) # Clean
    BY <1>1, <1>3 DEF At
  <2>4. CallbackQuery(tab[t].site) # Clean => SharesCallbackUrl
    <3>1. Instance(tab[t].site) \in Sites
      BY <1>1, SiteTypes DEF IInv
    <3>2. CallbackSite(tab[t].site) = tab[t].site
      BY <1>1 DEF At
    <3> QED
      BY <1>1, <3>1, <3>2 DEF IInv, QueriesAgree, CallbackQuery, SharesCallbackUrl, Instance
  <2>5. tab'[t] = w => Sound(t)'
    BY <1>1, <2>2, <2>3, <2>4
    DEF At, DoubleRedirects, SharesCallbackUrl, CallbackQuery, Instance
  <2> QED
    BY <1>1, <2>1, <2>2, <2>5, QuietStep
<1> QED
  BY <1>2, <1>3

\* A login is complete, or the rules send it to the provider once more, with a verifier of its own.
LEMMA CompleteLoginStep ==
  ASSUME IInv, NEW t \in Tabs, CompleteLogin(t)
  PROVE  IInv'
<1> DEFINE S(a) == [present |-> TRUE, isAuthorized |-> a,
                    challengeAttempted |-> tab[t].state.isChallenge]
           W(a) == IF a THEN [tab[t] EXCEPT !.pc = tab[t].state.target.kind,
                                !.page = tab[t].state.target, !.site = tab[t].state.target.site]
                   ELSE [Ended(t, "forbidden") EXCEPT !.page = tab[t].state.target]
<1>1. PICK a \in BOOLEAN :
        /\ SetSession(tab[t].site, S(a))
        /\ IF ~a /\ Challenged(S(a))
           THEN HandleLogin(t, tab[t].state.target, TRUE)
           ELSE /\ Goto(t, W(a)) /\ SetVerifier(t, tab[t].site, NoTab) /\ UNCHANGED query
  BY DEF CompleteLogin
<1>2. /\ tab[t] \in TabRecords /\ Sound(t) /\ At(t, "exchange") /\ ~At(t, "done")
      /\ tab[t].site \in Sites /\ config' = config /\ jar \in [Sites -> Sessions]
  BY DEF IInv, TypeOK, TabRecords, CompleteLogin, At
<1>3. tab[t].state \in States
  BY <1>2 DEF TabRecords, Clean, At
<1>4. /\ tab[t].state.target \in Pages /\ tab[t].state.isChallenge \in BOOLEAN
      /\ tab[t].state.target.site \in Sites /\ tab[t].state.target.kind \in {"page", "logout"}
  BY <1>3 DEF States, Pages
<1>5. DoubleRedirects \/ tab[t].state.target = tab[t].asked
  BY <1>2 DEF At
<1>6. jar' \in [Sites -> Sessions]
  <2>1. S(a) \in Sessions
    BY <1>4 DEF Sessions
  <2> QED
    BY <1>1, <1>2, <2>1, SetSessionType
<1>7. CASE ~a /\ Challenged(S(a))
  BY <1>1, <1>2, <1>4, <1>5, <1>6, <1>7, HandleLoginStep
<1>8. CASE ~(~a /\ Challenged(S(a)))
  <2> DEFINE w == W(a)
  <2>1. Goto(t, w) /\ SetVerifier(t, tab[t].site, NoTab) /\ query' = query
    BY <1>1, <1>8
  <2>2. w \in TabRecords /\ w.page = tab[t].state.target /\ w.asked = tab[t].asked
    BY <1>2, <1>4 DEF TabRecords, Ended
  <2>3. \/ w.pc \in {"page", "logout"} /\ w.outcome = tab[t].outcome
        \/ w.pc = "done" /\ w.outcome = "forbidden"
    BY <1>2, <1>4 DEF TabRecords, Ended
  <2> HIDE DEF w
  <2>4. tab' = [tab EXCEPT ![t] = w] /\ tab \in [Tabs -> TabRecords]
    BY <2>1 DEF IInv, TypeOK, TabRecords, Goto
  <2>5. tab'[t] = w /\ tab' \in [Tabs -> TabRecords] /\ \A u \in Tabs \ {t} : tab'[u] = tab[u]
    BY <2>2, <2>4
  <2>6. TypeOK'
    BY <1>2, <1>6, <2>1, <2>5 DEF IInv, TypeOK, TabRecords, SetVerifier
  <2>7. QueriesAgree'
    BY <1>2, <2>1 DEF IInv, QueriesAgree, DoubleRedirects, CallbackSite
  <2>8. ASSUME NEW u \in Tabs PROVE Sound(u)'
    <3>1. CASE u = t
      BY <1>2, <1>5, <2>2, <2>3, <2>5, <3>1 DEF At, DoubleRedirects
    <3>2. CASE u # t
      <4>1. tab'[u] = tab[u] /\ config' = config /\ query' = query /\ Sound(u)
        BY <1>2, <2>1, <2>5, <3>2 DEF IInv
      <4>2. OnItsWay(u)' /\ KeepsItsPage(u)'
        BY <4>1 DEF At, DoubleRedirects, CallbackSite
      <4>3. HasItsVerifier(u)' /\ (u \in disturbed => u \in disturbed')
        BY <2>1, <3>2, <4>1 DEF IInv, TypeOK, At, SetVerifier, CallbackSite
      <4>4. FailsOnlyDisturbed(u)'
        BY <4>1, <4>3 DEF SharesCallbackUrl, DoubleRedirects, CallbackQuery, Instance
      <4> QED
        BY <4>2, <4>3, <4>4
    <3> QED
      BY <3>1, <3>2
  <2> QED
    BY <2>6, <2>7, <2>8 DEF IInv
<1> QED
  BY <1>7, <1>8

\* Every step preserves the invariant.
LEMMA NextIInv == IInv /\ [Next]_vars => IInv'
<1> SUFFICES ASSUME IInv, [Next]_vars PROVE IInv'
  OBVIOUS
<1>1. CASE UNCHANGED vars
  BY <1>1
  DEF vars, IInv, TypeOK, QueriesAgree, At, DoubleRedirects, CallbackSite, SharesCallbackUrl,
      CallbackQuery, Instance
<1>2. ASSUME NEW t \in Tabs, NEW site \in Sites, Navigate(t, site) PROVE IInv'
  BY <1>2, NavigateStep
<1>3. ASSUME NEW t \in Tabs, Abandon(t) PROVE IInv'
  BY <1>3, AbandonStep
<1>4. ASSUME NEW t \in Tabs, Proceed(t) PROVE IInv'
  BY <1>4, ServeHTTPStep, HandleLogoutStep, FollowLocationStep, AuthenticateStep,
     CallbackRedirectsStep, CallbackLogoutStep, CallbackLoginStep, CompleteLoginStep DEF Proceed
<1> QED
  BY <1>1, <1>2, <1>3, <1>4 DEF Next

\* The invariant holds in every reachable state.
THEOREM Invariance == Spec => []IInv
BY InitIInv, NextIInv, PTL DEF Spec

\* Type correctness: of the cookies, the callback URLs, and the ways of the tabs.
THEOREM TypeCorrect == Spec => []TypeOK
BY Invariance, PTL DEF IInv

\* Whatever other tabs do and however often the rules send it back to the provider, a tab
\* that is served, refused or logged out is at the page its user asked for.
THEOREM TabsReturn == Spec => []ReturnsToRequestedPage
<1>1. IInv => ReturnsToRequestedPage
  BY DEF IInv, ReturnsToRequestedPage
<1> QED
  BY Invariance, <1>1, PTL

\* A login that the callback refuses was disturbed by another tab.
THEOREM UndisturbedLoginsAreKept == Spec => []UndisturbedLoginsSucceed
<1>1. IInv => UndisturbedLoginsSucceed
  BY DEF IInv, UndisturbedLoginsSucceed
<1> QED
  BY Invariance, <1>1, PTL

=============================================================================
